# A TLA+ model of Hàng Rong

Hàng Rong is a street-vendor game: a Go API (`src/backend`) over PostgreSQL, and a
Next.js/PixiJS client (`src/frontend`), with a kit of Python scripts (`src/.agent`) that
check the project and run its development server.  This directory holds TLA+ modules for the
core of these three, the TLC configurations that check them on small instances, and TLAPS proofs
of what matters most for instances of every size.

All paths below are relative to the repository; `game/` is `src/backend/internal/game/`.

## 1. The system

### Components

| component | state | operations | what makes it correct |
|---|---|---|---|
| Accounts, sessions (`auth_service.go`) | `users`, `auth_sessions`, wallet, stall, slots, starter goods and quests | register, login, refresh (rotate), parse access token | one live session per rotation; a registration is complete or absent |
| Selling (`selling_service.go`) | `stall_slots`, `inventory` | place a product, collect a slot, list slots | a unit is in one place; a slot pays once, after its time |
| Imports (`import_order_service.go`) | `import_orders`, `inventory`, wallet | create, claim, list | an order is paid when it is created and its goods arrive once |
| Inventory (`inventory_service.go`) | `inventory`, wallet | fast sale at 60%, list | no more is sold than there is |
| Stall (`stall_service.go`) | `stalls.level`, `stall_slots`, wallet, `users.level` | upgrade | a level costs its price once and brings exactly its slot |
| Quests (`quest_service.go`, `progression.go`) | `user_quests`, reset times in `users` | list (lazy daily and weekly reset), claim, progress | progress counts what happened; one reward per quest and period |
| Progression (`progression.go`) | `users.level/current_xp/max_xp` | `addXP`, `updateQuestProgress` | the level follows the XP table |
| Delivery (`delivery_service.go`) | `delivery_orders`, `shippers`, `inventory`, wallet | list shippers (unlocks), list orders (refreshes the board), deliver, claim, upgrade, instant completion | orders on the road are neither lost nor paid twice; goods and coins balance |
| Social (`social_service.go`) | `users` XP | friends, neighbour slots, help, prank | XP gain |
| Admin (`admin_service.go`) | all of a player | list, overwrite, delete | an overwrite loses no concurrent change |
| HTTP (`handler.go`, `server/router.go`) | rate-limit windows | decode, authenticate, map errors | at most 300 requests a minute |
| Migrations (`cmd/migrate`, `scripts/`, `database/`) | `schema_migrations` | apply what is not recorded | each migration is applied once, in order |
| API client (`frontend/src/shared/lib/apiClient.ts`) | tokens, queue of waiting calls | call, refresh on 401, retry | every call is answered |
| Hooks, pages (`shared/hooks`, `app/`) | query cache, optimistic balances | mutations and their rollback | the cache follows the server |
| Stall scene (`game/scenes/StallScene.ts`) | slots, customers | spawn, walk, buy, harvest, take server snapshots | a customer buys goods that are there; scene and server agree |
| Verification suite (`.agent/scripts/checklist.py`, `verify_all.py`) | the results of a run | run every check as a process, skip what is missing, give up what takes too long, stop at a critical failure, report | every check is settled; "ready" means that none failed |
| Check scripts (`.agent/skills/*/scripts`) | none | lint, test, type coverage, schema, security, UX, accessibility, SEO, GEO, mobile, i18n, Lighthouse, Playwright | the exit status says what the check found |
| Preview server (`.agent/scripts/auto_preview.py`) | `preview.pid`, the server process | start, stop, status | the server that runs can be found and stopped |
| Design-system generator (`.agent/.shared/ui-ux-pro-max`) | none | search tables, format a proposal | |
| Other scripts (`api_validator.py`, `react_performance_checker.py`, `convert_rules.py`, `session_manager.py`, `generate_catalog.py`) | none | print reports, convert files | |

The prompts of `.agent` and the design documents are not code.

### How they interact

A request is one PostgreSQL transaction: `Begin`, `SELECT ... FOR UPDATE`, checks with
early returns, absolute or relative `UPDATE`s, `updateQuestProgress`/`addXP` inside the
same transaction, `Commit`, with `defer tx.Rollback()`.  The isolation level is the
default, READ COMMITTED, so rows are protected by the locks the code takes and by
nothing else.  All services share the player's `users`, `user_wallets`, `inventory` and
`user_quests` rows.  The client sends one request per click and per React Query
refetch, several at a time and from several tabs; it retries some, and the API has no
request ids.

The scripts of `.agent` share nothing with the game but its directory.  A verification run
starts `python <script> <project>` for one check after another and looks at the exit status
only; a check may start linters, tests or Lighthouse and wait for them.  The preview script
keeps nothing but a file with a process id, and any number of its invocations may run at once.

### What is hard

* Requests of one player run concurrently on the same rows.  Some lock `users` before
  `user_wallets` and some after (deadlock); the wallet is written with absolute values
  (lost update); `ActiveOrders` and `QuestService.List` decide on something read before
  the lock that protects it.
* Requests are repeated, and their answers are lost.
* Time: sales, imports and trips finish between two statements; days and weeks begin
  while a request waits.
* The project is edited while a verification run reads it; commands overrun, are missing or
  fail; an invocation of the preview script is killed half-way, or overlaps with another, and
  process ids are used again.
* Long sequences of legal calls: shippers upgraded on the road, boards refreshed while
  orders leave, stall and XP raising one level column.

The list, with the line where each bites, is under `hazards` in `PROJECT.json`.

## 2. Modules

| module | models | checked by | proved in |
|---|---|---|---|
| `Delivery` | the delivery service | `MCDelivery` | `DeliveryProofs` |
| `Shop` | place, collect, import, claim, fast sale, upgrade, quest claim, visit to a neighbour, each in one step: what the endpoints promise | `MCShop` | `ShopProofs` |
| `ShopTx` | the same endpoints, and the locks of `GET /quests`, as transactions that lock row by row, with deadlocks and rollbacks; it implements `Shop` | `MCShopTx` | `ShopProofs` |
| `QuestReset` | the lazy daily and weekly reset | `MCQuestReset` | `QuestResetProofs` |
| `AuthSession` | login, refresh statement by statement, expiry, deletion of the player | `MCApiClient` | `ApiClientProofs` |
| `ApiClient` | the client's calls, refresh, queue, sign-in and sign-out, in tabs that share `localStorage` and whose pages are left, over `AuthSession` | `MCApiClient` | `ApiClientProofs` |
| `StallSlots` | the slots that the canvas and the page share | | |
| `StallScene` | the canvas: customers, countdowns, harvests | `MCStallScene` | `StallProofs` |
| `StallPage` | the stall page: cached queries, optimistic collects, placements, against the server's slots | `MCStallPage` | `StallProofs` |
| `SetSums` | sums over finite sets, for the ledgers of `Delivery` and `Shop` and the counts of the check scripts | | `SetSumsProofs` |
| `Verify` | a run of `checklist.py` or `verify_all.py` over any suite, any check scripts and a project that is edited | `MCVerify` | `VerifyProofs` |
| `Gate` | what a verification run promises; `Verify` implements it | `MCVerify` | `VerifyProofs` |
| `VerifyProject` | `Verify` over the suites and scripts there are, and what "ready" says of the project | `MCVerify` | `VerifyProofs` |
| `Suites` | the suites, their options, and how a check ends on a project | `MCVerify` | `VerifyProofs` |
| `ProjectFiles`, `CommandChecks`, `CodeChecks`, `SecurityScan`, `PageChecks` | the thirteen check scripts as operators over a project | `MCVerify` | `VerifyProofs` |
| `Preview` | start and stop of the preview, system call by system call, and the shell that the script starts | `MCPreview` | `PreviewProofs` |

Definitions whose comment begins with "Mutant" are wrong versions of a definition that
follows them.  No specification uses them; replacing the right one by the wrong one must
break the property that `mutants` in `PROJECT.json` names.

### Delivery

`status[o]` and `carrier[o]` are `delivery_orders.status` and `shipper_id`; an order whose
row is deleted remembers why (`replaced` by a refresh, `delivered` by a claim).  `shipper`,
`stock`, `wallet`, `userLevel` are the rows of those names; `busy` is `busy_until` less the
clock, in begun seconds, or `Null`.  `get[t]` is the `ActiveOrders` transaction of tab `t`.

`Deliver`, `ClaimReward`, `UpgradeShipper` and `InstantComplete` lock the shipper row in
their first statement, before they read anything else, and every row they write is locked
first or belongs to that shipper (`shipper_id = $1` changes only under its lock); so each
of the first three is one action.  They read the clock too, but only once, and only to learn
whether the trip is over.  `InstantComplete` reads it (`delivery_service.go:703`), sets
the price, and then waits for the wallet (line 716) before it takes the gems, and no lock stops the
clock: `QuoteCompletion` is the first half, which holds the shipper's row (`quote[s]`, `Unlocked`),
`InstantComplete` the second, and `AbandonCompletion` a refused or failed one.  `hurried` is history.
`ActiveOrders` takes no lock before its `DELETE` and has three
actions: `ReadBoard` (which fixes how many orders it will add), `StartDelete` (READ
COMMITTED gives the `DELETE` a new snapshot), and `Refresh` (the `DELETE` gets its row locks
and re-evaluates its `WHERE`; the new orders; the commit).  `Rollback` is its failure.
`Shippers` is an autocommitted `INSERT ... ON CONFLICT DO NOTHING` per unlocked index:
`UnlockShipper`.  What an order asks for is a constant of its id; the refresh chooses any
unused ids, so any board the random generator can make from those is considered.  A claim's
XP raises `userLevel` to any higher level; what a claim adds to `DELIVER_ORDER` quests is left out.  A refresh
adds nothing if no product is unlocked, which is the catalogue's, so it may add none at any time.

### Shop and ShopTx

`db` maps row names (`Wallet`, `Slot(i)`, ...) to rows.  Every endpoint is a pair: the
condition under which it succeeds (`MayPlace`) and the rows it leaves (`Placed`), both over a
partial row map `m`, so that the two modules share them: `Shop` applies them to `db`, and
`ShopTx` to `seen[t]`, the rows transaction `t` has locked, as it read them.  `due` has the
slots and orders whose time is over.  `sold`, `dumped` and `start` are history.

`ShopTx` has one more request, `GET /quests`: `Lists` has one for each outcome of its comparison of the day and
the week, and `ListRows` the rows it locks, the player's and then, at a reset, the quests' (`quest_service.go:28-60`).
What the reset writes is the subject of `QuestReset`; here the list only takes its locks and gives them back, for
no lock of another request depends on it.

In `ShopTx`, `Program(r, m)` is the sequence of rows that a request's statements lock, in
the order of the code.  `Lock` gets one more row if nobody else holds it; `Refuse` is an early
return, possible as soon as the rows read so far exclude the request; `Commit` writes what the
code computed from `seen[t]`, to the rows it holds; `Rollback` is a failing statement or a lost
connection; `Victim` is PostgreSQL's deadlock detector.  That `ShopTx` implements `Shop`
(`PROPERTY ShopSpec`) is the statement that the code's locks suffice: every transaction takes
effect at its commit, on the rows as they are then.

The requests are those of one player.  Players share the catalogue, of which a request locks one row, and the
`quests` rows, which the joined `FOR UPDATE` of `updateQuestProgress` (`progression.go:11`) locks together with the player's
`user_quests`, without an `ORDER BY`: with two quests of one kind, requests of two players can take the shared rows in two
orders and deadlock.  The order is the query plan's, so the modules leave it out, and say nothing of deadlocks between players.

Abstractions: `user_quests` and `quests` rows are one row; foreign-key share locks, and the reads that take no lock
of rows that never change (`products`, `upgrade_configs`), are left out; a collect or a visit
raises the level at most once, which `CollectXp <= XpStep` and `NeighborXp` within `0..XpStep` state (8, 5, 3 and 100 in the
code), and `VisitLevel` bounds the visits, which could go on for ever; a quest that was claimed never becomes
active again there, since the resets' writes are left to `QuestReset`.

### QuestReset

`day` is the clock; `Period` maps it to the day or ISO week that `List` compares.  `ListStart` is
`now := time.Now()`, before the transaction; `ListReset` is everything after the player's row is
locked.  `Progress` and `Claim` are `updateQuestProgress` and `Claim`, one action each because they lock
the `user_quests` rows they read.

### AuthSession and ApiClient

A token pair is one value, named by its refresh token.  `session[r]` is the row of
`auth_sessions` (`unused` if there is none), `valid` the pairs whose access token has not
expired, `origin[r]` the pair that `r` replaced, which is history.  `Refresh`
(`auth_service.go:213`) is three statements without a transaction: `RefreshCheck`, `RefreshRevoke`,
`RefreshIssue`, and `RefreshFail` between any two.  `users.status` is never set by the
code, so bans are left out.

In `ApiClient`, `call[c]` is how far call `c` has come, in which tab and with which token (`TabsOf[c]` are the
tabs that may make it), `isRefreshing` and `refreshQueue` are
those of `apiClient.ts` in each tab, `memory` is the access token a tab keeps and `stored` what all tabs
share in `localStorage`.  `Send`, `Serve`, `Receive` and `Lose` are a request's way there and
back, lost on either; `Enqueue` and `StartRefresh` are the two branches after a 401; `Refreshed` and
`Refused` are the two ends of `refreshTokenFlow` together with what its caller does next, since no
other callback runs in between.  The request and the response of a login are one step (`SignIn`).
`Leave` is the page of a tab reloaded, closed or replaced (`app/stall/page.tsx:330` sets `window.location.href`): the calls, the
queue, the flag and the access token are gone, `localStorage` stays, and so does what the server has begun.  A refresh
that was under way is `abandoned`, the other calls `gone`.

### StallScene

`slots[i]` is `empty`, `selling` or `ready`; `customers[c]` is one of the at most three
`activeCustomers`, or `away`; its `timer` is the 150 ms timer that harvests.  `SellOut`, `Arrive` and
`Exit` are the ticker's, `Spawn` the spawn timer's, `AutoHarvest`/`MissHarvest` the harvest
timer's, `Leave` the second timer's, which is set for later than the harvest timer; `handleSlotClick`,
`placeProduct` and `sync_slots` come from outside.  The page emits its cached list whenever that changes, at each
harvest too, with the countdowns of its last fetch; so `Snapshot` may put any list in the place of the slots at any
moment, ready slots set back to selling or to empty included.  `sold` is history: the slots that a harvest emptied and nothing
has changed since.  The number of slots is a constant.

### StallPage

`server` and `coins` are the database's; `shown` is React Query's cache of `stallSlots` and
`playerProfile`; `fetch[q]` the request of a query under way, with the answer once the server has given it;
`collect[m]` a collect mutation with its snapshot; `place` the placement under way; `slots` the scene's,
which get the cache at the next `Render`.  `Harvest` is the scene's event and the whole of `onMutate`
(`cancelQueries`, both optimistic updates, the request); `SettleCollect` is `onSettled`, which fetches both queries
again whether the collect was paid, refused or lost, because `apiClient` returns its failures;
`RollBackCollect` is `onError`, reached only when a call that waited for a token refresh is
lost on its second way.  A sale in its last second (`closing`) is reported as ready, because `Slots` truncates the
remaining seconds, and cannot be collected yet.  A request given up by the tab may still be served
(`ServeLateCollect`, `ServeLatePlace`).  One placement is under way at a time, which the page does not enforce.  `missed` is history: the queries that the page
cannot know to be out of date.

The comment at `useStall.ts:57`, "Cancel outgoing refetches to prevent overwriting
optimistic state", is more than the code does: when another collect settles, it fetches the slots
again, and the harvested slot is shown ready once more although its own collect has not been
served.  A second harvest is then refused by the server, and `QuietSynced` says that the page recovers.

### Verify, Gate and the check scripts

`position` is how far the loop of `main` has come, `active` whether the script there is running,
`results` what `run_script` returned, `verdict` what the run says in the end.  The code keeps nothing between
two runs; the variables of the last run stay until the next `Start`.  `seen` has the versions of the project that
exist while a script runs: a script reads file after file, so it may find the project as it was at any of them, and
`Pass` and `Fail` may choose.  (A script that reads half of one version and half of the next is not among the choices.)
`always` and `ever` are history: the scripts that would fail at every, or at some, moment of the run.
`Critical[r]` has the scripts whose failure stops the run: `checklist.py` always stops, `verify_all.py` when it is
told to.  `Next` has no step between two runs but `Start`: a run is a process of its own.

`Gate` knows which checks are due and which failed; `due` and `failures` map a run to it.  A skipped check passes.

A project is a record (see `ProjectFiles`): the names of the directories it lies in (`above`: the SEO and accessibility
scripts test every part of a page's absolute path, so that below a directory called `docs` or `test` they look at no page), files in the order in which the scripts come upon them, each with its kind,
its directory, the sort of its name and its marks.  A mark stands for a pattern of a script: whether, or how often,
the pattern occurs in the file.  So an operator such as `seo_check_page` keeps which patterns a script combines and how,
the limits on files and findings, the thresholds, the errors that it catches and those that end it; it leaves
out how a pattern finds its mark.  What a script selects is a set of positions in `files`; where it looks at the first few only
(`Take`, `Glob`), the positions' order decides which.  Each operator named for a script is the set of reasons for which the script ends with
a status other than 0; warnings, which change nothing but the output, are left out.  Some of what comes out of
that, and is as in the code: `security_scan.py`, `schema_validator.py` and `playwright_runner.py` end with status 0
whatever they find; `lighthouse_audit.py` fails exactly when Lighthouse runs and fails; a check whose script is not
installed counts as passed.

### Preview

What `Popen(["npm", "run", "dev"], shell=True)` starts, and what the file names, is a shell; on POSIX the signal of
`StopKill` reaches that shell only.  The module is about the shell.  The development server below it has ids that the script
never learns; whether it ends with the shell is the platform's, and nothing is said of it.

`pidFile`, `process` and `signalled` are the file system's and the operating system's; `pc[i]` is the next system call of
invocation `i`, `pid[i]` the process id it holds.  `write_text` is two actions, because it empties the file when it opens
it, and `detached` has the invocations whose open file has been unlinked meanwhile.  A start that reads a file without a
number goes on, as the `except` does; a stop removes the file whatever happens.  `ShellExit` ends a shell, signalled or
not; `ForeignStart` gives a free id to a program that `is_running` cannot tell from it.  `contended` and `unrecorded` are history:
they say that a start overlapped with another start or with a stop, and that a start was killed before it recorded its shell.

## 3. What is checked

| run | bounds | shows |
|---|---|---|
| `delivery` | 4 orders, 2 products, board of 2, 2 shippers with 2 levels, trips of 1 and 2 s, a gem per 2 s, 1 tab | ledgers, trips, exactly-once payment, no order lost to a refresh, gems for waits, and that trips end |
| `delivery_board` | the same with 2 tabs | **violation**: two refreshes at once offer more than a board of orders |
| `shop` | 2 products, 2 orders, 2 stall levels, 3 quests, visits up to level 1 | goods and coins are conserved; slots match the level; quests count |
| `shop_tx` | 2 transactions, 1 product, 1 order, 2 levels, a daily and a weekly quest that count the same | locks suffice (refinement); only imports and resets deadlock; requests end |
| `quest_reset` | 3 quests, 5 days, weeks of 2 days, 1 tab | one reward per period; only a later period makes a claimed quest claimable |
| `quest_reset_race` | the same with 2 tabs | **violation**: a quest is rewarded twice in a day |
| `api_client` | 2 tabs, 2 calls of which one is the first tab's, 2 token pairs | no call runs twice, one refresh at a time in a tab, spent tokens are not live, and left in the browser only with a page that waits or was left; no session without a player; every call is answered, stranded or gone with its page |
| `api_client_queue` | 1 tab, 2 calls, 2 pairs | **violation**: a call queued behind a refused refresh never settles |
| `stall_scene` | 3 slots, 2 customers, any snapshots | customers do not share slots; no sale without a buyer; no slot stays ready |
| `stall_page` | 1 slot, 2 collects, 1 lost call | the page agrees with the server when nothing is under way |
| `verify` | 35 projects, 5 ways to run, 1 edit | a run settles every check and ends; defects are reported and failures have causes; "ready" means what the checks are there for; no check of `verify_all.py` overruns because its commands are slow |
| `preview` | 2 invocations, 3 process ids, 2 shells, 1 crash, 1 foreign process | a stop can reach the shell that runs; a start gives up only because of one |

Why the bounds are enough.  `delivery`: two shippers make concurrent trips, one order fits a
level 1 shipper and two a level 2 one, the four ids allow a board to be replaced while an order is on
the road, and stock for less than all orders makes refusals happen.  `shop`: the wallet affords
some purchases and not others, both slots of level 2 get used, import quests complete in one or two orders.
`shop_tx`: each pair of requests meets, which is where lost updates and lock cycles of two begin (a fast sale that
reports `COLLECT_REVENUE` and a list that resets do deadlock);
`DeadlockNeedsImportOrReset` is about sets of transactions, and the proof covers longer cycles.
`quest_reset`: five days have two full week changes, and every day can be the first or last of a week.

`api_client`: of two calls in one tab one refreshes and the other queues, in two tabs they refresh the same token;
two pairs let the first refresh succeed and the next be refused.  The calls differ in nothing else, so that the first
is the first tab's is only a naming.  `stall_scene`: a new
account has three slots.  The code admits three customers; with three of them and every snapshot the search takes longer than
the five minutes of the others, and two already meet at every slot, stay for one another and are one too few for the slots.
The safety properties are proved for any number.  `stall_page`: one
slot is harvested twice, the second time while the first collect is under way; several slots
multiply the states beyond what can be searched, and the proof covers them.

`verify`: the projects are a clean one, the clean one without the scripts, an empty one, and one for
each kind of defect that a script looks for; the edit turns the clean project into any of them, or back, at any moment, so
each check meets each defect before, during and after its turn.  `preview`: two invocations are a start and a stop, two starts or two
stops; three ids are two shells and a foreign process, and the second shell may get the first one's id.

Deadlock checking is off in the runs of the game: players may stop sending requests, and the bounded sets of
orders and days are used up.  It is on in `verify` and `preview`: a run can always be started.

### Fairness

* `Delivery`: weak fairness of `Tick` only, for `TripEnds`: time passes.  No request is assumed.
* `ShopTx`: a transaction that can continue does (`WF` of `Commit`, `Refuse`: the server runs it), row
  locks are queued so a waiting statement is not overtaken for ever (`SF` of `Lock`), and the detector breaks
  deadlocks (`WF` of `Victim`); a list gives its locks back (`WF` of `CommitList`).  No request is assumed to be sent (`Begin`) and no statement to fail.
* `ApiClient`: `WF` of what the browser and the server do with a call that is under way (`Serve`, `Receive`, the three
  ways on from a rejection), and of the end of a refresh: the browser gives up a `fetch` that gets no answer
  (`LoseRefresh`).  No call, sign-in, sign-out or reload is assumed.  That a refused refresh strands the queue is not
  excluded: `AnsweredOrStranded` names it.
* `StallScene`: `WF` of each customer's next step (`CustomerStep`), which is the ticker's or a timer's and comes whatever a
  snapshot has made of the slot, and `SF` of `Spawn(i)`: the spawn timer
  rearms itself and draws uniformly from the eligible slots, so a slot that is eligible again and again is drawn.
  No click, placement or snapshot is assumed.
* `Verify`: `WF` of `Step`: the loop goes on, and a check ends or is given up (the time limit of `subprocess.run`).  No
  edit and no kill is assumed.
* `Shop`, `QuestReset`, `StallPage`, `Preview`: none; only safety is checked.

### What the code does otherwise than documented

`findings` in `PROJECT.json` has three disagreements, each with a run that exhibits it: a quest rewarded twice in a
day, calls that never settle behind a refused refresh, and more than a board of orders on offer.

The last: two concurrent `GET /delivery/orders` each insert a full board, so it can exceed the twelve orders of
`docs/PLAN-shipper-delivery.md:81`.  Each request keeps to a board of its own (`BoardsAddUp`, proved), so with one tab the
pending orders are at most twelve; those accepted between `ReadBoard` and `Refresh` come on top of them.

Others can be read off the models without a run of their own.

* Gems may be taken for a wait that is over: `InstantComplete` charges what the trip cost when it was priced, though the
  clock has gone on while it waited for the wallet (`GemsBuyTheWait` says what it does keep to).
* A page reloaded during a token refresh leaves the spent token in `localStorage` (`Leave`, `Abandoned`); the next refresh is
  refused and signs the player out.
* A fast sale that counts for two quests and a `GET /quests` that resets both can deadlock, and so can a quest claim, a
  collect and a resetting list (`DeadlockNeedsImportOrReset`); one of them then gets an error.
* A stall upgrade raises `users.level` and leaves `max_xp`, so the level can leave the table of
  `docs/PLAN-level-balance.md:16` (`Upgraded`).
* `verify_all.py:160-162` puts the project's path before the URL, and `lighthouse_audit.py:75` takes the first argument, so
  Lighthouse audits a path and, when it is installed, fails; the help text of `--url` (`verify_all.py:274`) says otherwise.
* "Ready" says nothing of what the scripts do not see: the commands of a `package.json` that does not parse, an `npm test`
  beside Python tests (`test_runner.py:70-74`), pages below a directory called `docs`, `test` or the like.  `Understood` and
  `PagesRead` name these cases, and `ReadyMeansSound` excepts them.
* `security_scan.py:230` limits the findings "for output", and the summary counts what is left: after 15 lesser secrets a
  critical one no longer makes the summary critical (`overall_status`).
* The checklist gives its lint check five minutes, which three linters of two minutes each exceed (`NoOverrun` is therefore
  about `verify_all.py`).
* Stopping the preview signals the shell only (`auto_preview.py:80,97`); the server below it may go on, with the file gone.

## 4. What is proved

With `tlapm`, for every value of the constants that the named assumptions allow:

* `SetSumsProofs`: a sum over disjoint sets is the sum of the sums, what one more, one less or one changed element
  does to it, the empty sum, a bound on it (`TotalBound`), and that only a sum of zeros is zero; and that sets of at most `k` elements
  cover at most `k` for each of them (`CoverBound`).  `Total` is a fold of the community modules, that is a recursive function over the
  subsets of a finite set.  The library's induction theorems cannot be instantiated, so each lemma takes a smallest
  subset for which it fails (`SmallestSubset`) and refutes it.
* `DeliveryProofs`: `TypeOK`; `TripsConsistent` and `PaidExactlyOnce`, which are inductive together
  (an order is `delivering` exactly when it has a carrier, so a claim finds each order it pays unpaid,
  and the refresh finds no carried order pending); `DeliveringStays` and `GemsBuyTheWait`, action properties, from the
  same invariant; `StockLedger` and `CoinLedger`, each from that invariant and the sum lemmas: a step moves a set of
  orders between two disjoint sets.  `GemsBuyTheWait` needs `Quoted` besides: while a completion holds its shipper's row the trip
  goes on, with no more left of it than was priced, and nobody has paid for it yet.  The proofs hold for any number of tabs: the
  refresh race breaks the board's size and nothing else.  By how much is `BoardsAddUp`, at most a board of pending orders for each
  request that can be under way.  The strengthening (`Shared`) gives each request the orders of its last refresh: a request that is deleting has every
  pending one of its own in its snapshot, because nobody else adds to its share, so a refresh puts new orders in the place of its old ones.
* `ShopProofs`, about `Shop`: its types, `SlotRows`, `LevelCoversStall`, `GoodsLedger`, `CoinLedger` and `QuestsCount`, for
  any products, slots, orders, levels, quests and prices.  `ShopSound` is what is inductive: the types, which columns of a
  slot and of an order go together, that the slots are those of the level, and what may be timed.  Each
  operation's effect on the rows is stated once (`PlaceEffect`, `CollectEffect`, ...), and each ledger follows from the effects and
  the sum lemmas.
* `ShopProofs`, about `ShopTx`: the refinement `Spec => ShopSpec` (`Serializable`), for any number of transactions.  The
  invariant is `LocksOwned`: no two transactions hold a row, and what a transaction read of a row it holds is the row as it is.  A
  commit that computes from `seen[t]` is then the operation of `Shop` on `db`.  With it `TypeOK`, and all of
  `Shop`'s invariants for the transactions (`BooksBalance`).
* `ShopProofs`, about deadlocks: `DeadlockNeedsImportOrReset`, for any number of transactions of a player and so for cycles of any length.
  `Stages` says which rows a transaction has locked when it asks for the next.  The quest rows, which come last and in no
  order, are never waited for without an import or a reset: two transactions that count for the same quests have met at
  an earlier row (`QuestsUncontended`), and a claim of a quest holds one that is no longer active.  The other
  rows are taken in one order of the tables (`TableRank`), so along a chain of waits the rank grows (`RankGrows`), and a
  finite chain ends (`ChainsEnd`).
* `QuestResetProofs`: `TypeOK`; `RewardsPerPeriod` and the action property `ClaimedNeedsReset`, both under the
  assumption that a player has one `GET /quests` at a time (`OneList`), which the `quest_reset_race` run shows to be
  necessary.  The inductive invariant
  says that resets are in calendar order (no list in progress is older than the last reset) and that
  the rewards paid are at most the periods up to the last reset, one more if the quest is claimed.
* `ApiClientProofs`, about `AuthSession`: `ExchangeSpendsToken` and `SessionsNeedPlayer`, for any number of concurrent
  refreshes failing anywhere.  The strengthening, `RevokedStaysSpent`, is what a refresh knows between its statements: the
  token it has revoked stays revoked or deleted, so issuing its successor keeps the chain.
* `ApiClientProofs`, about `ApiClient`: each step is a step of `AuthSession` or leaves the sessions alone
  (`ClientUsesSessions`), so the two properties above hold of client and server together; `TypeOK`, `AtMostOnce`,
  `OneRefreshPerTab` and `StoredTokenUnspent`, for any number of tabs, calls and token pairs.  `TabInv` ties the flag of a tab to
  the call that refreshes there and to the queue.  `StoredTokenUnspent` needs `TokenInv`: a pair that is not issued yet
  is known to nobody, one whose issuing tab has not stored it is known to that tab's refresh alone, and it is the answer to
  the token that this refresh presented; so nobody can have exchanged it before it is stored.  Pages may be left at any
  moment: a refresh that goes with its page is what `Abandoned` remembers.
* `StallProofs`, about the scene: `SceneTypeOK`, which contains that a customer whose harvest timer runs has not left; from
  it `HarvestNeedsBuyer`, and `OneCustomerPerSlot`, under any snapshots, for any number of slots and any number of customers up to it
  (`SceneAssumption`; with more customers than slots it is false): the customers on the scene take fewer slots than there are
  when one more is let in, so that the last resort of `spawnCustomer`, any slot, is not reached.
* `StallProofs`, about the page: `TypeOK` and `QuietSynced`, for any number of slots, collects and lost calls.
  `QuietSynced` alone
  is not inductive: an answer under way must agree with the server too (`CoinsFollow`, `SlotsFollow`), unless a
  mutation is still to settle, whose settling discards it.
* `VerifyProofs`: `TypeOK`, `DefectReported`, `FailureHasCause` and the refinement `GateSpec`, for any suites, scripts,
  projects and number of edits.  The inductive invariant says that every check before `position` that is in `always` has
  failed, because a project that the script may have read is one of the run so far, and that the checks from `position` on have no result
  yet; the latter is what makes each step of the run a step of the gate.
* `VerifyProofs`, about the two suites (`VerifyProject`): `NoOverrun` and `ReadyMeansSound`, for any projects, with any number of files
  and any commands.  A check of `verify_all.py` waits for its commands one after another, each of which is given up after the
  minutes the script sets it (`OwnLimit`, `Minutes`); `lint_runner` waits for at most four of two minutes (`FourLinters`), and the sum of at most four times two is
  less than ten (`TotalBound`).  For `ReadyMeansSound` the invariant is strengthened by `Watch`: what scripts
  have read is kept only while one runs, in a run that is under way, and as long as the project is not edited, the checks that
  have failed at every moment of a run that goes on or is ready are exactly those that fail on the project.  With `DefectReported`
  none of them is in the plan of a run that ends ready.  The rest is about the scripts: an image
  without a text is among the files that `ux_audit` walks, a page among the first fifty that `seo_checker` takes when there are not more
  (`TakeAll`, `GlobAll`), and the issues that a script counts are none only if each file has none (`TotalZeroOnly`).
* `PreviewProofs`: `TypeOK`, `ShellIsTracked` and `RefusalMeansRunning`, for any number of invocations and processes.  The inductive invariant describes
  where a live shell can be while starts have been alone: named by the file, held by the one start that has spawned it, or
  about to get its signal from a stop; and that a start which is past its probe has seen no live shell.  The action
  property `RefusalMeansRunning` adds to it (`Asking`) that the file names no shell that was signalled, unless a stop is
  about to remove the file, and that only a counted program has an id that is not a shell's.

The liveness properties themselves are out of the prover's reach, but for four of them the part that is not about fairness is proved:
something can always move, and what moves comes closer to the end.  `RunsShorten`: a run that goes on has a step to take and finitely many left,
and an edit adds none.  `TripsShorten`: each second takes one off a trip, and no other step adds one.  `CallsComeToAnEnd`: every step of a call brings
it closer to its end (`Distance`), so that no call is sent again for ever, and a queued call waits for a refresh that is under
way or is stranded.  `NoStandstill`: as long as a request of the shop runs, one can be refused, committed or granted a lock, or some wait for each
other in a circle, which the database breaks; and a request only adds to the rows it has.

The type invariants of `Shop`, `QuestReset`, `StallScene`, `StallPage`, `Verify` and `Preview` are proved and no run repeats them.

The assumptions are those on the constants, all of which TLC evaluates in the runs: the catalogue and the prices are natural
numbers and the sets of orders, products, slots and quests finite; a gift of experience raises the level at most once; a later
shipper level carries no less; a tab's name is a tab; there are no more customers than slots; a check suite is a
sequence of its scripts; connections and tabs are finitely many; the runs and scripts of `VerifyProject` are those of `Suites`, the time of a command is a natural number and a
project's files have an order (`ProjectAssumption`).  `OneList` is the one hypothesis that a theorem states by itself.

Only model-checked: the liveness properties (`TripEnds`, `RequestsEnd`, `AnsweredOrStranded`, `ReadyIsSold`,
`RunEnds`), because `tlapm` has no rule for fairness and `ENABLED`.  Every other property of a passing run is
a theorem.

## 5. Not modelled

The rate limiter, migrations and the admin endpoints other than the deletion of a player, the mount
of the canvas, and pages other than the stall's are not modelled yet (see the plan).  Of the check scripts, the
warnings and the wording of reports are left out; of the other scripts of `.agent`, everything: `design_system.py`,
`core.py` and `search.py` rank rows of tables and format text, `api_validator.py`, `react_performance_checker.py`,
`convert_rules.py`, `session_manager.py` and `generate_catalog.py` print or convert, and none keeps a state or takes part in a suite.  Read-only queries (`player_service.go`, `product_service.go`, the lists), HTTP decoding,
configuration, drawing, animation, sound and layout stay out: they change no state a property is about.

## 6. Plan

1. Done: `Delivery`, `Shop`, `ShopTx`, `QuestReset` with their runs and proofs.
2. Done: `AuthSession` and `ApiClient`, with their proofs.
3. Done: `StallScene` and `StallPage` with their proofs.  Left: the mount and unmount of the canvas
   (`StallSceneCanvas.tsx`), a stall that grows while customers walk, the delivery dialog.
4. Done: `Verify` with `Gate`, the check scripts and `Preview`; proofs about `Verify` and `Preview`.
5. Left: `RateLimiter`, `Migrate` (crash between execution and record), `Admin` with the
   full `addXP` loop against the XP table.
6. Done: proofs about `Shop`, `ShopTx`, `ApiClient`, the customers of `StallScene`, and every action property.
   `BoardsAddUp`, the two properties of `VerifyProject`, and what progress rests on (`RunsShorten`, `TripsShorten`,
   `CallsComeToAnEnd`, `NoStandstill`).  Left: the theorems about the modules that item 5 adds.
