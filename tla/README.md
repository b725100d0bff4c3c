# Telegramcopybot in TLA+

A verification project for the bot in `telkap/`: TLA+ modules translated from
the Python source, TLC configurations that check them on small instances, and
proofs checked by TLAPS. The bot copies posts from source channels to
destination channels for paying customers. It is one Python process on one
asyncio event loop over one SQLite database.

## 1. The system

### Components

| Component | Source (`telkap/…`) | State it keeps | Operations |
|---|---|---|---|
| Copier | `services/copier.py` | `_in_flight`, per-source queues and workers, album slots; `message_map`, `retry_items` | `process` (gates, then `_deliver`), `_send` and its ways, `_hold`, `_enqueue_retry`, `_remember`, `sync_edit`, `_sync_delete`, `_dispatch`, `stop_user` |
| Sweeper | `services/sweeper.py` | none of its own; reads the map | a round every 3 minutes over each source |
| Approval and release queue | `services/pending.py`, `handlers/approvals.py` | `pending_posts` | `hold`, `release`, `reject`, approve all, reject all, `prune`, `next_slot` |
| Retry queue | `services/retry.py` | `retry_items` | `_attempt`, `_reschedule`, `_postpone`, `_drop` |
| Abandoned posts | `services/abandoned.py` | `abandoned_posts` | `mark`, `is_marked`, `prune` |
| Quota and credits | `services/entitlement.py`, `credits.py` | `period_usage`, credit columns of `users` | `reserve`, `release` |
| Task and plan cache | `services/cache.py` | two dictionaries | `get_task`, `invalidate_task`, `get_entitlement`, `invalidate_user` |
| User accounts | `services/userbot.py`, `health.py`, `handlers/account.py` | clients, handlers, `source_map`; session columns of `users` | login, `ensure_client`, `reload_user`, `logout`, `heal` |
| Simple mode | `services/pool.py`, `pubpoll.py`, `reader.py`, `botsend.py`, `svclogin.py` | `service_accounts`, `source_leases`, marks | leases, polling public channels, sending by the bot |
| Payments | `services/payments.py`, `cryptocheck.py`, `crypto.py`, `usdtrate.py`, `tron.py`, `zarinpal.py`, `handlers/billing.py` | `payment_requests`, coin rates | quote, create, attach a proof, approve, reject, automatic confirmation, rates by hand and from the market |
| Money around them | `wallet.py`, `coupons.py`, `giftcodes.py`, `referral.py`, `reseller.py`, `renewal.py` | `wallet_toman` and `wallet_entries`, `coupons`, `coupon_uses`, `gift_codes`, `referral_rewards`, `reseller_sales` | credit, debit, validate, redeem, reward, sell, renew |
| Subscriptions, plans | `subscription.py`, `limits.py`, `planstore.py`, `reminders.py`, `plans.py` | `subscriptions`, `plan_overrides` | grant, upgrade, extend, revoke, edit plans and limits |
| Filters and transformations | `filters.py`, `transform.py`, `routing.py`, `dedupe.py`, `configs.py`, `docedit.py`, `watermark.py` | none | functions on posts, text and files |
| RSS feeds | `feeds.py`, `feedworker.py` | the map, used as a seen-set | poll, publish |
| History copy | `history.py`, `handlers/history.py` | a job per user | backfill |
| Rate limiter | `ratelimit.py` | next free instants, windows, the day's count | `acquire`, hourly and daily quota |
| Bot dialogues | `handlers/` | the state and the data of each chat's dialogue | tasks, destinations, settings, account, billing, administration |
| Web panel and mini app | `web/` | `web_accounts`, `web_sessions` | login with second factor, JSON interface |
| Administration, reports, tools | `handlers/admin_*`, `roles.py`, `support.py`, `alerts.py`, `digest.py`, `backup.py`, `tools/`, `deploy/` | single rows | screens over the above |

`main.py` starts one dispatcher for button handlers, one `Copier`, one
`Sweeper`, one `RetryWorker`, one `ReleaseWorker`, and the background loops of
the other services. All of them share the database and `Copier._in_flight`.

### How they interact

A post reaches `Copier.process` from the per-source queue (a Telethon update),
from the sweeper (a re-read of the channel), from the poller of simple mode,
from the release worker or an owner's button (a row of `pending_posts`), or
from the retry worker (a row of `retry_items`). `process` takes the post in
`_in_flight`, walks through the gates (switch, hours, plan, filters,
engagement, approval, gap, hourly cap, duplicate, quota) and sends it to each
destination; each success is written to `message_map`, each passing failure to
`retry_items`, each lasting one to `abandoned_posts`. What a task is comes from
`cache.get_task`, what its owner may still use from `entitlement`, when the next
post may go from `ratelimit` and `pending.next_slot`. Every question to the
database is an `await`: another coroutine may run there, for aiosqlite answers
from a thread of its own.

### What is hard

Interleavings of these coroutines between two awaits; a kill or a cancellation
between a send and its record; answers of Telegram that are lost although the
post arrived; a row deleted before the work it stands for is done, and its id
given to the next row; caps read in one transaction and used in another;
snapshots that are stale when used. The full list, each at its line, is
`hazards` in `PROJECT.json`.

### What makes each component correct

- **Delivery.** A destination shows a post once, whole; nothing is published
  without the owner's tick where approval is on; a post that failed is
  remembered somewhere until a rule decides its fate; a lost update is found
  again; posts are handed over in their order; a message unit is charged only
  for what was delivered; queues respect their caps; edits arrive.
- **Pace.** Posts stand `min_gap_seconds` apart, also when several coroutines
  ask for a slot at once; no window and no day lets through more than it may.
- **Tasks.** A snapshot does not outlive its invalidation; a setting is as its
  last change meant it; a task reads and posts where the answers said; the
  plan's limits are passed by no more than what was open.
- **Accounts, simple mode, feeds.** One client, of the stored session; no post
  passed over by a mark; a source does not stay with an account that cannot
  read it; an item of a feed once in every channel, and a new one not forgotten.
- **Payments.** What a request bought is given once and only on approval; a
  transfer pays for one request; a confirmed transfer activates its request; a
  referrer is credited once; a rate set by hand stays.
- **Wallet and subscriptions.** No balance becomes negative or leaves its
  ledger; a gift code gives once; what was paid is granted and what was granted
  was paid; a subscription is not renewed twice; who has to be told that it ends is told
  once and in time; what admins change of plans arrives in the rows and in memory.

## 2. Plan

Modules in order of importance. Each is a specification of its own; the modules
`MC…` instantiate them for TLC, the modules `…Proofs` hold the theorems.

| # | Module | Stands for | State |
|---|---|---|---|
| 1 | `CopyDelivery` | the five coroutines that hand posts to `Copier.process` | checked; types, seven safety invariants and the refinement proved |
| 2 | `PostDelivery` | what a task promises, in five actions | implemented by `CopyDelivery`: checked and proved |
| 3 | `SourceQueue`, `SendWays`, `EditSync` | before, inside and after `process`: queue and albums, ways of sending, edits and deletions | checked; the order of `SourceQueue` and `SentWhole` proved |
| 4 | `GapQueue`, `RateLimit` | the clocks: gap and hours; pace, hour and day | checked; slots and pace proved |
| 5 | `TaskTable`, `Feeds` | a task's row, its snapshot and who changes it; the feed on top of it | checked; every invariant proved |
| 6 | `Payments` | a request from its price to its goods | checked; types, the referral credit and the hash that pays once proved |
| 7 | `Subscriptions` | plans, wallet, gifts, resellers, renewal | checked; every invariant proved |
| 8 | `SimpleMode`, `Userbot` | who reads: service accounts and leases; a customer's own account | checked; the safety invariants proved |
| 9 | `Entitlement`, `History` | plan quota and credits behind one unit, and the history job that spends them | checked; proved |
| 10 | `TaskDesk`, `PlanStore`, `CoinRate` | the dialogues that make tasks, the admins' changes of plans and limits, the rates | checked; proved |
| 11 | `TextPass` | what becomes of a text and its formatting | checked |
| 12 | `Reminders` | the loops that tell customers and resellers of a subscription's end | checked; proved |

**Composition.** `Feeds` extends `TaskTable`, `History` extends `Entitlement`:
these share state. The others meet at one step of one of them, and that step is
what the other opens up: `Copier.process` is one step of `SourceQueue`,
`SimpleMode` and `EditSync`, and a module in `CopyDelivery`; the answer of
Telegram is one step of `CopyDelivery`, and a module in `SendWays`; *a row is
due* is a choice in `CopyDelivery` and a clock in `GapQueue`; `units` there is a
counter per post, and `Entitlement` has its two transactions; *give what was
bought* is one step of `Payments`, and `Subscriptions` has it with everyone else
who does the same. `CopyDelivery` implements `PostDelivery` under the mapping at
its end (`Promise`).

**Theorems left.** Of the safety invariants, `TextTrue` alone: `TextPass` works with
sequences in recursive functions, and what these compute for every input is out of the
prover's reach.

## 3. Modules and code

Every definition is listed with its lines under `map` in `PROJECT.json`. Below,
what the variables are and where the abstraction lies. An operator no action uses
(`DuplicateUnasked`, `SlotBesideQueue`, `DebitWithoutEntry` …) is a broken variant
of the definition below it: with it in place the property listed beside it under
`mutants` fails. A variable called *ghost* in its module remembers something for
a property; no guard reads it.

### CopyDelivery and PostDelivery

`messageMap`, `retryQueue`, `pendingPosts`, `abandoned`, `enabled`, `open` are
tables and survive `Crash`; `inFlight`, `pc`, `job`, `updates` are memory and do
not. A step is the code between two awaits at which another coroutine may
matter. The gates of `process` appear in the code's order: flight lock
(`Enter`, `StepAside`), switch, plan, hours, filters and engagement (`Filter`),
approval (`ApprovalGate`), minimum gap (`GapGate`), cap, duplicates and quota
(`Admit`); `HoldAsk` and `HoldInsert` are `hold`, which asks and inserts in two
transactions. `Connect` to `Finish` are `_deliver`. `Faults` names the answers
of Telegram and the rules that may bite in a run, `Holds` the reasons to wait.

`PostDelivery` knows four things: how often a destination shows a post, which of
these the task has written down, which posts the owner allowed, and how many
interruptions there were. A post may be shown when it is allowed (with approval
on), is not written down, and was shown at most once per interruption.

Abstractions: destinations after the main one come in any order; a sweeper's mark
and list are read in one step; ids of rows take two values, enough to tell a
reused id from a fresh one (SQLite reuses the id of a deleted last row); the
snapshot of the task is coherent; gates are quicker than `IN_FLIGHT_WAIT` unless
`SlowGates`; the quota is a bound per post; a row becomes due, and a back-off
ends, at some point. Trimming of `message_map`, statistics and `delay_seconds`
are out.

### SourceQueue, SendWays, EditSync

`SourceQueue`: every update has a coroutine, which gives way only while the alert
of a long queue is sent; a place in the queue is taken in the order of first
hearing, `worker` takes them out, under the order (`strict`, `grace`, `fast`)
that is read anew for each post. An album is complete by Telethon's event or by
the timer. `stop_user` may come at any moment.

`SendWays`: one sending is a post with its settings (`order`), what the coroutine
holds in this try (`try`: the point it has reached, its way, its downloads, the ids it
was answered), the files in the directory and what stands in the chat; `job` is what
outlasts a try, with its row. Every call of Telegram may
be refused, break off, or arrive with its answer lost; `Caught` is what `_deliver`
does with an error, `Again` the retry. `slipped` marks what no code can know of
(a lost answer, a refused deletion, a cancellation in flight, and the part of an
album that forward mode takes for the whole), `leaked` a cancellation while a file
is rewritten in a thread; `SentWhole` excuses exactly these. Downloads get a free name;
watermarked and rewritten files are named after another file, or all alike, and written
over what has that name. `mixed` (ghost) tells whose files met that fate: of the content
of such a post, and of nothing else about it, `SentWhole` says nothing.

`EditSync`: rows keep the fingerprint (`stamp`) of the text that was copied; in
account mode an edit is an update with a coroutine, in simple mode the poller
looks at the post again and again.

### GapQueue and RateLimit

Instants of `GapQueue` are relative to now and stop at a gap in the past, because
`next_slot` cannot tell older ones apart; `opens` is the clock of the active
hours, closed for `Night` ticks and open for `Day`. `NextSlot`, `Hold`, `Insert`,
`Send`, `Bump` are the two gates and what follows. Retries are left out (the gate
lets them pass).

`RateLimit` has the three caps side by side: `acquire`, whose senders sleep with
the target's lock held and may be cancelled in their sleep; `HourlyQuota`, which
refuses; `DailyQuota`, seeded from `DailyStat` after an await. Minute, hour and
day are 1, 2 and 3 ticks long.

### TaskTable and Feeds

`row` is the task, `cache` the snapshot; editors read, change, commit and then
invalidate, or do not (the mini app's switch and deletion); `get_task` reads in
one step and stores in another. `made` tells tasks that bear one id apart.
`Feeds` adds the site (`top`, of which the last `Window` items are shown), the
seen-set and one worker. A send fails before it arrives (`SendFails`) or after
(`AnswerLost`; the worker takes both for a failure), the row of an item may fail
(`RememberFails`), and so may everything a check reads (`CheckFails`). Its property
counts copies per task, channel and item; `unrec` (ghost) counts, per channel too, the
copies whose row was never written for one of these reasons or by a crash.

### Entitlement and History

`usage` and `credits` are read in one step and written as read in another;
`back`, `recredit` and `refund` return what was taken to where it came from.
`History` is the dialogue from its count on and the job.

### SimpleMode and Userbot

`SimpleMode`: `account`, `lease`, `on`, `delivered` are tables; a lease carries
the mark of the source. The poller's round, other readers, the admin's buttons
and the login are coroutines; floods, dead sessions, lost connections and crashes
are faults. `Userbot`: `session` is stored, `valid` what Telegram accepts, `client`
what is connected, each with its handlers and its map of tasks; the lock of
`ensure_client` is kept, and what goes past it as well. A connection that fails, is
refused or is cancelled after it was made may leave its client connected
(`Remains`, ghost `left`). `resolve_entity` answers None (`ResolveFails`: one task is
skipped) or raises a `LoginError`, which ends the reload with the rest unlisted
(`ReloadFails`, ghost `cut`).

### Payments, Subscriptions, CoinRate, PlanStore

`Payments`: `row` is `payment_requests`; a customer's dialogue is `flow`, lost
with the process. `approve` is `Status`, `Commit`, `Refresh`, coupon, `Give`,
referral: each its own transaction, because a `SELECT` opens none in SQLite and
what it read may be old at the commit. Amounts are *enough* or *Small*. A request
keeps (`before`) which transfers were more than an hour old when it was made: the
network is asked for those that were not, of the oldest request on the list
(`Since`), and answers with `Pages` of them at most. Ghosts: `bought`, the requests a
hash paid for, and `loose`, the hashes two decisions had in hand at a time or whose
request was given another proof since (`Slips`).

`Subscriptions`: `sub` is `subscriptions` (`ends` in days), `wallet` and `ledger`
the balance and the sum of its entries, `taken` the gift codes, `owner` the
customers' resellers, `order` an open request for a plan, `marks` the renewal
loop's rows, `disturbed` (ghost) whether some change of `ends` may have made a renewed
subscription the last to end again. `grant` is `Current` (read), `Close` (upgrade only), `Insert`;
`credit` is a read and a write; `debit`, `redeem` and a negative adjustment are
one conditional `UPDATE`. A plan never leaves `PLANS`, so that the refunds for a
grant that answers None are not reached.

`CoinRate`: rounds ask one market after another and keep what agrees; the admin
sets, forces, switches and changes the margin between. `PlanStore`: every change
reads, gives way and writes a whole row; `shown` is the memory others read.

### TaskDesk and TextPass

`TaskDesk`: `dialog` is the chat's state and data, `tasks` the rows with their
destinations, `hand` what every handler is doing between its checks and its writes;
the ghosts are `births`, the number of rows made, which tells a reused id, and
fields of rows and dialogue: `clean` (from the answers of one dialogue), `asked` (the
plan's tasks were counted first), `mixed` and `torn`. `TextPass`: a text is a sequence of pieces; the operators are the steps of
`apply_transforms` in their order, and `remap_entities` is `Moved`.

### Reminders

`turn` is where each loop is: its stage, the time of its next round, what is left
of the list it read (`todo`) and whose mark it owes (`doing`); `noted` is
`reminder_state`. A round of `reminders.py` is `Warned`, then `Left`; one of
`agentnudge.py` is both kinds of `BySeller`, one group to a reseller. A message
to a customer counts as sent whatever came of it; one to a reseller may be lost
(`IsLost`) and leaves no mark. `Prunes` is `prune_reminder_state`. The loops read
no row of each other's, so a behaviour is about one of them. The two reads at the
beginning of a stage (subscriptions, then marks) are one step.

## 4. Runs

| Run | Checks | Shows |
|---|---|---|
| `DeliveryApproval` | `UnitsBacked`, `DeliversAsPromised` | live worker, sweeper, release worker and an owner over two posts under approval, held also for hours, engagement or gap, one cut: the task implements its promise, and no unit leaks |
| `DeliverySweep` | `OneHandler`, `AtMostOncePerCut`, `RetryFillsGaps`, `NothingForgotten`, `QueueNearCap` | sweeper, live and retry workers, two destinations, seven kinds of failure, the retry queue at its cap |
| `DeliverySafetyNet` | `RetryEnds`, `SweeperFinds`, `ApprovedGoesOut` | liveness: no row retried for ever, a lost update found, what the owner ticked published or given up |
| `FloodWait` | `NothingForgotten` (violated) | a flood wait forgets an admitted post |
| `GapConvoy` | `HeldGoesOut` (violated) | two waiting posts put each other back for ever |
| `PayConfirmed` | `HashPaysOnce`, `RewardedOnce`, `ApprovedServed`, `ConfirmedActivated` | two decisions at a time, under fairness, in three parts: one customer with a coupon and a kill, two who send one hash again and again, and the bank's page beside an admin |
| `PaidTwice` | `GivenOnce` (violated) | two approvals that both read *pending* |
| `ShopTogether` | `LedgerKept`, `GiftOnce`, `PaidFor`, `RenewedOnce` | two handlers and the renewal loop, four requests of any kind, one failure |
| `SimplePoll` | `EachPostOnce`, `ServedAgain` | the poller and another reader over two accounts, three posts, any two faults |
| `UserbotRebuilt` | `OneOwnClient`, `HeardOnce`, `Reconnected` | a handler that logs in, out, bans or switches, beside heal, with any one fault; in two parts, a customer with one task who logs in again but does not switch the task on again, and one with two who switches them and does not log in again |
| `Sources` | `SnapshotFollows`, `SettingsKept`, `FeedOnce`, `Accounted`, `SlotsApart`, `InOrderOnce`, `NewItemServed`, `QueueMoves`, `EditsLand` | six components, one in each behaviour |
| `Office` | `TasksFit`, `PlansTrue`, `ByHandKept`, `PaceKept`, `TextTrue`, `SentWhole`, `ToldOnceInTime` | seven components, one in each behaviour |

`MCSources` and `MCOffice` put components that share no state into one
specification. The variable `part` is chosen at the start and says which of them
the behaviour is about; the others stand still at one point. Their state spaces
add up, so one run asks each component's own question at its own bounds. In
`MCPayments` and `MCUserbot` the parts are of one component: each leaves out what
another is about (a second customer, kills, logins), and nothing that a coroutine which
has started would do, so that no fair action is cut short.

**Type invariants.** Each module states one. Those of `CopyDelivery`, `Payments`
and `Subscriptions` are theorems; `SourcesTypeOK` and `OfficeTypeOK` collect the
others, hold in the instances of the two configurations, and are not listed as
properties: a wrong type there shows as an error of TLC in the runs that are.

**Bounds.** Two posts are what it takes for one to overtake another, a third lets
`LOOKBACK` (2) leave one behind; two destinations give a main and another one;
ids for three retry rows leave room above the cap of one, which racing
coroutines may pass. `MaxCuts`, `MaxFailures`, `MaxTrouble`, `MaxFaults`,
`MaxKills` and `MaxStop` of one or two let every property that excuses a failure
meet one, at every step. `MaxMade` = 2 lets an id be used again. A feed that
shows two items, with one published per check and three in all of which the last is
refused, is the least in which a refused item keeps an older one from being taken
(`Crowded`), and a burst exceeds a check. In `PayConfirmed` two requests and one hash
are the least with which a second use can happen; `MaxBusy` = 2 lets two decide at a
time, and with `Resend` a proof is sent again for a request that has been paid; one
page (`Pages` = 1) holds the one transfer there is. In `UserbotRebuilt` a fourth client
leaves room for one that was left behind beside the runtime, a reconnection and a login:
two places are kept for reconnections, a third for a login, so that no bound stops a
coroutine that has started. In `ShopTogether`, `MaxBusy` = 2 coroutines at a time overlap in every
pair of handlers; four requests fill three subscriptions; one pay-in (6) covers two
renewals, so that nothing but marks and ends stands between a subscription and its
second one; one day passes, so that a trial or a `pro` (1 day), due for renewal at
once, ends, and a `basic` (3 days) becomes due only by days taken. In `Office` four messages lead to a second task through any dialogue (what is
meant by *no more than was open* is a bound by the number of handlers, not of
messages: tasks that were asked about exceed the plan by a handler each at most,
the places of one task by two each); three changes
suffice for a write of a stale row over a newer one and what follows it; five
market prices of which one is no price and one is far off reach every branch of
`agree`; texts of up to four pieces reach every order of a config, what is cleaned
beside it and what is not. `SendWays` runs every post of up to two parts under
every setting, and two albums side by side whose files have one name, as they are,
watermarked, or rewritten under the name of the tag. In `Reminders` a day is
three hours, a round begins an hour after the last and may take one, and the two
customers of one reseller buy at the start or in the window of a warning, which
makes a renewal, a first purchase or a group of two; one trouble is a lost message,
a moved end or a kill. A window is long enough for a round after a lost message,
as the days of the code are for its hours (`WindowsAssumption`); without that
assumption and with a shorter `Grace` TLC finds `ToldInTime` violated.

**Symmetry** is used for rows, owners, handlers and requests that no property
tells apart, in runs without liveness.

**Deadlock** is not checked where the system may stop: all posts published and
delivered, all requests decided, a bound reached. It is checked in `GapConvoy`,
whose clock goes on.

**Fairness.** asyncio resumes every coroutine whose await has completed, and the
awaits are on the local database or calls with timeouts; so weak fairness for
each coroutine's work. It does not cover what a person does (a tick, a rejection,
a switch, an edit), what Telegram does, crashes or cancellations.
- `CopyDelivery`: `WF(Work(r))`; `RetryTake` has strong fairness for each row
  because a round of the retry worker walks over all due rows while other rows
  come and go.
- `Payments`: the steps of handlers that have begun, the checker's rounds, and
  strong fairness for the network's answers: a network that answers infinitely
  often answers in some round.
- `SourcesSpec`: one weak fairness for the work of the component the behaviour is
  about: the feed worker (which does one thing at a time; `MaxTrouble` bounds its
  failures), what serves the queue, or poller and edit handlers. Within each of
  these, another step of the same work cannot be put off for ever by the rest of it.
- `SimpleMode`: the poller and each coroutine that leases. `Userbot`: each
  coroutine that has begun, strong fairness for the lock (asyncio's lock is
  first come, first served), and `heal`, which runs every few minutes.

## 5. Proofs

All for every value of the constants, under the named assumptions of the modules.

- **`CopyDeliveryProofs`.** `Core` (types, the locals known at each label, the
  flight lock) is inductive by itself and gives `TypeCorrect` and `Exclusive`
  (`OneHandler`): two coroutines with the same post would both have been let
  in by `Enter`, and the second one found the post in `inFlight`. `Unsent` gives
  `RetriesFillGaps`. It needs `Core`, because the row a retry looked for can only
  be written by a coroutine that holds the post. `CopiesCounted` gives
  `OncePerCut` (`AtMostOncePerCut`): a copy is backed by a row of the map, by the
  one send that is about to write it, or by a cut. `Ticked` gives
  `NothingUnticked`; it assumes one retry worker (`RetryAssumption`, `main.py`)
  and, as a hypothesis, `~SlowGates`: if the gates could outlast the wait, a
  scheduled row could stand for an unticked post. `SlotsCounted` gives
  `QueueBounded` (`QueueNearCap`): rows and coroutines that found room and have
  yet to insert share the cap, so that it is passed by no more than those; the
  hypothesis is that there is a coroutine beside the retry worker. `UnitsAt` and
  `UnitsCounted` give `UnitsComeBack` (`UnitsBacked`): an unused unit is in the
  locals of the one coroutine that charged it, and each way out of `process` gives
  it back. `DebtsKept` gives `DebtsRemembered` (`NothingForgotten`): an open debt
  has a row the retry worker is not about to drop, or a coroutine that has yet to
  send or queue it; `Tries` says what a retry that is over has settled. Its
  hypothesis, neither `flood` nor `fatal` among `Faults`, is what `FloodWait` shows
  to be needed: these two leave `process` without a row.
  `Implements`: `Spec => DeliversAsPromised`, under the same two assumptions as
  `NothingUnticked`. Every step of a coroutine is one of `Show`, `Note`, `Allow`,
  `Cut` or a stutter of `PostDelivery`. `MayShow` gives the guard of `Show` from
  the invariants above: whoever sends is past the gate (`Gated`), has found no row
  (`Unsent`), and what was shown before is backed by a cut (`CopiesCounted`).
  `ShownFirst`, a new invariant, gives the guard of `Note`: only a send that
  succeeded leads to the writing of a row.
- **`PaymentsProofs`.** `TypeOK` with `OnRequest` (whoever works has a
  request); `CreditedOnce` from `RewardInv`: whoever is about to credit is the
  only one for its payment and nothing was credited before, which the unique
  `payment_id` of the reward ensures even when `GivenOnce` is broken.
  `PaidOnce` (`HashPaysOnce`) from `OneInv`: whoever decides with a hash that has not
  slipped decides on the request it has paid for, if it has paid for one, and any two
  that decide with it decide on the same request. Any number of coroutines decide,
  proofs are sent again and the process is killed anywhere. A hash that is checked while
  it is in no one's hands is refused to a second request because the first is an
  approved row that names it (`HashAlreadyUsed`); where that is not so, it has slipped.
  Nothing is claimed of `GivenOnce`, which `PaidTwice` refutes.
- **`SubscriptionsProofs`.** `IInv`: types, `NeverNegative`, what a coroutine's
  locals hold at each step (`Sound`), and that a listed subscription exists
  (`Listed`). `NeverNegative` belongs to it because a credit remembers a balance
  and writes it back. `LedgerFollows` is then inductive, and so are `GiftInv`
  (a code that gave, or is about to, is taken, and has one handler) for
  `GiftGivenOnce`, and `PaidIsGranted`, a count: each debit adds a debtor, each
  grant and each failure takes one away. `RenewedOnceUnlessBoth` (`RenewedOnce`) has
  two arguments in `RenewInv`, and either is enough: with no failure, who was renewed
  has a mark or the loop is about to write it (`MarkTells`); as long as no change
  disturbs the ends, who was renewed is followed by a subscription that ends later,
  which `run_once` takes instead (`EndTells`).
- **`SumLemmas`.** Totals over finite sets (`MapThenSumSet`): their type, that they
  change as the one summand that changes, that zeros add up to zero. The library
  defines them by a recursive function on subsets and proves nothing of them;
  `TableExists` shows that such a function exists, by a smallest set for which it
  would not (`SmallestSet`, from the well-foundedness of strict subsets).
- **`SourcesProofs`.** `UnitsAccounted` and `HistoryAccounted`: `Accounted`
  under `EntitlementSpec` and under `HistorySpec`, from `AccountInv`. The invariant
  equates sums over the spenders; beside it stand `Undisturbed` (what was read is
  still so, what may be taken is still left) and that the quota the spenders hold
  is part of the counter. All three are stated for as long as no two spenders met
  on a counter, which is the property's own excuse; `Sound` holds in any case. What a
  killed, cancelled or failed job has taken counts as spent: the code gives none of it
  back.
  `TableInv` gives `SnapshotTrue` (`SnapshotFollows`) and
  `SettingsTrue` (`SettingsKept`): a reader's copy and an editor's are the row, or
  were overtaken. `FeedInv` gives `FeedPostsOnce` (`FeedOnce`): what a check may
  still send was not sent under this task, because its row is missing and the
  sending of it would have been noted in `unrec`, by the lost answer, the failed row or
  the crash that kept the row from being written (`LostStep`); `RowsGone` covers the
  deletion in the middle of a check. `GapInv` gives `SlotsStayApart` (`SlotsApart`) under the
  hypothesis that the hours, where there are any, stay open for a gap at least:
  with shorter ones every row of a night gets the opening. `OrderInv` (places,
  queue and worker) and `Kept` (where an album, its parts and its timer are) give
  `HandedOverInOrder` (`InOrderOnce`).
- **`SimpleModeProofs`.** `PostsOnce` (`EachPostOnce`), from `PollInv`.
  `NothingPassedOver` is not inductive: `poll_once` reads the mark of a lease, then
  the source, then offers, and at the end moves the mark of whatever lease is there
  by then. `InHand` says what the poller knows at each of these steps: before it
  reads, nothing it owes is at or below the mark it remembers; while it offers,
  whatever is owed up to the newest post it read is in its hands; when it moves the
  mark, everything owed is newer. `OwedAbove` and `MarksTrue` bind what is owed to a
  mark and a mark to its lease. This survives every other coroutine because a mark
  can only fall behind the poller's back: a lease goes with its mark and comes without
  one (`MarksFall`, `WalkKeeps`; the lemmas `…IsFine` show it for each step of the
  leasing code). `CopiesTold` counts: a copy is in `delivered`, about to be written
  there, or its row was lost. `PollInvariant` states the whole.
- **`UserbotProofs`.** `HeardInAll` (`HeardOnce`) from `HeardInv`: who rebuilds a
  client alone finds no handler set on it, and none in the lists for the tasks it
  has yet to resolve (`Unheard`). `OwnClient` (`OneOwnClient`) from `OwnInv`: a
  connected client that is not the runtime yet is in the hands of one coroutine
  (`HeldAlone`), nobody reconnects without the lock of `ensure_client` (`LockHeld`),
  the healer neither logs in nor stops (`HealerHeals`), two that work on the account
  at once without a lock between them have crossed (`Crossing`). As long as nobody
  has, who reconnects or stops finds nothing connected and the stored key in its
  hands (`Uncrossed`), and a client that a login replaced has a key that is neither
  stored nor remembered (`OrphansApart`): so no two clients have one key
  (`PairApart`). A step that connects or replaces nothing keeps all of it
  (`QuietKeeps`), one that does is alone or has crossed another (`ApartKeeps`). A client
  that a failed, refused or cancelled connection leaves behind has the stored key, and
  the property excuses it by `left`; `LeftBehind` shows that it puts nothing else wrong.
  `UserInvariant` states both parts with the types, under which a client that is gone
  has left nothing.
- **`OfficeProofs`.** Six components that share no state. `StoreInv` gives
  `PlansAreTrue` (`PlansTrue`): what is about to be stored in memory was read from
  the rows, or the memory counts as stale. `RateInv` gives `HandRateStays`
  (`ByHandKept`): while a rate set by hand is to stay, whoever may write over it
  was at work before. `PaceInv` places every stamp of a window among the times of
  the posts, and what left the window before them; with `CountInv`, which ties the
  day's count to what was let in, it gives `PaceHolds` (`PaceKept`). `DeskInv` says
  what a coroutine, the dialogue and a row may still believe of each other, although
  the id of a task may have become another's (`births` tells); `RoomInv` counts
  tasks and places together with the coroutines that have been let in and have yet to
  write theirs. They give `TasksAreFit` (`TasksFit`). `RemindInv` gives
  `NoticesInTime` (`ToldOnceInTime`): a notice that is due and was not sent is on the
  list of the round that runs, or on a later stage's, or the next round begins before
  `LastCall` (`Heading`); a message that is lost moves `LastCall` by a round, and a
  round that begins by then finds the notice (`AwaitedIsFound`), because what keeps
  it off the list, a later subscription or a mark, is excluded by *due* and by
  `MarksTell`. `WindowsAssumption` is the arithmetic behind it: the rounds fit into
  the hours of each notice, with one more than can fail into those of the reseller.
  The code's numbers leave room for five failures (a round of 6 h within 48 h).
  `SendInv` gives `SentAsWhole` (`SentWhole`): at each point of a try it says what
  stands in the chat (`StandsFor`: nothing as long as the coroutine loads or may still
  raise, the post without its captions while they are set, what is to be taken back at
  `undo`, the whole post where a row is to be written or was), which files belong to
  whom (`HeldBy`: those in the coroutine's hands are there, are its own, and when all
  came are in the order of the parts), which ways a point can be on (`TryFits`), and
  that a unit is held only towards a row (`Paid`). It has one lemma for each action,
  and one for what each way makes (`TextWhole`, `ForwardWhole`, `OpaqueWhole`,
  `MediaWhole`, `UploadsWhole`). A file stays with its owner because a download takes
  a free name (`FreshName`, an argument on finite sets: of as many numbers as there are
  files and one, one is free). A watermarked or rewritten file does not, and may be
  written over one that another coroutine, or the same album, has in hand. `Unmixed` is
  the bridge: whoever is not in `mixed` has in hand what it put there (`Sound`,
  `HeldMore`), and whoever is has lost the content and nothing else. The theorem has no
  hypothesis about names. The proof found `WayOf` under-determined: as a `CASE` whose guards
  overlap it left the choice of a way open where the code's `if` chain has an order, and
  is written in that order now.

The assumptions on the constants are what the code has: limits and spans are
natural numbers, minute, hour and a day's rows positive; workers, spenders,
handlers, requests and rows are finitely many at a time; ids are apart from each
other and from the values for *none*.

Only model-checked: liveness (`RetryEnds`, `SweeperFinds`, `ApprovedGoesOut`,
`ApprovedServed`, `ConfirmedActivated`, `NewItemServed`, `QueueMoves`, `EditsLand`,
`ServedAgain`, `Reconnected`), which is out of the prover's reach; `TextTrue`, for
what the recursive functions of `TextPass` compute is an induction over data.
Where decisions on payments overlap, nothing is claimed of `GivenOnce` (`PaidTwice`),
and of a coupon's limits nothing at all (section 6).

## 6. Where the code and its words disagree

Three have a run and are listed under `findings`: `FloodWait`, `GapConvoy`,
`PaidTwice`. The others modelling met are below; a property excuses exactly what
is named here, by a ghost variable or a disjunct, and nothing else.

**Delivery**

- With `skip_duplicates` off the map is not asked under the flight lock, so the
  sweeper may send a post the live worker has just delivered (`copier.py:1140`;
  `sweeper.py:20-22` says every send asks first). `AtMostOncePerCut` is stated
  for the switch on.
- A sweep reads the newest `LOOKBACK` posts above the mark, and delivering one
  moves the mark past older ones (`sweeper.py:121-139`; `sweeper.py:42-43` says
  the rest come in the next round).
- A ticked post that `min_gap_seconds` holds again comes before the owner a
  second time (`copier.py:1128`, docstring at 1008).
- A released post whose turn comes outside the hours is skipped, its row gone
  (`copier.py:1048-1060`; `texts.py:226-227` says nothing is lost).
- Two files of an album may be written under one name, and the album then goes out
  with the second of them twice (`copier.py:1729-1732`: «نه نصفه», not half). The
  settings' own pattern for rewritten files is `{tag}` (`defaults.py:134`), which names
  every file of a task alike (`docedit.py:160-172`, 211-215): an album of two
  configuration files is enough. Telethon names a downloaded photo by the second it was
  sent in, and `wm_{name}` (`copier.py:2080`) by that name, while the source of the first
  is discarded before the second is loaded. Two posts sent at once may take each other's
  files likewise. `SentWhole` excuses the content of such a post (`mixed`); without the
  excuse TLC finds `WholeOrNone` violated within six steps, by a single album.
- A cancellation while a file is rewritten leaves it on disk
  (`copier.py:2131-2133` says it is discarded in any case).
- Forward mode takes an album that arrived in part as sent
  (`copier.py:1653-1656`); a lost answer of the direct send leads to a second
  send by upload.
- A watermark unit is taken, and spent, for posts that get no watermark (forward
  and simple mode, opaque posts, an album whose first item is no photo;
  `copier.py:1256-1258` says otherwise), and is lost on a cancellation.
- In the queue of a source, later posts overtake one whose handler waits in the
  alert of a long queue (`copier.py:639-655`); after `stop_user` such a handler
  puts its post into a queue nobody serves, and its album slot swallows the parts
  that follow. A cancelled timer forgets the place of the next album
  (`copier.py:830-832`), an event that comes after the timer hands the album over
  again, and so are messages handed over on the timer.
- Only the first row's fingerprint is compared with an edit (`copier.py:2170`;
  the comment at 2204-2207 speaks of the post). In account mode
  `MessageNotModified` counts as a failure (2198) and such an edit never settles;
  an edit that comes before the row is lost; a refused deletion is not tried again
  (2305); a message too old to edit counts as settled.
- The window of the hour is lost with the process; the day's count begins again
  from `DailyStat`, which lacks what is under way or failed, and a handler that
  asked before midnight resets the new day's count.

**Text.** A config that follows a removed link without a blank is eaten with it
(`transform.py:217-218` says configs are sheltered); a header that contains the
text attracts its formatting (`find` takes the first); `copier.py:1242-1243` says
entities are dropped where `remap_entities` keeps some.

**Tasks, settings, feeds, history**

- The mini app's switch (`miniapp.py:295-303`) and deletions do not invalidate the
  snapshot, nor do the watchdog and the panel; `get_task` stores what an
  invalidation has overtaken; a new task under a reused id is read from the old
  one's snapshot; overlapping saves of settings undo each other.
- A feed whose newest items are all filtered never reaches the older ones: they stay
  unseen, and every check takes them again (`feedworker.py:261-268`; `NewItemServed`
  excuses it as `Crowded`, and TLC finds it violated without). A burst
  above the bound is published newest five first (`feedworker.py:268`; 264-266 says
  oldest first); an item that one channel took counts as seen, and the channel
  that refused never gets it. An answer that is lost after the message arrived is taken
  for a failure (`feedworker.py:220-226`), and a row that cannot be written (229) ends the
  check: if no channel gave the item its row, the next check sends it again to all.
  A deletion between two queries of one check lets the
  whole feed out; a cached *off* makes the worker pass a task over in silence.
- A history job that is cancelled, fails or is killed gives no units back;
  overlapping reservations lose updates of the counters and may pass the quota.
- The kind of an RSS dialogue stays in the data and leaks into the next task
  (`tasks.py:403-433`, against the docstring at 530-536 and `models.py:162-165`);
  the task limit and a destination's uniqueness are checked awaits before the row
  is written; a reused id gets the old task's `source_id` or `dest_id`
  (`tasks.py:597-601`, `simple_task.py:542-546`); a second title message dies with
  a `KeyError`; a picker's old buttons answer in any state,
  and one that begins the dialogue of a new task counts nothing: only
  `tasks.py:425`, `simple_task.py:208` and `miniapp.py:626` ask how many tasks there
  are. With one handler TLC finds `TasksInPlan` violated in three messages: a
  customer with all the tasks of his plan presses the buttons of an old list and
  answers the question for a title. `tasks.py:427` calls the plan's number the most he
  can have, and `chatpicker.py:123` the button's way the same as that of a typed
  entry. `WithinPlan` is stated for tasks that were asked about.

**Accounts and simple mode**

- `_finish_login` works without the lock; a logout of a revoked session can wipe a
  fresh login; overlapping reloads list a task twice. A connection that is refused, is
  cancelled or fails in `is_user_authorized` leaves a connected client nobody has
  (`userbot.py:291-308`), and the next `ensure_client` connects its key a second time.
- A `LoginError` of one task ends the whole reload (`userbot.py:521-526`, called at 495):
  the tasks after it are not listed and no handlers are set. Neither is mended when some
  task was listed before it, since `heal` asks only whether the map is empty
  (`userbot.py:617-622`; its docstring, 597, promises to reconnect whoever is not heard).
  `Reconnected` excuses such a half-made list (`HalfListed`); without the excuse TLC
  finds a customer who is never heard again.
- The login itself is not modelled. Read there: overlapping `start_login` and
  `start_qr_login` leak a connected client; the deadline of an old QR watcher
  cancels a newer login (`account.py:342`); two watchers of one login both finish
  it; pending logins by code never expire.
- The mark of a public source moves although a send raised (`pubpoll.py:235-238`),
  posts beyond `LOOKBACK` are never seen, a flooded account never returns
  (`pool.revive` has no caller), the mark is lost when a source is leased anew, a
  task switched on in the middle of a round misses its posts, the cached client of
  an account that was logged in again bans it again (`pool.py:248`), the counter
  `sources` drifts.

**Payments, plans, money**

- A hash may pay for two requests when the round and a customer's own check, or two
  customers' checks, have both asked before either commits (`cryptocheck.py:142`, 194;
  `payments.py:358-368`; rule at 17-19). One handler is enough where a proof is sent
  again: `attach_tx` stores it for a request in any status (`payments.py:299-312`), so
  that a paid request whose message is answered again (`billing.py:548`) loses its hash,
  which is then free for another. `HashPaysOnce` excuses the two by `loose`; TLC finds
  it violated by either without.
- The network is asked for transfers since an hour before the oldest request on the list
  (`cryptocheck.py:159-167`, 242-247), and for a bounded number of pages (271-275). An
  older transfer a customer names in a request he made later, or one beyond the pages,
  is never found; the comment at 47 leaves the first to the admin. `ConfirmedActivated`
  is stated for the others (`before`, `Pages`).
- A request whose hash waits for the network is deleted by the customer's next
  purchase (`payments.py:47`; `payments.py:228-230`).
- Notices: the times of the rounds are in memory, so that a process restarted
  more often than every six hours tells no reseller anything
  (`agentnudge.py:192-196`; `ToldOnceInTime` excuses a restart before the window);
  a warning may go to a customer who has renewed since the round was read; an end
  that is moved is not warned of again, as the mark has the subscription's id
  (`reminders.py:133`); a message to a reseller names twenty customers and marks
  all (`agentnudge.py:158`, 179); a message a customer did not get is marked.
- A coupon's limits are checked at the price and not at the approval
  (`coupons.py:74`, 112; `models.py:640`): any number of requests quoted before the first
  is approved pass `max_uses`, and overlapping approvals lose counts. No property is
  stated of either.
- `wallet.credit` may write over a change made after its read (`wallet.py:63`);
  `LedgerKept` excuses exactly that.
- A grant that raises after the debit gives the money back to nobody
  (`reseller.py:7-8` promises it for every failure, `renewal.py:120` likewise);
  `burnt` counts these.
- A renewal is granted before its mark is written (`renewal.py:116-129`). When the mark
  is lost, the new subscription still keeps the loop off the old one, unless an admin's
  days make the old one end last again: days added to it because it was chosen before
  the renewal (`subscription.py:189-204`), or taken from the new one. Then it is paid for
  twice. `RenewedOnce` excuses that by `disturbed`.
- `reseller.claim` reads and writes in two transactions (`reseller.py:273-276`).
- Two grants for one customer that overlap start on the same day, and the days of
  one are lost; an upgrade that overlaps another grant is not in force
  (`subscription.py:121-132`).
- Plans are rebuilt in memory from rows read awaits before, and `toggle_feature`
  writes a memory that may be behind (`planstore.py`).
- An automatic round under way writes over a rate set by hand; `_agree`'s docstring
  and `refresh`, which only logs, differ (`usdtrate.py:573-578`); changing the
  margin forces a market rate with the automatic one off
  (`admin_system.py:461-470`); TRX is worked out from a USDT rate the margin has
  already been taken from, and its changes are not announced (`crypto.py:88-91`);
  switching the automatic rate on ends in a `TypeError`
  (`admin_system.py:387-389` formats an `Outcome` as a number).

## 7. Not modelled

- **Texts and screens**: guides, menus, keyboards, pages and reports, about half
  of the lines of the repository. They change no state another part reads, and
  the share of the lines the map can name stays low because of them.
- **Dialogues of the administration** over single rows (roles, support, terms,
  maintenance), the panel's pages, logins and sessions.
- **The exchange of a login with Telegram** (`handlers/account.py`): see section 6.
- **Reports and alerts** (`digest.py`, `alerts.py`): a loop that writes a message
  and a mark, as in `Reminders`, without a window it must meet.
- **Decisions over words** (filters, routing, the score of advertisements,
  duplicates): `CopyDelivery` leaves them to chance.
- **AI passes**: a call that answers with a text or fails. A pass takes a credit
  and gives it back when nothing came.
- **Outer formats**: blockchains, gateways, feeds and market pages are answers
  chosen by the environment.
- **Tools and deployment.**

`PROJECT.json` gives the reason for each under `components`.
