# Blank VPN bot: verification project

This directory holds TLA+ models of the bot in `src/bot-source`, the TLC runs that check them on
small instances, and proofs, checked by TLAPS, of theorems about them. `PROJECT.json` lists the
components, the runs, the source lines behind every definition, the findings, the hazards and the
theorems.

## 1. The system

The repository installs and contains a Telegram bot that sells VPN subscriptions. One Python
process (asyncio) serves the Telegram dialogues, the cabinet and mini-app HTTP API, the webhooks of
about twenty payment providers, and a dozen background loops. They share a PostgreSQL database
through SQLAlchemy sessions (one per request or loop iteration), a Redis cache, and a RemnaWave
panel reached over HTTP, which owns the actual VPN users.

What makes the code hard is the same everywhere: handlers interleave at every `await`; a session's
row lock lasts to the first `commit`, and many helpers commit by default; a session keeps the objects
it has loaded (`expire_on_commit=False`, and a `SELECT ... FOR UPDATE` refreshes a loaded object only
with `populate_existing`); providers repeat, delay and reorder webhooks; calls to the panel, to
providers and to the tax service fail or time out after they took effect; the process may die between
two commits, and loops pick up what was left.

| Part | State it keeps | Operations | Talks to | What makes it correct |
|---|---|---|---|---|
| Guest and gift purchases (`guest_purchase_service.py`, `payment/common.py`, landing and gift routes) | `guest_purchases` row: status, user, retry count, times | create, pay (webhook or balance), fulfil, activate (link, code, button), recover, retry, exhaust | subscriptions, panel, provider payments | a period for every payment, once; no payment without an outcome; nothing delivered unpaid |
| Payment top-ups (`services/payment/*`) | one payment row per provider, transactions, balance | create, webhook, status check, finalise | balance, guest purchases, cart | a confirmed payment credits the balance once, in one commit |
| Balance and transactions (`crud/user.py`, `crud/transaction.py`) | `users.balance_kopeks`, `transactions` | add, subtract, record | everything that sells | balance equals the sum of its transactions; never negative |
| Subscription records (`crud/subscription.py`, `subscription_service.py`) | status, end date, traffic, panel ids | create, extend, replace, expire, push to panel | panel, retry queue | a paid period is never lost; panel and database agree in the end |
| Daily subscriptions (`daily_subscription_service.py`, resume after top-up) | last charge, paused, disabled | charge, pause, resume, suspend | balance, panel | one charge a day, none while paused |
| Fiscal receipts (`nalogo_*`) | Redis queue, pending list, `created`/`queued` keys | create, queue, retry, verify | tax service | one receipt for every payment |
| RemnaWave retry queue | in-memory deque | enqueue, process, requeue, stop | panel | a failed panel update is retried, once at a time, or given up |
| Promo codes (`promocode_service.py`) | uses, their count, the discount of a user | check, reserve, apply, count, give back | balance, subscriptions | a code gives once a use; no more uses than the limit |
| Referrals and withdrawals (`referral_*`) | earnings, `withdrawal_requests` | earn, request, cancel, approve, reject, complete | balance | paid out once, and within what was earned |
| Wheel (`wheel_service.py`) and contests | `wheel_spins`, configuration | check, pay, draw, give, record | balance, subscriptions, promo codes | every spin paid for, limit of the day kept |
| Purchase, renewal, recurrent payment | cart, subscription, balance | price, charge, provision | panel | charge and period together |
| Account merge | two users and what they own | merge | all tables | nothing lost or counted twice |
| Monitoring service | the cycle over all rows | expire, autopay, remind, guest phases | all services | every row comes round |
| Panel synchronisation and webhooks | panel ids, status | sync, apply event | panel | late events do not undo newer state |
| Node provisioning (`templar_node`) | state file per node | plan, apply, rotate, decommission | SSH, Cloudflare, panel | resumable, idempotent steps |
| Broadcasts, notifications, backups, settings, roles, content, UI, installer | rows, files | create, read, update, delete, send | Telegram, files | no concurrent protocol, or out of scope |

## 2. Modules and plan

| Module | Models | Runs | Proofs |
|---|---|---|---|
| `GuestPurchase`, and `GuestPurchaseHistory`, which adds variables that only look on | guest and gift purchases (section 3) | `gp_*` | `GuestPurchaseProofs` |
| `Wallet`, `PaymentTopUp` | top-ups and the balance they credit (section 4) | `tu_*` | `PaymentTopUpProofs` |
| `DailySubscription`, `RemnaWaveRetryQueue` | daily tariffs and the queue of failed panel updates they feed (section 5) | `ds_*` | `DailySubscriptionProofs` |
| `NalogoReceipts` | fiscal receipts (section 6) | `nl_*` | `NalogoReceiptsProofs` |
| `UserRows`, `PromoCodes`, `FortuneWheel`, `Withdrawals`, composed by `Redemptions` | three more ways to gain and spend the balance (section 7) | `rd_*` | `RedemptionsProofs`, `RedemptionAccountsProofs` |
| `AccountMerge` | the merge of two accounts (section 8) | `am_*` | `AccountMergeProofs` |

Each `MC` module gives its specification the small sets and functions of the runs. Runs that ask one
question of one instance are one run with several properties. `FiniteSums` holds what the proofs need
of sums over finite sets (section 9).

What is still to be written, in order:

1. Several daily subscriptions in one list of section 5, of which one always fails; properties that count
   the overlaps of sections 5 and 7, as those of section 3 do, where now whatever was ever overlapped is
   left out.
2. In `PaymentTopUp`: a handler that breaks off with flushed changes which `get_db` then commits
   (listed as a hazard), and the cart that is bought after a top-up.
3. Purchase and renewal of ordinary subscriptions; the expiry and autopay phases of the monitoring
   service; a merge beside sessions of section 7, and merges in the multi-tariff mode.
4. `NodeProvisioning`: plan, partial failure, resume, rotation. Contests.

## 3. GuestPurchase

### 3.1 Model and code

One row of `guest_purchases` per member of `Purchase`, one subscription per member of `Slot`
(single-tariff mode), one handler per member of `Session`, each with a database session of its own;
`Monitor` is the session of the monitoring loop, which runs its phases one after the other.

| State | Code |
|---|---|
| `status`, `linked`, `retryCount`, `age` | `GuestPurchase.status`, `user_id`, `retry_count`; `created_at`/`paid_at` against `stale_minutes` and `max_age_hours` |
| `moneyIn` | a payment is committed: the provider row's `is_paid`, or the charge of the balance |
| `subStatus`, `days` | `Subscription.status`, and the paid periods left until `end_date` |
| `lock` | `SELECT ... FOR UPDATE` on the purchase row |
| `ses` | the handler: which one, its purchase, its next step, the status it loaded, the subscription it read, whether it owes an uncommitted period |
| `granted`, `synced`, `held` | history variables: periods committed, the panel's last answer, held for the owner |

| Action | Code |
|---|---|
| `CreatePurchase`, `BuyFromBalance`, `MarkPaid` | landing page purchase; gift from the balance, whose charge is a commit of its own |
| `Webhook`, `ClaimMismatch`, `ClaimSkip`, `ClaimCodeOnly`, `ClaimPaid`, `Rescue` | provider webhook and `try_fulfill_guest_purchase`: refusals, the flush of PAID, the `except` branch |
| `FulfilLock` ... `FulfilDeliver` | `fulfill_purchase`; a step ends where a callee commits |
| `PressLink`, `EnterCode`, `PressCallback`, `ActivateLock`, `ActivateExtend`, `PanelCommits`, `PanelDown`, `ActivateDeliver` | `activate_purchase` and its callers; `create_remnawave_user` commits in the middle, or fails and leaves the transaction open |
| `RecoverSelect`, `RecoverSettle`, `RetryPaidSelect`, `RetryHeldSelect`, `RetryCount`, `ExhaustSelect`, `ExhaustSettle` | the four phases of `_retry_stuck_guest_purchases`: select without a lock, then work in a fresh session |
| `Fail`, `Crash`, `GrowStale`, `GrowOld`, `Lapse` | an exception rolls back; the process dies; time passes |

A commit of a session writes everything the session has flushed. `FlushPaid` and `FlushHeld` are what
an intermediate commit writes of the purchase row, which is why a helper that commits matters.

External behaviour: the panel's answer is nondeterministic; a provider reports a payment any number
of times up to `MaxHooks`.

`GuestPurchaseHistory` takes these actions as they are and adds to each a step of history variables
(`Remember`), for the properties about grants. A handler is `Armed` when it has found the purchase open
and will grant its period without looking again, `Spent` between the grant and DELIVERED, `Extending`
when it has read the subscription and will write what it makes of it. `torn` counts the handlers that
broke off while `Spent`; `raced` those that became `Armed` beside another one at work on the purchase;
`crossed` those that read the subscription beside another that was `Extending` it; `uncompared` are the
purchases a webhook of which failed (`rescue`) before the amounts were compared; `due` is what the
recipient was granted and has not used up. The history is kept of the purchases in `Audited` only, so
that runs about other questions are not made larger by it.

### 3.2 Runs

Bounds: `MaxHooks`, `MaxClicks`, `MaxFaults`, `MaxCrashes`, `MaxLapses` cap the environment and
`MaxRetries` replaces the code's 5; each run has at least one of everything its question needs.
Deadlock checking is off because a model whose environment is used up stops.

| Run | Instance | Shows |
|---|---|---|
| `gp_concurrent` | one purchase, loop and one other session at a time, two webhooks, a click, a fault, two crashes, a lapse, fairness | the invariants that hold however handlers interleave, `NeverRequeued`, and `PaidIsSettled`: every payment on record is settled |
| `gp_overlap` | four purchases for one recipient, two at a time: an ordinary one with a gift by code whose payment no provider table has, or with one paid with a wrong amount, or a gift from the balance whose tariff lost its price; loop and one other session, two webhooks, a click, a lapse, an exception or a crash | what overlaps and broken-off handlers can do to the periods a recipient has paid for, and that they can do no more |
| `gp_v_activate` | one purchase held for its owner, two activations | the finding of section 3.4 |

Two sessions are enough for every race found: the second one is the loop or a second person. Two
purchases are enough for interference through the shared subscription, and `FewAtATime`, a state
constraint of `gp_overlap`, keeps to two; it also stops before a purchase has outlived `max_age_hours`
and leaves the exception and the crash to different behaviours. A second retry shows counting; the
attempts of different rounds do not interact otherwise. `gp_concurrent` and `gp_v_activate` keep no
history (`Audited = {}`).

The four properties of `gp_overlap` are about what the code gets wrong, and say how often it may:

- `GrantsAreAccountedFor`: a purchase's period is granted once, and once more at most for each handler
  in `torn` and `raced`. `OpenIsUngranted`: what a retry, a webhook or its owner may still take up, and
  nobody is at work on, has had no period but for these. Without them a webhook that repeats, a
  recovery beside a late webhook, or a second press would be enough to give a period away.
- `NoPeriodLost`: the recipient has what he was granted and has not used up, less one period at most
  for each handler in `crossed`.
- `AmountConfirmed`: a purchase paid with a wrong amount is delivered only if it is in `uncompared`.

`PaidIsSettled` leaves out purchases whose payment is on no provider's record: the provider's webhook
keeps none (`Unrecorded`), or there is no provider (`FromBalance`; see section 3.4).

Fairness (`Fairness`): strong fairness of each handler's own steps, because asyncio resumes every
coroutine and PostgreSQL serves lock waiters in turn while the lock is again and again free; of the
loop's steps and of each selection, because the loop reads every matching row in every cycle; and of
time. Nothing is assumed of webhooks, people, the panel, faults and crashes.

### 3.3 What is proved

`GuestPurchaseProofs` proves, for every set of purchases and recipients, every finite set of sessions and
all bounds, with crashes, exceptions and overlaps and without further hypotheses: `TypeCorrect`,
`PaidBeforeGranted` (`GrantedOnlyIfPaid`), `DeliveredHasPeriod` (`DeliveredWasGranted`), `HeldHasUser`
(what is held is linked to a user), `RetriesAreBounded`, `SettledStaysSettled` (`NeverRequeued`), and of
the specification with history `GrantsAccounted` (`GrantsAreAccountedFor`), `OpenUngranted`
(`OpenIsUngranted`), `PeriodsAreKept` (`NoPeriodLost`) and `AmountIsConfirmed` (`AmountConfirmed`). The
assumptions are those named in the two modules: gifts are purchases, `None` is no session, the loop has
a session, the bounds are numbers, no provider charges a gift from the balance.

None of these is inductive. DELIVERED is written long after the period was committed, by a handler
that has lost its lock. `IInv` adds, per handler (`SessionInv`), what it still knows at each step: a
webhook runs on a recorded payment; whoever else is past its checks works on a row that is past
pending, and no row ever goes back; a lock taken to fulfil is held up to the first commit, and while
a webhook holds it the row is pending or paid; who is about to write DELIVERED has committed the
period or owes it; only the loop counts, below the limit. `Steady` states what a step leaves to the
other handlers; lemma `Framing` reduces the preservation of `IInv` to the moving handler and the
rows, and each action then has one lemma. TLC checked `IInv` as an invariant of the runs first.

For the history, `HInv` counts handlers instead of excluding them. `GrantInv`: the periods granted and
the handlers `Armed` to grant one are together at most one more than `torn` and `raced`, and none more
where nobody is at work on an open purchase. `DaysInv`: the periods due and the handlers `Extending` are
at most one more than the days there are and `crossed`, and so they are with the days each of these
handlers has read instead. A step of a handler is one of four kinds to the purchase it is about
(`Idles`, `Arms`, `Pays`, `Leaves`) and one of three to its recipient (`Spares`, `Reads`, `Writes`), and nothing
to the others (`ActsOnOne`), so that each action is classified once (`Acts`) and the counting is done
for kinds of step. `AmountInv` says that a purchase paid with a wrong amount, none of whose webhooks
has failed, is at most pending and that whoever works on it only looks.

TLC alone checks `PaidIsSettled` (liveness).

### 3.4 Findings

One is a run with one property, stating what a docstring says, that TLC finds violated:
`gp_v_activate` (`GrantedAtMostOnce`). The panel call commits while the purchase is still
PENDING_ACTIVATION, so the row lock is gone before DELIVERED is written; two activations both extend
the subscription, against "Uses SELECT ... FOR UPDATE to prevent concurrent activation."

`DeliveredOnPanel` (whatever is delivered has reached the panel) is stated in the module and not run:
it fails in a single step, because `create_remnawave_user` answers `None` for any panel error and
`fulfill_purchase` does not look at the answer.

The history variables name what else goes wrong; dropping one from its property makes TLC show how:

- `torn`: `create_paid_subscription` and `replace_subscription` commit by default
  (`crud/subscription.py:256` and `:369`) while the purchase is PAID; after a crash there the retry
  takes the new subscription for an older one and holds the purchase for a second activation ("let
  fulfill_purchase do atomic commit", `payment/common.py:541`).
- `raced`: the finding above, and the callback that goes by the status it loaded before the lock.
- `crossed`: two activations for one recipient write end dates computed from the same old one
  ("preserve remaining days", `guest_purchase_service.py:1167`).
- `uncompared`: the `except` branch of the webhook (`payment/common.py:599`) also covers what comes before
  the comparison of the amounts and the commit that fails a purchase with a wrong amount, and marks it
  PAID.

One case is left out of `PaidIsSettled`: `gp_concurrent` with its purchase in `Gift` and `FromBalance`, and the
property asked of it, violates it. The charge is committed with the purchase PENDING
(`routes/gift.py:472`), and the recovery phase knows no provider named "balance".

The retry loop also activates, after ten minutes, a purchase that was held for its owner
(`guest_purchase_service.py:1356`), which the comment at `:363` calls "hold for manual activation".

### 3.5 Left out

Account creation and e-mail, prices, tariffs beyond "has a price", multi-tariff mode, device and
traffic limits, notifications, landing-page administration, rate limits. The recovery phase's lookup
over provider tables is one operator, `OnRecord`.

## 4. PaymentTopUp

### 4.1 Model and code

Four providers stand for the four ways the code confirms a payment; the others repeat one of them
with other field names.

| Provider | Commits before the lock | `FOR UPDATE` re-reads the row | "Already processed" |
|---|---|---|---|
| YooKassa | status and `is_paid`, then refreshes | no | linked, or the charge is in `transactions` |
| Heleket | status, then refreshes | no | linked |
| CloudPayments | nothing | no | linked or `is_paid` |
| Platega | nothing | yes (`populate_existing`) | linked or `is_paid` |

| State | Code |
|---|---|
| `charged`, `acked` | the provider's side: confirmed charges, webhooks it was answered |
| `row` | the payment row: `status`, `is_paid`, `transaction_id` (the charge it is linked to) |
| `txns` | how many rows of `transactions` carry the charge's external id |
| `balance`, `first`, `active` | `users.balance_kopeks`, `has_made_first_topup`, subscriptions activated by a direct purchase |
| `lock` | who holds the payment row `FOR UPDATE` |
| `ses` | the handler: next step, charge, webhook or check, the row as it loaded it (`seen`), the user as it loaded it (`funds`, `first`) |
| `book`, `bonuses` | history variables: what was to move the balance; first top-up bonuses granted |

| Action | Code |
|---|---|
| `Confirm`, `Webhook`, `Check`, `Decline` | a charge is confirmed; its webhook; a status check of the verification service, automatic or manual, for payments it takes for pending; a failure notice |
| `SkipProcessed`, `LockRow` | the row lock and the decision whether the payment was processed, on the row as the session has it |
| `Credit`, `Collide` | transaction, link and balance in one commit; the unique key of `transactions` |
| `FirstTopUp`, `PayCommission`, `NoReferrer`, `PayBonus`, `PayInviter` | `process_referral_topup`, one action per commit |
| `Activate`, `Finish` | `activate_pending_subscription` for a direct purchase; the handler's last commit and its answer |
| `Spend` | `subtract_user_balance` |
| `Fail`, `Swallow` | the process dies or the database fails; an error of the referral programme or the activation is logged and forgotten, and the handler goes on |
| `Abort` | the same, but it was the database that failed a statement: what is only flushed is gone with its locks, everything after it fails and is forgotten as well, and the last `COMMIT` is a silent rollback |

Two merges are justified by the code. `lock_user_for_update` re-reads the user with
`populate_existing` and nothing waits for another session between it and the commit, so a credit is
one step. The user's first-top-up flag is read by the same session that credits, between the credit
and the referral programme, so it is recorded with the credit. A direct purchase is different: it has
nothing to commit, so its transaction and link are written by the first commit of the referral
programme, or by the activation, or by `Finish` where an error of theirs was swallowed. An aborted
transaction takes them away and the provider is answered all the same: `try`/`except` around the
referral programme (`yookassa.py:744`), the activation (`:1103`) and the mark (`:1202`) leave nothing
to notice it, line 1161 returns `True`, and `get_db` commits what PostgreSQL has already undone. For
a top-up `Abort` is more than the code can do (its handler refreshes the user after the referral
programme, which fails and is answered with an error); its link and balance are committed by then.

`Wallet` is the abstract specification: a charge is booked at most once and credited in the same
step; a balance otherwise changes by a reward or a purchase. The refinement mapping takes a charge
for booked when it has a transaction.

### 4.2 Runs

Payments have amount 1, one user pays them all, and a friend invited him where the question involves
rewards; `MaxFaults` and `MaxSpends` are the only bounds on behaviours (webhooks and checks may be
repeated for ever). Deadlock checking is off: when everything is confirmed and answered the system
may stop.

| Run | Instance | Shows |
|---|---|---|
| `tu_core` | a direct purchase, a CloudPayments and a Platega payment, two sessions, a fault, a purchase from the balance, failure notices | booked once, no lost update, never below zero; an answered top-up is linked and an activated purchase too, whatever was swallowed; rows and transactions agree; `ImplementsWallet` |
| `tu_live` | YooKassa and Heleket, a fault, failure notices at any time, providers that redeliver | every confirmed top-up is credited, its link is never lost |

Two sessions are enough: every race is between a handler that has loaded and one that has committed.
Rewards differ from amounts in `tu_core`, so that a charge booked twice cannot pass for a reward.

Fairness (`LiveSpec`): weak fairness of a running handler; strong fairness of redelivery for the
providers in `Redelivered`, which repeat a webhook until it is answered with success; strong fairness
of the status check of what the verification service lists. The service looks at payments of the
last 24 hours only, so the last assumption is that it runs within that time.

### 4.3 What is proved

`PaymentTopUpProofs` proves for all sets of payments, charges, users and sessions, all amounts and
rewards: `TypeCorrect`, `BookedOnce`, `AnsweredLinked`, `RowsAgree`, `BalanceBooked`, `NeverBelowZero`,
`LinkKept` and `WalletImplemented` (`Spec => ImplementsWallet`). The assumptions are the named ones
of `PaymentTopUp`; direct purchases are YooKassa's, `None` is nothing, amounts are numbers.

The invariant has to bridge the lock that does not refresh. What a session saw of its row may be
stale, but if it saw a link there is one (`Stale`), because links are never taken back; so "already
processed" is never wrong, and the converse, a charge that was processed unseen, runs into the unique
key. A direct purchase has no such key check before it is booked, but its session looked the charge
up under the lock, and only the holder of the row books its charges (`Steady`), so the charge is
still unbooked when it commits (`Recording`). Past that point its payment is linked, or its
transaction was aborted and nothing is left but the answer (`PastRecord`, `Aborted`), which is why
`AnsweredIsLinked` speaks of top-ups and of activated purchases. `RowInv` ties rows to transactions and says that
`is_paid` means linked for the providers that do not commit it first. `Framing` and `Outside` reduce
each action to the moving session, as in section 3. For the refinement each action is shown to be a
`Book`, `BookWithReward`, `Grant` or `Spend`, or to leave the wallet alone.

TLC alone checks `ChargeIsCredited` (liveness).

### 4.4 Findings

Four things the code means do not hold. The module states them beside the others; put as the only
invariant of an instance with the payments named, TLC finds each violated:

- `PaymentProcessedOnce` (`Payment = {cp}`, both its charges): a CloudPayments invoice paid in two
  transactions is credited twice, since `get_cloudpayments_payment_by_id_for_update` selects without
  `populate_existing` and "Check if already processed (under lock)" (`cloudpayments.py:211`) looks at
  the row as it was loaded before the lock.
- `FirstBonusOnce` (`Payment = {yoo, plat}`): two concurrent top-ups of one user both get the bonus "for
  the first top-up"; `has_made_first_topup` is read without a lock (`referral_service.py:396`).
- `AnsweredIsActivated` (`Payment = {dir}`, one fault): a direct purchase that is booked by the first
  commit of the referral programme and whose handler then dies is never activated; the repeat that
  the log message at `yookassa.py:525` promises is behind the fast path at `:404`.
- `AnsweredIsBooked` (`Payment = {dir}`, one fault): a direct purchase whose transaction is aborted
  before its first commit is answered "ok" with nothing booked and nothing activated (`Abort`).

`tu_live` needs a provider that redelivers: with YooKassa taken out of `Redelivered` it violates
`ChargeIsCredited`, because a payment whose handler failed after its first commit (status and
`is_paid`) is no longer pending for the verification service (`payment_verification_service.py:366`).

### 4.5 Left out

Creation of payments and invoices, amount and currency checks, test-mode payments, guest purchases
paid by these providers (section 3), trial purchases, a payment row missing for a webhook, receipts,
notifications, the cart bought after a top-up, bonus days, the commission limit. Platega's branch for
an existing transaction with `balance_credited` cannot be reached: insert, link and credit are one
commit.

## 5. DailySubscription and RemnaWaveRetryQueue

### 5.1 Model and code

A subscription of a daily tariff is charged by a loop once a day. Six kinds of process work on it: the
loop, the handlers of top-ups, the user's toggles in bot, cabinet and mini app, and the task of the
retry queue. A step is a transaction or a call of the panel; `subtract_user_balance` holds the user's
row from the comparison to the commit, so that a charge is one step, but a handler decides to charge
by what it read earlier.

| State | Code |
|---|---|
| `row` | `Subscription.status`, `is_daily_paused`; `due`: `last_daily_charge_at` is a day old; `recent`: `updated_at` is not a minute old |
| `balance` | `users.balance_kopeks` of the subscription's user (a user has one subscription) |
| `proc` | the processes: next step, the list the loop works through, what was read (`inactive`, `paused`), and which of it others have changed since (`old`) |
| `queue`, `batch` | `RemnaWaveRetryQueue._queue`, and what `process_pending` took and has not finished |
| `behind` | subscriptions whose last change the panel does not know |
| `owed`, `today`, `raced`, `torn`, `cut`, `missed` | history: charges less days given, charges of the day, and the four causes below |

| Action | Code |
|---|---|
| `Begin`, `Proceed`, `Wake`, `LoopCharge`, `Suspend`, `LoopBreaksOff` | `process_auto_resume` (disabled, then expired ones), `process_daily_charges`, `_process_single_charge` |
| `Credit`, `GiveUp`, `ChargeAfterTopUp`, `Activate`, `ActivationFails`, `Mark`, `MarkFails` | `try_resume_disabled_daily_after_topup`: charge, activation, refund and charge time are four commits |
| `Press`, `Pause`, `Refuse`, `ChargeToResume`, `BotResume`, `BotUnpause`, `CabinetResume`, `CabinetUnpause`, `MiniappToggle` | the three toggles, which lock at different points |
| `Sync`, `SyncSwallowed`, `SyncRaises` | the panel update succeeds, fails silently, raises and is enqueued |
| `EnqueueElsewhere`, `Take`, `Retried`, `RetryFindsNothing`, `RetrySwallowed`, `RetryRaises` | other components enqueue; `process_pending` |
| `Day`, `Minute`, `Expire`, `PanelLimits`, `PanelDeletes`, `PanelResets`, `Restart` | time, the monitoring service, the panel's webhooks, a restart, which empties the queue |

An exception in the loop ends the list it works through, not only the item (`LoopBreaksOff`): the
handler of `_process_single_charge` rolls back (line 315), which expires every loaded object, and then
reads `subscription.id` for its message, as does the handler of the item (lines 91, 645, 679); reading an
expired attribute outside an `await` raises again, and only the `except` around the list stops it (96,
650, 683). The rest of the list waits for the next cycle. After the commit of a charge this keeps the
panel from being told.

`DailySubscription` takes the queue by `INSTANCE RemnaWaveRetryQueue WITH` and gives each of its actions
the effect on the panel.

### 5.2 Runs

`ds_daily`: one subscription that starts unable to pay the next day, one top-up worth two days, one
day, two events, two faults. All six kinds of process are present, each once, which every pair of them
needs; one day is enough because `Day` makes the same state due again. A second member of `Elsewhere`,
deleted meanwhile, shares the queue.

The invariants hold up to what the code does not prevent, and name it: `raced` (a process changed the
subscription by what it had read before another one changed it), `torn` (a failure between a charge
and its day), `cut` (the panel limited or deleted the subscription within a paid day, after which a
top-up or a toggle charges again), `missed` (a panel update that failed without an exception, was
given up or lost at a restart). So `ChargeBuysDay` says that charges and days differ in no other way,
`ChargedOnceADay` and `PaidDayIsServed` that a day is charged once and served, `LaggingIsKnown` that what
the panel does not know somebody is about to tell it. Dropping an exception shows how the code gets
there: without `raced`, the loop charges from its list a subscription that a top-up has just charged
(`_process_single_charge` does not look at the charge time again), or the bot, whose user's paused
subscription expired between the read and the lock, gives a day for nothing; without `torn`,
`add_user_balance` swallows a refund that fails; without `missed`, both `create_remnawave_user` and
`update_remnawave_user` answer `None` for every error, so that the retry queue, which waits for an
exception, is hardly ever filled and counts a failed attempt as a success.

`DueIsSettled` and `FundedIsResumed` are liveness properties under `FairSpec`: only the loop is fair,
which `start_monitoring` runs at every interval whatever an iteration raises; handlers may stop
anywhere. Failures are bounded, and there is one subscription: one whose charge fails at every cycle
would keep those listed after it from being charged, which the run does not show.

`ds_v_resume` is the finding: the cabinet clears `is_daily_paused` in memory, the charge reloads the
row over it, and the user is charged for a subscription that stays paused (`ResumedIsUnpaused`). The
comments at `daily.py:78` and `miniapp.py:7421` show that the author knew the trap.

### 5.3 What is proved

`DailySubscriptionProofs` proves for any subscriptions, top-up handlers and prices: `DailyTypes` (with it, no
balance falls below zero), `ChargeIsForADay` (`ChargeBuysDay`), `ChargedOnce` (`ChargedOnceADay`),
`PaidIsServed` (`PaidDayIsServed`) and `PanelIsToldOrKnownLate` (`LaggingIsKnown`).

A charge and its day are two commits of a handler that decided before the lock. The invariant says of
every process which charge it is in the middle of (`Amid`; outside `raced`, at most one process is, and
the day is owed to nobody else), and that what it decided by is still so unless the subscription is in
its `old` (`DoorView`, `Fresh`). So whoever is not outdated charges a subscription that is due and has
nobody in the middle of a charge. `LaggingIsKnown` is inductive once the types are known. TLC alone
checks `DueIsSettled` and `FundedIsResumed` (liveness).

Left out: traffic resets, device limits, discounts, several subscriptions of a user, notifications.

## 6. NalogoReceipts

### 6.1 Model and code

Handlers, workers and administrators' buttons call `create_receipt`; a step of a process is one round
trip to Redis, to the tax service or to the database.

| State | Code |
|---|---|
| `issued` | receipts the tax service has made out for a payment (external) |
| `created`, `queued`, `queue`, `pending` | the Redis keys `nalogo:created:`, `nalogo:queued:`, the list `nalogo:receipt_queue` and the list to be verified by hand |
| `saved` | `receipt_uuid` of the payment's rows |
| `proc` | the processes: next step, payment, attempts, what is still to be written back |
| `doubt`, `dropped` | history: a request whose outcome is not known, or recorded too late; a receipt given up or lost |
| `unkeyed` | history: an item left in the queue without its key |

`Ask` ... `Save` are `create_receipt` and its callers, `LookAgain`, `Claim`, `Push` the queueing, `Begin` ...
`Requeue` the worker (`_process_pending_receipts`, run by the loop and by the administrator's
`force_process`), `PressVerified` ... `ClearAll` the administration, `Outage` a cache call that fails and
is swallowed, `AnswerLost` one that took effect in Redis while `cache.py` answers `None` or `False`,
`Restart` the end of the process.

A request to make out a receipt can end in four ways. `Issue`: a uuid came back. `TimeOut`: an error that
`_is_service_unavailable` knows (a time-out, a refused connection, 500 or 503); the receipt may exist and
is filed. `Refuse`: everything else, which lines 405 and 429 log and do not file. That may be a refusal,
but also a reset connection, a 502 or 504, or an answer without `approvedReceiptUuid`: the receipt may
exist here, too, and nobody is told; the worker sends it again. `LoginFails` comes before the request.
`AnswerLost` is an action for the three calls whose effect the caller then contradicts: `setnx` (the key
stands and nobody queues), `lpush` of a new item (the handler deletes the key of an item that is queued)
and `rpop` (the item is in no list). For the others an effect without an answer is the same as an answer.

### 6.2 Runs

`nl_receipts`: two payments, one of them a gift that asks twice, two handlers, both workers, an
administrator, three faults. `QueuedOnce`: the queued key keeps a payment to one item, waiting or in
hand, although two workers pop; the exception (`unkeyed`) is an `lpush` whose answer was lost.
`DuplicateOnlyInDoubt`: a second receipt takes a request whose outcome nobody knows (`TimeOut`, or a
`Refuse` that made it out), a key not written or not read, or two requests at once; queueing and retrying
alone never make one.
`Accounted`: until it is made out, a list or a process has the receipt, unless the code gave it up or
a failure took it. `WaitingIsSettled` (liveness): what waits is made out or given up. Three faults give
two failed attempts (`MaxAttempts` is 2) and one failure elsewhere. `FairSpec` asks that a run of the
queue goes on and that the loop comes back, as `_process_queue_loop` does after any exception; that faults
are bounded means that the tax service answers again some day.

`nl_v_timeout` (`UncertainNotQueued`): a request that timed out is filed for verification and "needs to
be verified by hand", and the worker puts the same receipt back into the queue, because it gets `None`
from `create_receipt` in either case.

### 6.3 What is proved

`NalogoReceiptsProofs` proves for any payments, handlers, workers, administrators and bounds: `Types`,
`OneItemPerPayment` (`QueuedOnce`), `SecondReceiptIsInDoubt` (`DuplicateOnlyInDoubt`) and
`NothingLostSilently` (`Accounted`). Each stands on a part of the invariant: an item is in one place and
its key is set as long (`QueueInv`); without doubt at most one request is under way, and a receipt made
out has its created key or a process about to write it (`DoubtInv`); a key that outlives its item is
that of a receipt made out or given up, so that a handler that finds it loses nothing by leaving
(`AccountInv`). `ProcessInv` says where a process can be and what it carries there. TLC alone checks
`WaitingIsSettled` (liveness).

The expiry of the Redis keys (a week and thirty days), amounts and texts are left out. A button carries
the first 30 characters of a payment's id (`Short`): those of longer ids find nothing.

## 7. Redemptions

### 7.1 Model and code

`UserRows` is what the three services share: the user's row with the balance, the end of the
subscription, the lock of the row and the database sessions, with what a session has changed in memory
and not flushed (`debt`, `dirty`). `PromoCodes`, `FortuneWheel` and `Withdrawals` extend it, one module per
service, and `Redemptions` composes them: any session may run any operation for any user and break off
anywhere (`BreakOff`).

| Module | Actions | Code |
|---|---|---|
| `PromoCodes` | `Look`, `Check`, `Reserve`, `ApplyBalance`, `ApplyDays`, `ApplyDiscount`, `Inapplicable`, `Count` | `activate_promocode`; the unique key of `promocode_uses`; `add_user_balance` and `extend_subscription` commit the use before it is counted |
| | `LookDiscount`, `GiveBack` | `deactivate_discount_promocode`, which writes the count it read less one |
| `FortuneWheel` | `Available`, `PayStars`, `PayDays`, `WinCash`, `WinDays`, `WinOther`, `RecordSpin` | `spin`; `Synced` and `NotSynced` are the commit of `update_remnawave_user` and its absence when the panel is down |
| `Withdrawals` | `LoadUser`, `HoldUser`, `AskAmount`, `FileRequest`, `Cancel` | `create_withdrawal_request`, `cancel_withdrawal` |
| | `OpenRequest`, `Approve`, `Reject`, `Complete`, `Decline` | the administrator's callbacks: the request is loaded before the service locks it |

### 7.2 Runs

`rd_redeem`: two users, a code of each kind usable once, two activations a day, a spin a day, one
earned unit, two requests, two sessions and four starts of a session. One of every limit is the
boundary case; two sessions give every race of two operations; four starts let two races follow each
other (a spin and a withdrawal after an activation and its return).

`BonusOncePerUse` needs the unique key, `BalanceReconciles` the row lock through all three services,
`DaysReconcile` that a session flushes what the panel call did not. `PayoutOnce`, `OnePending` and
`EntitlementKept` are the withdrawals'. As in section 5 the history variables name what the code does
not prevent: `loose` (max_uses is compared long before it is counted, so two users get the last use,
and a crash between leaves a use uncounted), `crowded` (daily limits of spins and activations are
counted without a lock; `extend_subscription` and the wheel add to an end date read earlier), `broken`
(a spin that broke off between its commits), `misread` (an administrator's decision on a status that
had changed: `SELECT ... FOR UPDATE` does not refresh the request the handler has loaded, so that two
administrators can approve one request twice, against the check 'already processed' at
`referral_withdrawal_service.py:493`). A property says that nothing else breaks it: where the exception
is the hazard, as with `loose`, `crowded` and `misread`, it does not catch the hazard, and `PROJECT.json`
says so there.

`LastPending` takes the request filed last, the code the last by `created_at`
(`referral_withdrawal_service.py:184`), which is the start of the transaction that filed it
(`database/models.py:2048`). With days between two requests (30 unless configured) the two are the same;
with none, or in test mode, a request that waited for the lock while another was filed and cancelled
comes before that one, and `OnePending` is not claimed.

A spin paid from the balance is free when the prize is money (`free`, the second part of
`BalanceReconciles`): the price is taken in memory only (`wheel_service.py:321`), and `add_user_balance`
reads the row over it; sections 5.2 and 8.2 show the same trap. The same happens to days paid or
won while the panel is down.

### 7.3 What is proved

For any users, codes, sessions and limits `RedemptionsProofs` proves `TypesKept`, `OneBonusPerUse`
(`BonusOncePerUse`), `WithdrawnOnce` (`PayoutOnce`), `OnePendingRequest` (`OnePending`) and
`EntitlementIsKept` (`EntitlementKept`); `RedemptionAccountsProofs` proves `BalancesReconcile`, `LimitsKept`
(`LimitsHold`) and `SubscriptionDaysReconcile` (`DaysReconcile`).

- A session holds what it has taken: the key of the use it has reserved, which no other session has
  reserved and which is not used yet (`Unused`, `Unrivalled`), or the row of the user it files a request
  for, where it has seen that no request is pending (`Filing`).
- `EntitledInv`: who is about to file a request has found room for it, and keeps the room by holding
  the row; the sum of what is withdrawn and asked for is a sum over a set (section 9).
- The books are kept by several commits, so `BookInv` says what a session owes between two of them: a
  price in its memory only (`Debt`: it holds the row, and the balance in memory is the row's less the
  price), or one that is written and whose spin is not recorded (`Owes`).
- Limits and days hold for codes that are not `loose` and users that are not `crowded`: there a session
  is alone on its code or as its user, so that the count it will write and the room it has found are
  still so (`CodeInv`, `CapInv`), as are the days it has computed, not flushed, or given and not recorded
  (`DaysInv`).

Left out: trial codes, promo groups, codes for the first purchase only, the prize of traffic, the choice
among several subscriptions, the turn of the day, the days between two requests, an administrator who
approves his own request, and other spending of the balance (sections 4 and 5).

## 8. AccountMerge

### 8.1 Model and code

`execute_merge` works on two users it has loaded without a lock, in one transaction.

| State | Code |
|---|---|
| `row` | `users` as committed: identities by kind (each OAuth provider, Telegram, e-mail), balance, `DELETED` |
| `owner`, `payer` | `user_id` of the subscriptions and of the payments |
| `credit`, `paid` | payment handlers: the user one has read, the payments credited |
| `lock`, `ses` | locked rows; the merges, with both users as they are in memory |
| `token`, `restored` | the merge token in Redis and its `_restore_count` |
| `late` | history: accounts that got money after a merge had loaded them with none |

`Groups` is the order of the three clear-flush-set passes: the four OAuth columns, of which each is decided
by itself (line 582) and all are flushed together, then Telegram, then the e-mail. `WithPassword` are the
users whose e-mail has a password; an OAuth provider's e-mail has none (`database/crud/user.py:1582`).
An e-mail and its password move together, and only to a primary that has no e-mail (line 608).

`Load` is `consume_merge_token` and the checks, `Refuse` a request that fails them, `MoveIdentity` the
clear-flush-set of one group, `LockPrimary` and `LockSecondary` the two `lock_user_for_update` where there
is money to move, `Finish` the subscriptions, the reassignment of what the secondary owns, its
deletion and COMMIT. A session's `cleared`, `put` and `dirty` say which columns its flushes write:
SQLAlchemy writes what was changed in memory, so that columns loaded as empty stay as they are. `Fail`
is an exception or the loser of a deadlock (a flush locks the secondary first, the transfer of money the
primary first) and restores the token; `Die` does not.

### 8.2 Runs

`am_merge`: three accounts, tokens to merge the first two in either direction and the first into the
third, two merges at a time, a payment of each of the first two, one restored try per token. The first
account has Discord, an e-mail with a password and a subscription; the second Google, Telegram, a
subscription and money; the third an e-mail without a password. So a provider is moved to a primary
that has another one, an e-mail meets none, a merge moves one group or two, and both branches of the
transfer, both choices of a subscription and chains of merges occur.

`MoneyKept` holds under every overlap: money is neither made nor lost, and stays on a deleted account
only if it came after a merge had loaded the account with none (no money, no lock: line 631) or after
the merge (`late`). `AccessKept`: after a merge that overlapped no other merge of its accounts, the
survivor lives, has a subscription if one of the two had, and can sign in (`SignsIn`:
`compute_auth_methods`, an e-mail only with a password) every way that one of the two could, with two
exceptions. What the last flush moved together with money may be missing (`Last`; the finding below),
and a password does not come to a primary that has an e-mail without one (`InTheWay`): the secondary's
e-mail and password are cleared with the account (lines 941-949), and nobody can sign in with them any
more. TLC finds the property violated without either exception. Nor does it speak of merges that
overlap, which may do worse: nothing is looked at again under the lock, and two opposite merges at
once delete both accounts (drop `alone` from `Merges`).

A merge is not `alone` either while another one holds in memory a subscription that has come to one of
its users (`Overlaps`). It writes the owner of what it has read without looking again: while a merge of
b into c is under way, b is merged into a and leaves a its subscription, and the first merge then
takes it away. Nor is there a key to prevent that two merges leave a user two subscriptions
(`user_id` is not unique, `database/models.py:1604`).

`am_v_identity` (`IdentityMoved`) is the finding: what the last group moved is set in memory and not flushed
when line 637 reads the primary again with `populate_existing`. The secondary was cleared already, so
nobody can sign in with it any more; often it is the very identity that the user was linking, and where
nothing follows the OAuth pass it is all providers at once.

### 8.3 What is proved

`AccountMergeProofs` proves for any finite set of users, any tokens, payments, sessions and kinds of identity:
`MergeInductive` (the invariant), `MergeTypes`, `MoneyIsKept` (`MoneyKept`) and `MergeKeepsAccess`
(`AccessKept`). A merge works on what it has read, so the invariant says what of it is still so. Of a merge
that is alone (`AloneInv`): its accounts live, no other merge works on them, the subscriptions in its
memory are those of the rows, and so are the identities but for those it has cleared and set, which on
the primary are the secondary's and were missing (`PrimaryView`). Of any
merge (`MoneyHeld`, `MoneySeen`): money it has read under a lock is the money of the row, and an account
seen with none has none or got it late. That both balances are moved in one commit is then a statement
about one sum, two of whose summands change (section 9).

The interference through a subscription in memory (section 8.2) was found by the attempt to prove
`AccessKept` with a weaker `alone`, whose invariant was not inductive; TLC then showed the behaviour.

Left out: the multi-tariff mode, phantom users (the same `execute_merge` without a token), the expiry
of a token, the panel (its errors are swallowed), flags, restrictions, roles, and the tables that are
reassigned just as the payments are.

## 9. Sums, what is model-checked only, and what is not modelled

Balances and earnings are sums over sets of users and requests, which the modules compute with
`MapThenSumSet` of the community modules. `FiniteSums` proves what the proofs need of them, for every finite
set: the sum is one summand and the sum of the others, whichever is taken first (`SumRemove`), and
changes by as much as one summand does (`SumChange`). The sum is defined by a recursive function on
subsets, so that these take an induction over finite sets; it is done by hand, on a subset with the
fewest elements for which the statement fails (`SmallestSet`, from well-founded `<` on the naturals), as
the induction rules of the library take an operator that the provers cannot instantiate.

Every invariant and every action property of the passing runs is also a theorem for all values of the
constants. TLC alone checks the liveness
properties (`PaidIsSettled`, `ChargeIsCredited`, `WaitingIsSettled`, `DueIsSettled`, `FundedIsResumed`), as
fairness and `ENABLED` are out of the reach of TLAPS here, and finds the violations of the runs `*_v_*`.

`PROJECT.json` lists every component with its reason. In short: the other payment providers repeat one
of the four disciplines of section 4; Telegram dialogues, HTTP routes, menus, texts, statistics and
administration are most of the lines and keep no protocol of their own (their effects appear as the
actions above); the browser interface, the installer, migrations and the panel itself are outside;
renewal, monitoring, contests and node provisioning are planned.
