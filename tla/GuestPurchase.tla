--------------------------- MODULE GuestPurchase ---------------------------
(***************************************************************************)
(* The life of a guest (landing page or gift) purchase: the row of         *)
(* guest_purchases, the recipient's subscription, and the handlers that    *)
(* race over them, each in a database session of its own:                  *)
(*                                                                         *)
(*   webhook    a provider reports the payment (try_fulfill_guest_purchase)*)
(*   balance    a cabinet user buys a gift from the balance                *)
(*   retryPaid, retryHeld, recover, exhaust                                *)
(*              the phases of the monitoring cycle                         *)
(*   link, callback, code                                                  *)
(*              a person activates the purchase (activate_purchase)        *)
(*                                                                         *)
(* A session step ends where the code commits or where another session can *)
(* get between two of its statements.  SELECT ... FOR UPDATE is `lock`,    *)
(* which every commit or rollback of the session gives up, whoever         *)
(* commits: extend_subscription, create_paid_subscription and              *)
(* create_remnawave_user commit inside the handlers that call them.        *)
(***************************************************************************)
EXTENDS Integers, FiniteSets

CONSTANTS
  Purchase,     \* purchase tokens
  Slot,         \* recipients, each with one subscription (single-tariff mode)
  Session,      \* database sessions (concurrent handlers)
  Monitor,      \* the session of the monitoring loop: there is one loop
  None,         \* no session / no purchase
  Recipient,    \* Purchase -> Slot
  Gift,         \* is_gift
  CodeOnly,     \* gifts without a recipient: activated by code
  FromBalance,  \* gifts bought from the cabinet balance, with no provider
  Mismatched,   \* the provider charged another amount than amount_kopeks
  Unrecorded,   \* the provider's webhook commits no is_paid of its own
  Delisted,     \* the tariff lost its price for the period after the sale
  MaxRetries,   \* max_retries of the retry phases
  SlowHandlers, \* may a handler run for longer than stale_minutes?
  MaxHooks, MaxClicks, MaxFaults, MaxCrashes, MaxLapses \* bounds of the model

ASSUME RecipientAssumption == Recipient \in [Purchase -> Slot]
ASSUME GiftAssumption ==
  /\ Gift \subseteq Purchase /\ CodeOnly \subseteq Gift /\ FromBalance \subseteq Gift
  /\ UNION {Mismatched, Unrecorded, Delisted} \subseteq Purchase
  /\ Mismatched \cap FromBalance = {}
ASSUME NoneAssumption == None \notin Session /\ None \notin Purchase
ASSUME MonitorAssumption == Monitor \in Session
ASSUME BoundAssumption ==
  /\ MaxRetries \in Nat
  /\ {MaxHooks, MaxClicks, MaxFaults, MaxCrashes, MaxLapses} \subseteq Nat
  /\ SlowHandlers \in BOOLEAN

VARIABLES
  status,     \* GuestPurchase.status; "absent" before the row is committed
  linked,     \* user_id is set
  retryCount, \* retry_count
  age,        \* of created_at while pending, of paid_at afterwards
  moneyIn,    \* a payment is committed: the provider's is_paid, or the balance
  subStatus,  \* Subscription.status of the recipient
  days,       \* paid periods that subscription still has to run
  lock,       \* who holds the row FOR UPDATE
  ses,        \* the sessions
  granted,    \* how many times the purchase's period was committed
  synced,     \* the panel took the last grant (create_remnawave_user)
  held,       \* fulfilment left the purchase for its owner to activate
  used        \* how much of each bound is used up

rowVars == <<status, linked, retryCount, age, moneyIn>>
subVars == <<subStatus, days>>
ghosts  == <<granted, synced, held>>
vars == <<rowVars, subVars, lock, ses, ghosts, used>>

Status == {"absent", "pending", "paid", "pending_activation", "delivered", "failed"}
MonitorKind == {"retryPaid", "retryHeld", "recover", "exhaust"}
PersonKind  == {"link", "callback", "code"}
Kind == MonitorKind \cup PersonKind \cup {"webhook", "balance", "none"}
PC == {"idle", "mark", "claim", "rescue", "count", "settle", "fulfil", "read", "decide",
       "deliver", "activate", "extend", "panel", "finish"}
Bounded == {"hooks", "clicks", "faults", "crashes", "lapses"}
Saw == [exists : BOOLEAN, active : BOOLEAN, days : Nat]
SessionState == [kind : Kind, p : Purchase \cup {None}, pc : PC, mem : Status,
                 saw : Saw, owes : BOOLEAN]

NoSub == [exists |-> FALSE, active |-> FALSE, days |-> 0]
Idle == [kind |-> "none", p |-> None, pc |-> "idle", mem |-> "absent",
         saw |-> NoSub, owes |-> FALSE]

Init ==
  /\ status = [p \in Purchase |-> "absent"]
  /\ linked = [p \in Purchase |-> FALSE]
  /\ retryCount = [p \in Purchase |-> 0]
  /\ age = [p \in Purchase |-> "fresh"]
  /\ moneyIn = [p \in Purchase |-> FALSE]
  /\ subStatus \in [Slot -> {"none", "active"}]
  /\ days = [u \in Slot |-> IF subStatus[u] = "active" THEN 1 ELSE 0]
  /\ lock = [p \in Purchase |-> None]
  /\ ses = [s \in Session |-> Idle]
  /\ granted = [p \in Purchase |-> 0]
  /\ synced = [p \in Purchase |-> FALSE]
  /\ held = [p \in Purchase |-> FALSE]
  /\ used = [b \in Bounded |-> 0]

-----------------------------------------------------------------------------
(* Sessions and the row lock. *)

Free(p) == lock[p] = None
Holds(s) == ses[s].p \in Purchase /\ lock[ses[s].p] = s

\* An UPDATE of the row waits for whoever else holds it FOR UPDATE.
CanWrite(s, p) == lock[p] \in {None, s}

Begin(s, k, p, c) ==
  /\ ses[s] = Idle
  /\ ses' = [ses EXCEPT ![s] = [Idle EXCEPT !.kind = k, !.p = p, !.pc = c]]

Goto(s, c) == ses' = [ses EXCEPT ![s].pc = c]
End(s) == ses' = [ses EXCEPT ![s] = Idle]

Acquire(s, p) == Free(p) /\ lock' = [lock EXCEPT ![p] = s]

\* COMMIT or ROLLBACK: the session no longer holds the row.
Release(s) == lock' = [p \in Purchase |-> IF lock[p] = s THEN None ELSE lock[p]]

Spend(what, bound) == used[what] < bound /\ used' = [used EXCEPT ![what] = @ + 1]

\* The user_id written with the outcome.
Link(p) == linked' = [linked EXCEPT ![p] = TRUE]

\* Commit of a new paid period for the recipient of p; n is the number of
\* periods the subscription then has.
Grant(p, n) ==
  /\ subStatus' = [subStatus EXCEPT ![Recipient[p]] = "active"]
  /\ days' = [days EXCEPT ![Recipient[p]] = n]
  /\ granted' = [granted EXCEPT ![p] = @ + 1]

\* get_subscription_by_user_id: a subscription whose end has passed is marked
\* expired, which COMMITS the caller's transaction.
Lapsed(u) == subStatus[u] = "active" /\ days[u] = 0
Seen(u) == [exists |-> subStatus[u] # "none",
            active |-> subStatus[u] = "active" /\ days[u] > 0,
            days |-> days[u]]

-----------------------------------------------------------------------------
(* Buying. *)

\* The landing page creates the row and the provider payment in one commit.
CreatePurchase(p) ==
  /\ status[p] = "absent" /\ p \notin FromBalance
  /\ status' = [status EXCEPT ![p] = "pending"]
  /\ UNCHANGED <<linked, retryCount, age, moneyIn, subVars, lock, ses, ghosts, used>>

\* A gift from the balance: subtract_user_balance commits the charge together
\* with the row, still PENDING; PAID is a second commit.  With a recipient the
\* same session goes on to fulfil the gift.
BuyFromBalance(s, p) ==
  /\ status[p] = "absent" /\ p \in FromBalance
  /\ status' = [status EXCEPT ![p] = "pending"]
  /\ moneyIn' = [moneyIn EXCEPT ![p] = TRUE]
  /\ Begin(s, "balance", p, "mark")
  /\ UNCHANGED <<linked, retryCount, age, subVars, lock, ghosts, used>>

MarkPaid(s) == LET p == ses[s].p IN
  /\ ses[s].pc = "mark" /\ CanWrite(s, p)
  /\ status' = [status EXCEPT ![p] = "paid"]
  /\ age' = [age EXCEPT ![p] = "fresh"]
  /\ IF p \in CodeOnly THEN End(s) ELSE Goto(s, "fulfil")
  /\ UNCHANGED <<linked, retryCount, moneyIn, subVars, lock, ghosts, used>>

\* The provider's webhook commits its own payment row before the purchase.
Webhook(s, p) ==
  /\ status[p] # "absent" /\ p \notin FromBalance
  /\ Spend("hooks", MaxHooks)
  /\ moneyIn' = [moneyIn EXCEPT ![p] = TRUE]
  /\ Begin(s, "webhook", p, "claim")
  /\ UNCHANGED <<status, linked, retryCount, age, subVars, lock, ghosts>>

\* try_fulfill_guest_purchase under the row lock: a wrong amount fails the
\* purchase whatever its status, a settled one is skipped, a code-only gift
\* stays paid, anything else is flushed as paid and fulfilled.
\* What a webhook leaves alone.  (Mutation: it forgets DELIVERED.)
SettledForgetful(p) ==
  \/ status[p] \in {"pending_activation", "failed"}
  \/ status[p] = "paid" /\ p \in CodeOnly
Settled(p) ==
  \/ status[p] \in {"delivered", "pending_activation", "failed"}
  \/ status[p] = "paid" /\ p \in CodeOnly

\* (Mutation: the wrong amount is only reported.)
ClaimMismatchReported(s) == LET p == ses[s].p IN
  /\ ses[s].pc = "claim" /\ p \in Mismatched /\ Free(p)
  /\ status' = [status EXCEPT ![p] = "paid"]
  /\ End(s)
  /\ UNCHANGED <<linked, retryCount, age, moneyIn, subVars, lock, ghosts, used>>
ClaimMismatch(s) == LET p == ses[s].p IN
  /\ ses[s].pc = "claim" /\ p \in Mismatched /\ Free(p)
  /\ status' = [status EXCEPT ![p] = "failed"]
  /\ End(s)
  /\ UNCHANGED <<linked, retryCount, age, moneyIn, subVars, lock, ghosts, used>>

ClaimSkip(s) == LET p == ses[s].p IN
  /\ ses[s].pc = "claim" /\ p \notin Mismatched /\ Free(p) /\ Settled(p)
  /\ End(s)
  /\ UNCHANGED <<rowVars, subVars, lock, ghosts, used>>

ClaimCodeOnly(s) == LET p == ses[s].p IN
  /\ ses[s].pc = "claim" /\ p \in CodeOnly \ Mismatched /\ Free(p) /\ ~Settled(p)
  /\ status' = [status EXCEPT ![p] = "paid"]
  /\ age' = [age EXCEPT ![p] = "fresh"]
  /\ End(s)
  /\ UNCHANGED <<linked, retryCount, moneyIn, subVars, lock, ghosts, used>>

ClaimPaid(s) == LET p == ses[s].p IN
  /\ ses[s].pc = "claim" /\ p \notin Mismatched \cup CodeOnly
  /\ ~Settled(p) /\ Acquire(s, p)
  /\ Goto(s, "read")
  /\ UNCHANGED <<rowVars, subVars, ghosts, used>>

\* What an exception may still turn into PAID.  (Mutation: everything.)
RescuableAlways(p) == TRUE
Rescuable(p) == status[p] \in {"pending", "paid"}

\* After an exception the webhook, in a fresh session, leaves the purchase to
\* the retry loop.
Rescue(s) == LET p == ses[s].p IN
  /\ ses[s].pc = "rescue" /\ Free(p)
  /\ IF Rescuable(p)
     THEN /\ status' = [status EXCEPT ![p] = "paid"]
          /\ age' = [age EXCEPT ![p] = "fresh"]
     ELSE UNCHANGED <<status, age>>
  /\ End(s)
  /\ UNCHANGED <<linked, retryCount, moneyIn, subVars, lock, ghosts, used>>

-----------------------------------------------------------------------------
(* fulfill_purchase. *)

\* The gift route has the row loaded as PAID in its session, and the FOR
\* UPDATE does not refresh a loaded object; the retry's session is fresh.
Fulfillable(s) == ses[s].kind = "balance" \/ status[ses[s].p] = "paid"

FulfilLock(s) == LET p == ses[s].p IN
  /\ ses[s].pc = "fulfil"
  /\ IF Fulfillable(s)
     THEN Acquire(s, p) /\ Goto(s, "read")
     ELSE Free(p) /\ End(s) /\ UNCHANGED lock
  /\ UNCHANGED <<rowVars, subVars, ghosts, used>>

\* The webhook has flushed PAID and a new paid_at: the first commit that finds
\* the row still held writes them.
FlushPaid(s) == LET p == ses[s].p IN
  IF Holds(s) /\ ses[s].kind = "webhook"
  THEN /\ status' = [status EXCEPT ![p] = "paid"]
       /\ age' = [age EXCEPT ![p] = "fresh"]
  ELSE UNCHANGED <<status, age>>

FulfilDelisted(s) == LET p == ses[s].p IN
  /\ ses[s].pc = "read" /\ p \in Delisted
  /\ status' = [status EXCEPT ![p] = "failed"]
  /\ Release(s) /\ End(s)
  /\ UNCHANGED <<linked, retryCount, age, moneyIn, subVars, ghosts, used>>

FulfilRead(s) == LET p == ses[s].p  u == Recipient[p] IN
  /\ ses[s].pc = "read" /\ p \notin Delisted
  /\ ses' = [ses EXCEPT ![s].pc = "decide", ![s].saw = Seen(u)]
  /\ IF Lapsed(u)
     THEN /\ subStatus' = [subStatus EXCEPT ![u] = "expired"]
          /\ FlushPaid(s) /\ Release(s)
     ELSE UNCHANGED <<subStatus, status, age, lock>>
  /\ UNCHANGED <<linked, retryCount, moneyIn, days, ghosts, used>>

MustHold(s) == LET saw == ses[s].saw IN
  saw.exists /\ (saw.active \/ ses[s].p \in Gift)

\* An active subscription, or a gift to somebody who has one: left for manual
\* activation.
FulfilHold(s) == LET p == ses[s].p IN
  /\ ses[s].pc = "decide" /\ MustHold(s) /\ CanWrite(s, p)
  /\ status' = [status EXCEPT ![p] = "pending_activation"]
  /\ Link(p)
  /\ held' = [held EXCEPT ![p] = TRUE]
  /\ age' = [age EXCEPT ![p] = IF Holds(s) /\ ses[s].kind = "webhook" THEN "fresh" ELSE @]
  /\ Release(s) /\ End(s)
  /\ UNCHANGED <<retryCount, moneyIn, subVars, granted, synced, used>>

\* create_paid_subscription / replace_subscription commit by themselves: the
\* subscription is there, the purchase is still PAID and its lock is gone.
FulfilGrant(s) == LET p == ses[s].p IN
  /\ ses[s].pc = "decide" /\ ~MustHold(s)
  /\ Grant(p, 1)
  /\ FlushPaid(s) /\ Release(s)
  /\ Goto(s, "deliver")
  /\ UNCHANGED <<linked, retryCount, moneyIn, synced, held, used>>

\* create_remnawave_user swallows its own errors; then DELIVERED is committed.
FulfilDeliver(s) == LET p == ses[s].p IN
  /\ ses[s].pc = "deliver" /\ CanWrite(s, p)
  /\ \E ok \in BOOLEAN : synced' = [synced EXCEPT ![p] = ok]
  /\ status' = [status EXCEPT ![p] = "delivered"]
  /\ Link(p)
  /\ Release(s) /\ End(s)
  /\ UNCHANGED <<retryCount, age, moneyIn, subVars, granted, held, used>>

-----------------------------------------------------------------------------
(* activate_purchase and its callers. *)

\* The cabinet route by token and the gift code / deep link take a fresh
\* session; the bot's callback loads the row first, without a lock, and the
\* FOR UPDATE that follows does not refresh the loaded object.
PressLink(s, p) ==
  /\ status[p] # "absent" /\ Spend("clicks", MaxClicks)
  /\ Begin(s, "link", p, "activate")
  /\ UNCHANGED <<rowVars, subVars, lock, ghosts>>

EnterCode(s, p) ==
  /\ status[p] # "absent" /\ p \in Gift /\ Spend("clicks", MaxClicks)
  /\ Begin(s, "code", p, "activate")
  /\ UNCHANGED <<rowVars, subVars, lock, ghosts>>

PressCallback(s, p) ==
  /\ linked[p] /\ Spend("clicks", MaxClicks)
  /\ ses[s] = Idle
  /\ ses' = [ses EXCEPT ![s] = [Idle EXCEPT !.kind = "callback", !.p = p,
                                            !.pc = "activate", !.mem = status[p]]]
  /\ UNCHANGED <<rowVars, subVars, lock, ghosts>>

\* The status the handler goes by once it has the row.
Loaded(s) == IF ses[s].kind = "callback" THEN ses[s].mem ELSE status[ses[s].p]

\* (Mutation: a delivered purchase is not told apart.)
ActivatableTwice(s) == Loaded(s) \in {"pending_activation", "delivered"}
Activatable(s) ==
  \/ Loaded(s) = "pending_activation" /\ (linked[ses[s].p] \/ ses[s].kind = "code")
  \/ Loaded(s) = "paid" /\ ses[s].kind = "code"

ActivateLock(s) == LET p == ses[s].p IN
  /\ ses[s].pc = "activate"
  /\ IF Activatable(s)
     THEN /\ Acquire(s, p)
          /\ Goto(s, "extend")
     ELSE Free(p) /\ End(s) /\ UNCHANGED lock
  /\ UNCHANGED <<rowVars, subVars, ghosts, used>>

\* What a commit of an activating session writes to the row it still holds.
FlushHeld(s) == LET p == ses[s].p IN
  IF Holds(s) /\ ses[s].kind = "code"
  THEN status' = [status EXCEPT ![p] = "pending_activation"] /\ Link(p)
  ELSE UNCHANGED <<status, linked>>

\* Reads the subscription and flushes its new end, uncommitted (commit=False).
ActivateExtend(s) == LET p == ses[s].p  u == Recipient[p] IN
  /\ ses[s].pc = "extend"
  /\ ses' = [ses EXCEPT ![s].pc = "panel", ![s].saw = Seen(u), ![s].owes = TRUE]
  /\ IF Lapsed(u)
     THEN /\ subStatus' = [subStatus EXCEPT ![u] = "expired"]
          /\ FlushHeld(s) /\ Release(s)
     ELSE UNCHANGED <<subStatus, status, linked, lock>>
  /\ UNCHANGED <<retryCount, age, moneyIn, days, ghosts, used>>

\* extend adds a period to what it read, replace and create start from one.
\* (Mutations: it takes the period away; it always replaces.)
NewDaysDown(s) == ses[s].saw.days - 1
NewDaysReplaced(s) == 1
NewDays(s) == ses[s].saw.days + 1

\* create_remnawave_user commits when the panel took the user, and also when
\* its validation could not reach the panel and cleaned the stored ids;
\* without stored ids a failing panel leaves the transaction open.
PanelCommits(s) == LET p == ses[s].p IN
  /\ ses[s].pc = "panel"
  /\ \E ok \in BOOLEAN : synced' = [synced EXCEPT ![p] = ok]
  /\ Grant(p, NewDays(s))
  /\ FlushHeld(s) /\ Release(s)
  /\ ses' = [ses EXCEPT ![s].pc = "finish", ![s].owes = FALSE]
  /\ UNCHANGED <<retryCount, age, moneyIn, held, used>>

PanelDown(s) == LET p == ses[s].p IN
  /\ ses[s].pc = "panel"
  /\ synced' = [synced EXCEPT ![p] = FALSE]
  /\ Goto(s, "finish")
  /\ UNCHANGED <<rowVars, subVars, lock, granted, held, used>>

\* The flushed period goes with the status.  (Mutation: it is rolled back.)
CommitOwedLost(s) == UNCHANGED <<subVars, granted>>
CommitOwed(s) ==
  IF ses[s].owes THEN Grant(ses[s].p, NewDays(s)) ELSE UNCHANGED <<subVars, granted>>

ActivateDeliver(s) == LET p == ses[s].p IN
  /\ ses[s].pc = "finish" /\ CanWrite(s, p)
  /\ CommitOwed(s)
  /\ status' = [status EXCEPT ![p] = "delivered"]
  /\ Link(p)
  /\ Release(s) /\ End(s)
  /\ UNCHANGED <<retryCount, age, moneyIn, synced, held, used>>

-----------------------------------------------------------------------------
(* The monitoring cycle: every phase selects rows without a lock and works   *)
(* on each in a session of its own, one after the other.                     *)

\* The queries' filters on retry_count.  (Mutation: off by one.)
RetryLeft(p) == retryCount[p] < MaxRetries
ExhaustedLate(p) == retryCount[p] > MaxRetries
Exhausted(p) == retryCount[p] >= MaxRetries

RecoverSelect(p) ==
  /\ status[p] = "pending" /\ age[p] = "stale"
  /\ Begin(Monitor, "recover", p, "settle")
  /\ UNCHANGED <<rowVars, subVars, lock, ghosts, used>>

RetryPaidSelect(p) ==
  /\ status[p] = "paid" /\ age[p] = "stale" /\ p \notin CodeOnly
  /\ RetryLeft(p)
  /\ Begin(Monitor, "retryPaid", p, "count")
  /\ UNCHANGED <<rowVars, subVars, lock, ghosts, used>>

RetryHeldSelect(p) ==
  /\ status[p] = "pending_activation" /\ age[p] = "stale" /\ linked[p]
  /\ RetryLeft(p)
  /\ Begin(Monitor, "retryHeld", p, "count")
  /\ UNCHANGED <<rowVars, subVars, lock, ghosts, used>>

ExhaustSelect(p) ==
  /\ status[p] \in {"paid", "pending_activation"} /\ age[p] # "old"
  /\ Exhausted(p)
  /\ Begin(Monitor, "exhaust", p, "settle")
  /\ UNCHANGED <<rowVars, subVars, lock, ghosts, used>>

\* _find_succeeded_provider_payment.  (Mutation: it is not asked.)
OnRecordUnasked(p) == TRUE
OnRecord(p) == moneyIn[p] /\ p \notin Unrecorded \cup FromBalance

Recovered(p) == IF p \in Mismatched THEN "failed" ELSE "paid"

\* _check_and_recover_pending_purchase, under the row lock.
RecoverSettle == LET p == ses[Monitor].p IN
  /\ ses[Monitor].kind = "recover" /\ ses[Monitor].pc = "settle" /\ Free(p)
  /\ IF status[p] = "pending" /\ OnRecord(p)
     THEN status' = [status EXCEPT ![p] = Recovered(p)]
     ELSE UNCHANGED status
  /\ age' = [age EXCEPT ![p] = IF status'[p] # status[p] THEN "fresh" ELSE @]
  /\ End(Monitor)
  /\ UNCHANGED <<linked, retryCount, moneyIn, subVars, lock, ghosts, used>>

\* _fail_exhausted_purchases_batch re-reads the row under its lock.
ExhaustSettle == LET p == ses[Monitor].p IN
  /\ ses[Monitor].kind = "exhaust" /\ ses[Monitor].pc = "settle" /\ Free(p)
  /\ status' = [status EXCEPT ![p] = IF @ = "delivered" THEN @ ELSE "failed"]
  /\ End(Monitor)
  /\ UNCHANGED <<linked, retryCount, age, moneyIn, subVars, lock, ghosts, used>>

\* _increment_retry_count commits before the attempt.
RetryCount == LET p == ses[Monitor].p IN
  /\ ses[Monitor].pc = "count" /\ Free(p)
  /\ retryCount' = [retryCount EXCEPT ![p] = @ + 1]
  /\ Goto(Monitor, IF ses[Monitor].kind = "retryPaid" THEN "fulfil" ELSE "activate")
  /\ UNCHANGED <<status, linked, age, moneyIn, subVars, lock, ghosts, used>>

-----------------------------------------------------------------------------
(* The environment. *)

\* An exception (or a cancelled request) ends a session: rollback; only the
\* webhook catches it and goes on to rescue the purchase.
Fail(s) ==
  /\ ses[s].pc # "idle" /\ Spend("faults", MaxFaults)
  /\ Release(s)
  /\ IF ses[s].kind = "webhook" /\ ses[s].pc # "rescue"
     THEN ses' = [ses EXCEPT ![s] = [Idle EXCEPT !.kind = "webhook", !.p = ses[s].p,
                                                 !.pc = "rescue"]]
     ELSE End(s)
  /\ UNCHANGED <<rowVars, subVars, ghosts>>

\* The process dies: every open transaction is rolled back.
Crash ==
  /\ Spend("crashes", MaxCrashes)
  /\ lock' = [p \in Purchase |-> None]
  /\ ses' = [s \in Session |-> Idle]
  /\ UNCHANGED <<rowVars, subVars, ghosts>>

\* stale_minutes have passed; handlers are quicker unless SlowHandlers.
GrowStale(p) ==
  /\ status[p] # "absent" /\ age[p] = "fresh"
  /\ SlowHandlers \/ \A s \in Session : ses[s].p # p
  /\ age' = [age EXCEPT ![p] = "stale"]
  /\ UNCHANGED <<status, linked, retryCount, moneyIn, subVars, lock, ses, ghosts, used>>

\* max_age_hours have passed: no phase of the cycle looks at the row again.
GrowOld(p) ==
  /\ age[p] = "stale" /\ \A s \in Session : ses[s].p # p
  /\ age' = [age EXCEPT ![p] = "old"]
  /\ UNCHANGED <<status, linked, retryCount, moneyIn, subVars, lock, ses, ghosts, used>>

\* The recipient's subscription reaches its end.
Lapse(u) ==
  /\ subStatus[u] = "active" /\ days[u] > 0 /\ Spend("lapses", MaxLapses)
  /\ days' = [days EXCEPT ![u] = 0]
  /\ UNCHANGED <<rowVars, subStatus, lock, ses, ghosts>>

-----------------------------------------------------------------------------

SessionStep(s) ==
  \/ MarkPaid(s)
  \/ ClaimMismatch(s) \/ ClaimSkip(s) \/ ClaimCodeOnly(s) \/ ClaimPaid(s) \/ Rescue(s)
  \/ FulfilLock(s) \/ FulfilDelisted(s) \/ FulfilRead(s)
  \/ FulfilHold(s) \/ FulfilGrant(s) \/ FulfilDeliver(s)
  \/ ActivateLock(s) \/ ActivateExtend(s)
  \/ PanelCommits(s) \/ PanelDown(s) \/ ActivateDeliver(s)

MonitorSelect(p) ==
  RecoverSelect(p) \/ RetryPaidSelect(p) \/ RetryHeldSelect(p) \/ ExhaustSelect(p)

MonitorStep == RecoverSettle \/ ExhaustSettle \/ RetryCount

Start(s, p) ==
  \/ BuyFromBalance(s, p) \/ Webhook(s, p)
  \/ PressLink(s, p) \/ EnterCode(s, p) \/ PressCallback(s, p)

Next ==
  \/ \E p \in Purchase :
       CreatePurchase(p) \/ MonitorSelect(p) \/ GrowStale(p) \/ GrowOld(p)
  \/ \E s \in Session : SessionStep(s) \/ Fail(s)
  \/ \E s \in Session, p \in Purchase : Start(s, p)
  \/ MonitorStep
  \/ Crash
  \/ \E u \in Slot : Lapse(u)

Spec == Init /\ [][Next]_vars

\* A started handler runs on (PostgreSQL queues lock waiters), the monitoring
\* loop comes round to every row its queries select, and time passes.
Fairness ==
  /\ \A s \in Session : SF_vars(SessionStep(s))
  /\ SF_vars(MonitorStep)
  /\ \A p \in Purchase : SF_vars(MonitorSelect(p)) /\ SF_vars(GrowStale(p))

FairSpec == Spec /\ Fairness

-----------------------------------------------------------------------------
(* Properties. *)

\* Every variable stays within its type.
TypeOK ==
  /\ status \in [Purchase -> Status]
  /\ linked \in [Purchase -> BOOLEAN]
  /\ retryCount \in [Purchase -> Nat]
  /\ age \in [Purchase -> {"fresh", "stale", "old"}]
  /\ moneyIn \in [Purchase -> BOOLEAN]
  /\ subStatus \in [Slot -> {"none", "active", "expired"}]
  /\ days \in [Slot -> Nat]
  /\ lock \in [Purchase -> Session \cup {None}]
  /\ ses \in [Session -> SessionState]
  /\ granted \in [Purchase -> Nat]
  /\ synced \in [Purchase -> BOOLEAN]
  /\ held \in [Purchase -> BOOLEAN]
  /\ used \in [Bounded -> Nat]

\* Nobody gets a period that no payment was recorded for, however the
\* webhook, the monitoring phases and the activations interleave.
GrantedOnlyIfPaid ==
  \A p \in Purchase :
    granted[p] > 0 \/ status[p] \in {"paid", "pending_activation", "delivered"} => moneyIn[p]

\* A purchase reported as delivered has put its period on a subscription: no
\* crash, failed panel call or lost lock can leave DELIVERED without one.
DeliveredWasGranted ==
  \A p \in Purchase : status[p] = "delivered" => granted[p] > 0

\* What waits for activation is linked to a user: without one the activation
\* answers 500 and the retry query skips the row.
HeldIsLinked ==
  \A p \in Purchase : status[p] = "pending_activation" => linked[p]

\* The retry loop attempts a purchase at most max_retries times, although
\* it selects the row long before it counts the attempt.
RetryBounded == \A p \in Purchase : retryCount[p] <= MaxRetries

\* No late webhook, rescue or recovery puts a purchase that is held,
\* delivered or failed back in line for fulfilment.
NeverRequeued ==
  [][\A p \in Purchase :
       status[p] \in {"pending_activation", "delivered", "failed"}
         => status'[p] \notin {"pending", "paid"}]_vars

\* A paid purchase whose payment a provider has on record is delivered, handed
\* to its owner or failed for the administrator, unless it outlives
\* max_age_hours.  (A gift paid from the balance is on no provider's record.)
PaidIsSettled ==
  \A p \in Purchase \ (Unrecorded \cup FromBalance) :
    moneyIn[p] ~> \/ status[p] \in {"delivered", "pending_activation", "failed"}
                  \/ status[p] = "paid" /\ p \in CodeOnly
                  \/ age[p] = "old"

\* A delivered purchase exists in the panel.
DeliveredOnPanel ==
  \A p \in Purchase : status[p] = "delivered" => synced[p]

-----------------------------------------------------------------------------
(* What the code means to do, and does not. *)

\* activate_purchase "uses SELECT ... FOR UPDATE to prevent concurrent
\* activation": one payment, one period.
GrantedAtMostOnce == \A p \in Purchase : granted[p] <= 1
=============================================================================
