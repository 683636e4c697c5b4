-------------------------- MODULE DailySubscription --------------------------
(***************************************************************************)
(* Subscriptions of daily tariffs: a loop charges the balance once a day,   *)
(* disables the subscription that cannot pay and resumes it when there is   *)
(* money again; a top-up resumes it at once; its user pauses and resumes it *)
(* in the bot, the cabinet or the mini app; the panel and the monitoring    *)
(* service change its status as well.                                       *)
(*                                                                          *)
(* A step is a transaction of the database or a call of the panel.  The     *)
(* user's row is locked from the check of the balance to the commit, so     *)
(* that these are one step, but what a handler decides by it may have read  *)
(* before.  A user has one subscription, so that a balance and a lock are   *)
(* the subscription's.                                                      *)
(***************************************************************************)
EXTENDS Integers, Sequences, FiniteSets

CONSTANTS
  Daily,        \* subscriptions of daily tariffs
  Elsewhere,    \* other subscriptions in the retry queue
  Gone,         \* those deleted since they were enqueued
  Loop,         \* the loop of DailySubscriptionService
  TopUp,        \* handlers of payments
  Bot, Cabinet, Miniapp, \* the user's three ways to pause and resume
  None,         \* no subscription
  Price,        \* of a day
  Amount,       \* of top-ups
  Initially,    \* balances to begin with
  MaxRetries,   \* max_retries of the retry queue
  MaxDays, MaxTopUps, MaxEvents, MaxFaults  \* bounds

ASSUME ProcessAssumption ==
  /\ Loop \notin TopUp /\ {Bot, Cabinet, Miniapp} \cap (TopUp \cup {Loop}) = {}
  /\ Cardinality({Bot, Cabinet, Miniapp}) = 3
ASSUME DailyAssumption == None \notin Daily /\ Daily \cap Elsewhere = {} /\ Gone \subseteq Elsewhere
ASSUME PriceAssumption ==
  /\ Price \in Nat \ {0} /\ Amount \subseteq Nat \ {0} /\ Initially \subseteq Nat
  /\ {MaxRetries, MaxDays, MaxTopUps, MaxEvents, MaxFaults} \subseteq Nat

VARIABLES
  row,      \* status, is_daily_paused, due (last_daily_charge_at is a day old,
            \* and end_date over) and recent (updated_at is not a minute old)
  balance,  \* of the subscription's user
  proc,     \* the processes
  queue, batch, \* the retry queue
  behind,   \* subscriptions the panel does not know the last change of
  missed,   \* history: those nobody will tell the panel of
  owed,     \* history: days charged and not refunded, less days given
  today,    \* history: charges since the last day began
  raced,    \* history: subscriptions a process changed by what it read before
            \* another one did
  torn,     \* history: those where a failure separated a charge from its day
  cut,      \* history: those the panel took a day from
  used      \* how much of each bound is used up

history == <<missed, owed, today, raced, torn, cut>>
vars == <<row, balance, proc, queue, batch, behind, history, used>>

RetryQueue == INSTANCE RemnaWaveRetryQueue WITH Subscription <- Daily \cup Elsewhere

Process == {Loop} \cup TopUp \cup {Bot, Cabinet, Miniapp}
Status == {"ACTIVE", "DISABLED", "EXPIRED", "LIMITED"}
Row == [status : Status, paused : BOOLEAN, due : BOOLEAN, recent : BOOLEAN]
PC == {"idle", "next", "charge", "decide", "activate", "mark", "sync"}
\* phase and todo: which list the loop works through; inactive and paused: as
\* read; old: of what was read, the subscriptions others have changed since.
Idle == [pc |-> "idle", phase |-> "none", todo |-> {}, s |-> None,
         inactive |-> FALSE, paused |-> FALSE, old |-> {}]
ProcessState == [pc : PC, phase : {"none", "disabled", "expired", "due"}, todo : SUBSET Daily,
                 s : Daily \cup {None}, inactive : BOOLEAN, paused : BOOLEAN, old : SUBSET Daily]

Init ==
  /\ row = [s \in Daily |-> [status |-> "ACTIVE", paused |-> FALSE, due |-> FALSE, recent |-> FALSE]]
  /\ balance \in [Daily -> Initially]
  /\ proc = [q \in Process |-> Idle]
  /\ RetryQueue!QueueInit /\ behind = {}
  /\ missed = {} /\ raced = {} /\ torn = {} /\ cut = {}
  /\ owed = [s \in Daily |-> 0] /\ today = [s \in Daily |-> 1]
  /\ used = [days |-> 0, topups |-> 0, events |-> 0, faults |-> 0]

-----------------------------------------------------------------------------
At(q, pc) == proc[q].pc = pc
Use(what, max) == used[what] < max /\ used' = [used EXCEPT ![what] = @ + 1]
Inactive(s) == row[s].status \in {"DISABLED", "EXPIRED", "LIMITED"}
\* (Mutation: the balance is not looked at.)
AffordableAlways(s) == TRUE
Affordable(s) == balance[s] >= Price

\* Charged, and the day not given yet.
Midway(q, s) == proc[q].s = s /\ proc[q].pc \in {"activate", "mark"}
Outdated(q, s) == s \in proc[q].old \/ \E r \in Process \ {q} : Midway(r, s)
Race(q, s) == raced' = IF Outdated(q, s) THEN raced \cup {s} ELSE raced

\* q goes on as new; with a change to s, whoever read s before is out of date.
Go(q, new) == proc' = [proc EXCEPT ![q] = new]
DecidesBy(r) == proc[r].todo \cup IF At(r, "sync") THEN {} ELSE {proc[r].s}
Aged(r, s) == IF s \in DecidesBy(r) THEN [proc[r] EXCEPT !.old = @ \cup {s}] ELSE proc[r]
GoChanging(q, new, s) == proc' = [r \in Process |-> IF r = q THEN new ELSE Aged(r, s)]
Write(s, new) == row' = [row EXCEPT ![s] = [new EXCEPT !.recent = TRUE]]
Telling(s) == [Idle EXCEPT !.pc = "sync", !.s = s]
Resumed(r) == [r EXCEPT !.status = "ACTIVE", !.due = FALSE]

Pay(s) ==
  /\ balance' = [balance EXCEPT ![s] = @ - Price]
  /\ today' = [today EXCEPT ![s] = @ + 1]
Owe(s, n) == owed' = [owed EXCEPT ![s] = @ + n]

-----------------------------------------------------------------------------
(* The loop: subscriptions to resume, to recover, to charge. *)

\* (Mutation: whether a day has passed is not looked at.)
ListedAnyTime(phase) == {s \in Daily : ~ row[s].paused /\
  CASE phase = "disabled" -> row[s].status = "DISABLED" /\ balance[s] > 0
    [] phase = "expired"  -> row[s].status = "EXPIRED" /\ balance[s] > 0
    [] phase = "due"      -> row[s].status = "ACTIVE"}
Listed(phase) == {s \in Daily : ~ row[s].paused /\
  CASE phase = "disabled" -> row[s].status = "DISABLED" /\ balance[s] > 0
    [] phase = "expired"  -> row[s].status = "EXPIRED" /\ balance[s] > 0
    [] phase = "due"      -> row[s].status = "ACTIVE" /\ row[s].due}

\* Of the expired ones, those updated within a day: any of them.
Read(phase) ==
  \E todo \in IF phase = "expired" THEN SUBSET Listed(phase) ELSE {Listed(phase)} :
    Go(Loop, [Idle EXCEPT !.pc = "next", !.phase = phase, !.todo = todo])

\* (Mutation: without the disabled ones.)
BeginExpired ==
  /\ At(Loop, "idle") /\ Read("expired")
  /\ UNCHANGED <<row, balance, queue, batch, behind, history, used>>
Begin ==
  /\ At(Loop, "idle") /\ Read("disabled")
  /\ UNCHANGED <<row, balance, queue, batch, behind, history, used>>

\* (Mutation: the cycle ends after the recovery.)
ProceedNoCharges ==
  /\ At(Loop, "next") /\ proc[Loop].todo = {}
  /\ IF proc[Loop].phase = "disabled" THEN Read("expired") ELSE Go(Loop, Idle)
  /\ UNCHANGED <<row, balance, queue, batch, behind, history, used>>
Proceed ==
  /\ At(Loop, "next") /\ proc[Loop].todo = {}
  /\ CASE proc[Loop].phase = "disabled" -> Read("expired")
       [] proc[Loop].phase = "expired" -> Read("due")
       [] proc[Loop].phase = "due" -> Go(Loop, Idle)
  /\ UNCHANGED <<row, balance, queue, batch, behind, history, used>>

\* Activated first, in a transaction of its own.
Wake(s) ==
  /\ At(Loop, "next") /\ proc[Loop].phase \in {"disabled", "expired"} /\ s \in proc[Loop].todo
  /\ Write(s, [row[s] EXCEPT !.status = "ACTIVE"])
  /\ GoChanging(Loop, [proc[Loop] EXCEPT !.pc = "charge", !.s = s, !.todo = @ \ {s}], s)
  /\ UNCHANGED <<balance, queue, batch, behind, history, used>>

Processing(s) ==
  \/ At(Loop, "charge") /\ s = proc[Loop].s
  \/ At(Loop, "next") /\ proc[Loop].phase = "due" /\ s \in proc[Loop].todo
Onward(pc, s) == [proc[Loop] EXCEPT !.pc = pc, !.s = IF pc = "sync" THEN s ELSE None,
                                   !.todo = @ \ {s}, !.old = @ \ {s}]

\* (Mutation: the charge time is not written with the charge.)
LoopChargeUnmarked(s) ==
  /\ Processing(s) /\ Affordable(s)
  /\ Pay(s) /\ Owe(s, 1)
  /\ GoChanging(Loop, Onward("sync", s), s) /\ Race(Loop, s)
  /\ behind' = behind \cup {s}
  /\ UNCHANGED <<row, queue, batch, missed, torn, cut, used>>

\* _process_single_charge: balance, transaction and charge time in one commit.
\* Whether the row is still due, active and not paused is not looked at again.
LoopCharge(s) ==
  /\ Processing(s) /\ Affordable(s)
  /\ Pay(s) /\ Write(s, [row[s] EXCEPT !.due = FALSE])
  /\ GoChanging(Loop, Onward("sync", s), s) /\ Race(Loop, s)
  /\ behind' = behind \cup {s}
  /\ UNCHANGED <<queue, batch, missed, owed, torn, cut, used>>

Suspend(s) ==
  /\ Processing(s) /\ ~ Affordable(s)
  /\ Write(s, [row[s] EXCEPT !.status = "DISABLED"])
  /\ GoChanging(Loop, Onward("next", s), s) /\ Race(Loop, s)
  /\ UNCHANGED <<balance, queue, batch, behind, missed, owed, today, torn, cut, used>>

\* An exception ends the list, not only its item: the rollback expires what the
\* handler of the item then reads for its message, which raises again.  After
\* the commit of a charge it keeps the panel from being told.
BrokenOff == [Idle EXCEPT !.pc = "next", !.phase = proc[Loop].phase]
LoopBreaksOff ==
  /\ At(Loop, "charge") \/ At(Loop, "sync") \/ (At(Loop, "next") /\ proc[Loop].todo # {})
  /\ Use("faults", MaxFaults) /\ Go(Loop, BrokenOff)
  /\ missed' = IF At(Loop, "sync") THEN missed \cup {proc[Loop].s} ELSE missed
  /\ UNCHANGED <<row, balance, queue, batch, behind, owed, today, raced, torn, cut>>

-----------------------------------------------------------------------------
(* A top-up, and try_resume_disabled_daily_after_topup. *)

\* The credit reloads the user's subscription: the last look at its status.
Credit(t, s, a) ==
  /\ proc[t] = Idle /\ Use("topups", MaxTopUps)
  /\ balance' = [balance EXCEPT ![s] = @ + a]
  /\ Go(t, IF Inactive(s) /\ ~ row[s].paused THEN [Idle EXCEPT !.pc = "decide", !.s = s] ELSE Idle)
  /\ UNCHANGED <<row, queue, batch, behind, history>>

\* Under the lock: nothing without the money, nor within a minute of a change.
Resumable(s) == Affordable(s) /\ ~ row[s].recent
GiveUp(t, s) ==
  /\ At(t, "decide") /\ s = proc[t].s /\ ~ Resumable(s)
  /\ Go(t, Idle)
  /\ UNCHANGED <<row, balance, queue, batch, behind, history, used>>

\* The charge is committed by itself, here and in the bot and the cabinet.
ChargeFirst(q, s, memory) ==
  /\ Pay(s) /\ Owe(s, 1) /\ Race(q, s)
  /\ Go(q, [proc[q] EXCEPT !.pc = "activate", !.inactive = memory.inactive, !.paused = memory.paused])
  /\ UNCHANGED <<row, queue, batch, behind, missed, torn, cut, used>>

ChargeAfterTopUp(t, s) ==
  /\ At(t, "decide") /\ s = proc[t].s /\ Resumable(s)
  /\ ChargeFirst(t, s, [inactive |-> TRUE, paused |-> FALSE])

\* (Mutation: the status is left as it was.)
ActivateNothing(t, s) ==
  /\ At(t, "activate") /\ s = proc[t].s
  /\ Go(t, [proc[t] EXCEPT !.pc = "mark"])
  /\ UNCHANGED <<row, balance, queue, batch, behind, history, used>>
Activate(t, s) ==
  /\ At(t, "activate") /\ s = proc[t].s
  /\ Write(s, [row[s] EXCEPT !.status = "ACTIVE"])
  /\ GoChanging(t, [proc[t] EXCEPT !.pc = "mark"], s) /\ Race(t, s)
  /\ UNCHANGED <<balance, queue, batch, behind, missed, owed, today, torn, cut, used>>

\* The refund is another commit; add_user_balance swallows its own failure.
ActivationFails(t, s) ==
  /\ At(t, "activate") /\ s = proc[t].s /\ Use("faults", MaxFaults)
  /\ \/ /\ balance' = [balance EXCEPT ![s] = @ + Price]
        /\ today' = [today EXCEPT ![s] = IF @ > 0 THEN @ - 1 ELSE 0]
        /\ Owe(s, -1) /\ UNCHANGED torn
     \/ torn' = torn \cup {s} /\ UNCHANGED <<balance, owed, today>>
  /\ Go(t, Idle)
  /\ UNCHANGED <<row, queue, batch, behind, missed, raced, cut>>

\* update_daily_charge_time.
Mark(t, s) ==
  /\ At(t, "mark") /\ s = proc[t].s
  /\ Write(s, [row[s] EXCEPT !.due = FALSE]) /\ Owe(s, -1)
  /\ GoChanging(t, Telling(s), s) /\ Race(t, s)
  /\ behind' = behind \cup {s}
  /\ UNCHANGED <<balance, queue, batch, missed, today, torn, cut, used>>

MarkFails(t, s) ==
  /\ At(t, "mark") /\ s = proc[t].s /\ Use("faults", MaxFaults)
  /\ Go(t, Telling(s))
  /\ torn' = torn \cup {s} /\ behind' = behind \cup {s}
  /\ UNCHANGED <<row, balance, queue, batch, missed, owed, today, raced, cut>>

-----------------------------------------------------------------------------
(* The user's toggles.  The bot and the cabinet decide by what they read     *)
(* before the lock, the mini app by what it reads under it.                  *)

Door == {Bot, Cabinet}
WantsResume(q) == proc[q].paused \/ proc[q].inactive

Press(q, s) ==
  /\ proc[q] = Idle /\ Use("events", MaxEvents)
  /\ Go(q, [Idle EXCEPT !.pc = "decide", !.s = s, !.inactive = Inactive(s), !.paused = row[s].paused])
  /\ UNCHANGED <<row, balance, queue, batch, behind, history>>

Pause(q, s) ==
  /\ At(q, "decide") /\ s = proc[q].s /\ ~ WantsResume(q)
  /\ Write(s, [row[s] EXCEPT !.paused = TRUE]) /\ GoChanging(q, Idle, s)
  /\ UNCHANGED <<balance, queue, batch, behind, history, used>>

Refuse(q, s) ==
  /\ At(q, "decide") /\ s = proc[q].s /\ WantsResume(q) /\ ~ Affordable(s)
  /\ Go(q, Idle)
  /\ UNCHANGED <<row, balance, queue, batch, behind, history, used>>

\* What the session then holds is the row as the lock found it.
ChargeToResume(q, s) ==
  /\ At(q, "decide") /\ s = proc[q].s /\ proc[q].inactive /\ Affordable(s)
  /\ ChargeFirst(q, s, [inactive |-> Inactive(s), paused |-> row[s].paused])

\* resume_daily_subscription: the row the session holds decides whether the
\* status and the day are written.
BotResume(s) ==
  /\ At(Bot, "activate") /\ s = proc[Bot].s
  /\ LET unpaused == [row[s] EXCEPT !.paused = @ /\ ~ proc[Bot].paused]
     IN Write(s, IF proc[Bot].inactive THEN Resumed(unpaused) ELSE unpaused)
  /\ Owe(s, IF proc[Bot].inactive THEN -1 ELSE 0)
  /\ GoChanging(Bot, Telling(s), s) /\ Race(Bot, s)
  /\ behind' = behind \cup {s}
  /\ UNCHANGED <<balance, queue, batch, missed, today, torn, cut, used>>

\* The charge has reloaded the row: is_daily_paused, set before it, is lost.
CabinetResume(s) ==
  /\ At(Cabinet, "activate") /\ s = proc[Cabinet].s
  /\ Write(s, Resumed(row[s])) /\ Owe(s, -1)
  /\ GoChanging(Cabinet, Telling(s), s) /\ Race(Cabinet, s)
  /\ behind' = behind \cup {s}
  /\ UNCHANGED <<balance, queue, batch, missed, today, torn, cut, used>>

\* Read as paused and active: nothing to charge.  The bot goes by the row under
\* the lock again, and gives a day to one that has become inactive.
BotUnpause(s) ==
  /\ At(Bot, "decide") /\ s = proc[Bot].s
  /\ proc[Bot].paused /\ ~ proc[Bot].inactive /\ Affordable(s)
  /\ LET unpaused == [row[s] EXCEPT !.paused = FALSE]
     IN Write(s, IF Inactive(s) THEN Resumed(unpaused) ELSE unpaused)
  /\ Owe(s, IF Inactive(s) THEN -1 ELSE 0) /\ Race(Bot, s)
  /\ GoChanging(Bot, Telling(s), s)
  /\ behind' = behind \cup {s}
  /\ UNCHANGED <<balance, queue, batch, missed, today, torn, cut, used>>

CabinetUnpause(s) ==
  /\ At(Cabinet, "decide") /\ s = proc[Cabinet].s
  /\ proc[Cabinet].paused /\ ~ proc[Cabinet].inactive /\ Affordable(s)
  /\ Write(s, [row[s] EXCEPT !.paused = FALSE])
  /\ GoChanging(Cabinet, Idle, s)
  /\ UNCHANGED <<balance, queue, batch, behind, history, used>>

\* One transaction under the lock.
MiniappToggle(s) ==
  /\ proc[Miniapp] = Idle /\ Use("events", MaxEvents)
  /\ \/ /\ ~ row[s].paused /\ ~ Inactive(s)
        /\ Write(s, [row[s] EXCEPT !.paused = TRUE]) /\ GoChanging(Miniapp, Idle, s)
        /\ UNCHANGED <<balance, behind, today, raced>>
     \/ /\ row[s].paused /\ ~ Inactive(s) /\ Affordable(s)
        /\ Write(s, [row[s] EXCEPT !.paused = FALSE]) /\ GoChanging(Miniapp, Idle, s)
        /\ UNCHANGED <<balance, behind, today, raced>>
     \/ /\ Inactive(s) /\ Affordable(s)
        /\ Pay(s) /\ Race(Miniapp, s)
        /\ Write(s, [Resumed(row[s]) EXCEPT !.paused = FALSE])
        /\ GoChanging(Miniapp, Telling(s), s)
        /\ behind' = behind \cup {s}
  /\ UNCHANGED <<queue, batch, missed, owed, torn, cut>>

-----------------------------------------------------------------------------
(* The panel is told: the update returns; it fails and returns None, which   *)
(* looks the same; an exception enqueues the subscription.                   *)

Told(q) == IF q = Loop THEN Onward("next", proc[q].s) ELSE Idle

Sync(q) ==
  /\ At(q, "sync") /\ Go(q, Told(q))
  /\ behind' = behind \ {proc[q].s} /\ missed' = missed \ {proc[q].s}
  /\ UNCHANGED <<row, balance, queue, batch, owed, today, raced, torn, cut, used>>

SyncSwallowed(q) ==
  /\ At(q, "sync") /\ Go(q, Told(q)) /\ Use("faults", MaxFaults)
  /\ missed' = missed \cup {proc[q].s}
  /\ UNCHANGED <<row, balance, queue, batch, behind, owed, today, raced, torn, cut>>

SyncRaises(q) ==
  /\ At(q, "sync") /\ Go(q, Told(q)) /\ Use("faults", MaxFaults)
  /\ RetryQueue!Enqueue(proc[q].s)
  /\ UNCHANGED <<row, balance, behind, history>>

\* A handler of another component enqueues.
EnqueueElsewhere(x) ==
  /\ Use("events", MaxEvents) /\ RetryQueue!Enqueue(x)
  /\ UNCHANGED <<row, balance, proc, behind, history>>

\* The task of the retry queue.
Take ==
  /\ RetryQueue!Take
  /\ UNCHANGED <<row, balance, proc, behind, history, used>>

InHand == Head(batch).sub
Retried ==
  /\ RetryQueue!Drop /\ InHand \notin Gone
  /\ behind' = behind \ {InHand} /\ missed' = missed \ {InHand}
  /\ UNCHANGED <<row, balance, proc, owed, today, raced, torn, cut, used>>

RetryFindsNothing ==
  /\ RetryQueue!Drop /\ InHand \in Gone
  /\ UNCHANGED <<row, balance, proc, behind, history, used>>

RetrySwallowed ==
  /\ RetryQueue!Drop /\ InHand \notin Gone /\ Use("faults", MaxFaults)
  /\ missed' = missed \cup ({InHand} \cap Daily)
  /\ UNCHANGED <<row, balance, proc, behind, owed, today, raced, torn, cut>>

RetryRaises ==
  /\ RetryQueue!Requeue /\ Use("faults", MaxFaults)
  /\ missed' = IF RetryQueue!Exhausted(Head(batch)) THEN missed \cup ({InHand} \cap Daily) ELSE missed
  /\ UNCHANGED <<row, balance, proc, behind, owed, today, raced, torn, cut>>

-----------------------------------------------------------------------------
(* Time, the monitoring service, the panel's webhooks, restarts. *)

Alone(s) == \A q \in Process : ~ Midway(q, s)

\* A day has passed since the last charge; handlers do not take that long.
Day(s) ==
  /\ Alone(s) /\ (~ row[s].due \/ today[s] > 0)
  /\ Use("days", MaxDays)
  /\ row' = [row EXCEPT ![s].due = TRUE, ![s].recent = FALSE]
  /\ today' = [today EXCEPT ![s] = 0]
  /\ UNCHANGED <<balance, proc, queue, batch, behind, missed, owed, raced, torn, cut>>

Minute(s) ==
  /\ row[s].recent
  /\ row' = [row EXCEPT ![s].recent = FALSE]
  /\ UNCHANGED <<balance, proc, queue, batch, behind, history, used>>

ChangedOutside(s, status) ==
  /\ Write(s, [row[s] EXCEPT !.status = status])
  /\ proc' = [r \in Process |-> Aged(r, s)]
  /\ UNCHANGED <<balance, queue, batch, behind, missed, owed, today, raced, torn>>

\* Only a paused subscription expires.
Expire(s) ==
  /\ row[s].status = "ACTIVE" /\ row[s].paused /\ row[s].due
  /\ ChangedOutside(s, "EXPIRED")
  /\ UNCHANGED <<cut, used>>

\* user.limited, user.deleted and user.traffic_reset.
PanelLimits(s) ==
  /\ row[s].status = "ACTIVE" /\ Use("events", MaxEvents)
  /\ ChangedOutside(s, "LIMITED") /\ cut' = cut \cup {s}

PanelDeletes(s) ==
  /\ row[s].status # "EXPIRED" /\ Use("events", MaxEvents)
  /\ ChangedOutside(s, "EXPIRED") /\ cut' = cut \cup {s}

PanelResets(s) ==
  /\ row[s].status \in {"DISABLED", "LIMITED"} /\ ~ row[s].due /\ Use("events", MaxEvents)
  /\ ChangedOutside(s, "ACTIVE") /\ UNCHANGED cut

Restart ==
  /\ Use("faults", MaxFaults)
  /\ proc' = [q \in Process |-> Idle]
  /\ RetryQueue!Forget
  /\ torn' = torn \cup {s \in Daily : ~ Alone(s)}
  /\ missed' = missed \cup behind
  /\ UNCHANGED <<row, balance, behind, owed, today, raced, cut>>

-----------------------------------------------------------------------------
LoopStep ==
  \/ Proceed
  \/ \E s \in Daily : Wake(s) \/ LoopCharge(s) \/ Suspend(s)
  \/ LoopBreaksOff \/ Sync(Loop)

TopUpStep(t, s) ==
  \/ GiveUp(t, s) \/ ChargeAfterTopUp(t, s) \/ Activate(t, s) \/ ActivationFails(t, s)
  \/ Mark(t, s) \/ MarkFails(t, s)

DoorStep(s) ==
  \/ \E q \in Door : Press(q, s) \/ Pause(q, s) \/ Refuse(q, s) \/ ChargeToResume(q, s)
  \/ BotResume(s) \/ BotUnpause(s) \/ CabinetResume(s) \/ CabinetUnpause(s) \/ MiniappToggle(s)

RetryStep == Take \/ Retried \/ RetryFindsNothing \/ RetrySwallowed \/ RetryRaises

Next ==
  \/ Begin \/ LoopStep
  \/ \E t \in TopUp, s \in Daily : TopUpStep(t, s) \/ \E a \in Amount : Credit(t, s, a)
  \/ \E s \in Daily : DoorStep(s)
  \/ \E q \in Process : Sync(q) \/ SyncSwallowed(q) \/ SyncRaises(q)
  \/ \E x \in Elsewhere : EnqueueElsewhere(x)
  \/ RetryStep
  \/ \E s \in Daily :
       Day(s) \/ Minute(s) \/ Expire(s) \/ PanelLimits(s) \/ PanelDeletes(s) \/ PanelResets(s)
  \/ Restart

Spec == Init /\ [][Next]_vars

\* The loop goes on and comes back at every interval; no user, no handler and
\* no task of the retry queue has to.
FairSpec == Spec /\ WF_vars(Begin \/ LoopStep)

-----------------------------------------------------------------------------
(* Properties. *)

TypeOK ==
  /\ row \in [Daily -> Row] /\ balance \in [Daily -> Nat]
  /\ proc \in [Process -> ProcessState]
  /\ {queue, batch} \subseteq Seq(RetryQueue!Item)
  /\ {behind, missed, raced, torn, cut} \subseteq SUBSET Daily
  /\ owed \in [Daily -> Int] /\ today \in [Daily -> Nat]
  /\ used \in [{"days", "topups", "events", "faults"} -> Nat]

\* A charge buys a day and a day takes a charge, through the loop, the top-up
\* with its refund and the user's toggles: but for handlers on their way, the
\* two differ only where one handler overtook another or a failure came between.
ChargeBuysDay ==
  \A s \in Daily \ (raced \cup torn) : owed[s] = Cardinality({q \in Process : Midway(q, s)})

\* A day is charged once, unless handlers overtook each other, a failure kept
\* the charge time from being written, or the panel took the day.
ChargedOnceADay == \A s \in Daily \ (raced \cup torn \cup cut) : today[s] <= 1

\* With the same exceptions, a subscription whose day is paid is active.
PaidDayIsServed ==
  \A s \in Daily \ (raced \cup torn \cup cut) : ~ row[s].due => row[s].status = "ACTIVE"

\* What the panel has not been told, somebody is about to tell it, unless an
\* update failed without an exception, was given up or was lost at a restart.
LaggingIsKnown ==
  \A s \in behind \ missed : RetryQueue!Held(s) \/ \E q \in Process : At(q, "sync") /\ proc[q].s = s

\* An active subscription does not stay unpaid: the loop charges or suspends it
\* whatever becomes of the handlers that activated it.
DueIsSettled ==
  \A s \in Daily :
    (row[s].status = "ACTIVE" /\ row[s].due /\ ~ row[s].paused)
      ~> (row[s].status # "ACTIVE" \/ ~ row[s].due \/ row[s].paused)

\* What is suspended for want of money comes back when there is money, though
\* the handler of the top-up should die or refuse.
FundedIsResumed ==
  \A s \in Daily :
    (row[s].status = "DISABLED" /\ Affordable(s) /\ ~ row[s].paused)
      ~> (row[s].status # "DISABLED" \/ ~ Affordable(s) \/ row[s].paused)

-----------------------------------------------------------------------------
(* What the code says of itself, and does not keep. *)

\* cabinet: whoever is told "Daily subscription resumed", with is_paused false,
\* has a subscription that is not paused.
ResumedIsUnpaused == [][\A s \in Daily : CabinetResume(s) => ~ row'[s].paused]_vars
=============================================================================
