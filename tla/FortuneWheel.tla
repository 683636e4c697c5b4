----------------------------- MODULE FortuneWheel -----------------------------
(***************************************************************************)
(* The wheel of fortune: a spin is paid from the balance or with days of    *)
(* the subscription, a prize is drawn and given, the spin is recorded.      *)
(* Every part has its own commit, and the price is written by the first     *)
(* flush after it.                                                          *)
(***************************************************************************)
EXTENDS UserRows

CONSTANTS Player,    \* users who spin
          SpinLimit, \* daily_spin_limit
          SpinCost, SpinDays, Prize, PrizeDays

ASSUME WheelAssumption ==
  /\ Player \subseteq User /\ SpinLimit \in Nat \ {0}
  /\ {SpinCost, SpinDays, Prize, PrizeDays} \subseteq Nat \ {0}

VARIABLES
  spins,    \* wheel_spins of the day; free is history: the price was lost
  broken    \* history: users one of whose spins broke off between two commits

wheelVars == <<spins, broken>>

Spin == [user : User, pay : {"balance", "days"}, prize : {"cash", "days", "other"}, free : BOOLEAN]
WheelTypeOK == spins \in Seq(Spin) /\ broken \subseteq User
WheelInit == spins = <<>> /\ broken = {}

SpinsOf(u) == {i \in DOMAIN spins : spins[i].user = u}

\* check_availability.
SpinsLeft(u) == Cardinality(SpinsOf(u)) < SpinLimit
Available(s, u, pay) ==
  /\ SpinsLeft(u)
  /\ IF pay = "balance" THEN balance[u] >= SpinCost ELSE u \in Subscribed /\ days[u] >= SpinDays
  /\ Begin(s, "spin", u, [Idle EXCEPT !.pc = "pay", !.pay = pay, !.days = days[u]])
  /\ UNCHANGED <<rows, lock, wheelVars>>

\* _process_stars_payment: the row stays locked, the price is not flushed.
\* (Mutation: the balance read before the lock is trusted.)
EnoughAsRead(u) == TRUE
Enough(u) == balance[u] >= SpinCost
PayStars(s) == LET u == ses[s].u IN
  /\ At(s, "spin", "pay") /\ ses[s].pay = "balance"
  /\ Lockable(s, u)
  /\ IF Enough(u)
     THEN /\ Lock(s, u)
          /\ ses' = [ses EXCEPT ![s].pc = "prize", ![s].n = balance[u] - SpinCost, ![s].debt = TRUE]
          /\ UNCHANGED notes
     ELSE End(s)
  /\ UNCHANGED <<rows, wheelVars>>

\* update_remnawave_user commits when the panel answers; when it does not,
\* nothing is flushed.  What the session holds: the end of the subscription
\* as it computed it, the balance as it computed it.
Synced(s, d) == LET u == ses[s].u IN
  /\ days' = [days EXCEPT ![u] = d]
  /\ balance' = [balance EXCEPT ![u] = IF ses[s].debt THEN ses[s].n ELSE @]
  /\ ses' = [ses EXCEPT ![s].pc = IF ses[s].pc = "pay" THEN "prize" ELSE "record",
                        ![s].days = d, ![s].debt = FALSE, ![s].dirty = FALSE]
  /\ Release(s)
\* (Mutation: what was not flushed is given up.)
NotSyncedLost(s, d) ==
  /\ ses' = [ses EXCEPT ![s].pc = IF ses[s].pc = "pay" THEN "prize" ELSE "record"]
  /\ UNCHANGED <<balance, days, lock>>
NotSynced(s, d) ==
  /\ ses' = [ses EXCEPT ![s].pc = IF ses[s].pc = "pay" THEN "prize" ELSE "record",
                        ![s].days = d, ![s].dirty = TRUE]
  /\ UNCHANGED <<balance, days, lock>>

\* _process_days_payment.
PayDays(s) ==
  /\ At(s, "spin", "pay") /\ ses[s].pay = "days" /\ ses[s].days >= SpinDays
  /\ LET d == ses[s].days - SpinDays IN Synced(s, d) \/ NotSynced(s, d)
  /\ UNCHANGED <<booked, notes, wheelVars>>

\* Money: add_user_balance reads the user, and the subscription with it, over
\* what was not flushed.
Lost(s) == ses[s].debt \/ ses[s].dirty
WinCash(s) == LET u == ses[s].u IN
  /\ At(s, "spin", "prize")
  /\ AddBalance(s, u, Prize)
  /\ ses' = [ses EXCEPT ![s].pc = "record", ![s].r = 1, ![s].flag = Lost(s),
                        ![s].debt = FALSE, ![s].dirty = FALSE]
  /\ UNCHANGED <<days, notes, wheelVars>>

\* Days for the subscription.
WinDays(s) ==
  /\ At(s, "spin", "prize") /\ ses[s].u \in Subscribed
  /\ LET d == ses[s].days + PrizeDays IN
       \/ Synced(s, d) \/ NotSynced(s, d)
  /\ UNCHANGED <<booked, notes, wheelVars>>

\* Nothing, or a promo code: it is flushed, and the price with it.
WinOther(s) ==
  /\ At(s, "spin", "prize")
  /\ ses' = [ses EXCEPT ![s].pc = "record", ![s].r = 2]
  /\ UNCHANGED <<rows, lock, notes, wheelVars>>

\* create_wheel_spin commits, with all the session still holds.
PrizeDrawn(s) == CASE ses[s].r = 1 -> "cash" [] ses[s].r = 2 -> "other" [] OTHER -> "days"
Recorded(s) == [user |-> ses[s].u, pay |-> ses[s].pay, prize |-> PrizeDrawn(s), free |-> ses[s].flag]
RecordSpin(s) == LET u == ses[s].u IN
  /\ At(s, "spin", "record")
  /\ spins' = Append(spins, Recorded(s))
  /\ balance' = [balance EXCEPT ![u] = IF ses[s].debt THEN ses[s].n ELSE @]
  /\ days' = [days EXCEPT ![u] = IF ses[s].dirty THEN ses[s].days ELSE @]
  /\ End(s)
  /\ UNCHANGED <<booked, broken>>

WheelNext(s) ==
  \/ \E u \in Player, pay \in {"balance", "days"} : Available(s, u, pay)
  \/ PayStars(s) \/ PayDays(s)
  \/ WinCash(s) \/ WinDays(s) \/ WinOther(s)
  \/ RecordSpin(s)
=============================================================================
