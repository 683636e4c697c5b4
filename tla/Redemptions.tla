------------------------------ MODULE Redemptions ------------------------------
(***************************************************************************)
(* Promo codes, the wheel of fortune and withdrawals at work on the same    *)
(* users.                                                                   *)
(***************************************************************************)
EXTENDS PromoCodes, FortuneWheel, Withdrawals

vars == <<rowVars, promoVars, wheelVars, withdrawalVars>>

Init == RowInit /\ PromoInit /\ WheelInit /\ WithdrawalInit

\* An exception or the death of the process: what is not committed is gone.
BreakOff(s) ==
  /\ ses[s].op # "idle"
  /\ loose' = IF At(s, "activate", "count") THEN loose \cup {ses[s].c} ELSE loose
  /\ broken' = IF Busy(s, "spin") /\ ses[s].pc \in {"prize", "record"} THEN broken \cup {ses[s].u} ELSE broken
  /\ End(s)
  /\ UNCHANGED <<rows, discount, uses, count, granted, spins, withdrawalVars>>

Next ==
  \/ \E s \in Session : PromoNext(s) /\ UNCHANGED <<wheelVars, withdrawalVars>>
  \/ \E s \in Session : WheelNext(s) /\ UNCHANGED <<promoVars, withdrawalVars>>
  \/ \E s \in Session : WithdrawalNext(s) /\ UNCHANGED <<promoVars, wheelVars>>
  \/ \E i \in DOMAIN requests : Cancel(i) /\ UNCHANGED <<promoVars, wheelVars>>
  \/ \E s \in Session : BreakOff(s)

Spec == Init /\ [][Next]_vars

-----------------------------------------------------------------------------
TypeOK == RowTypeOK /\ PromoTypeOK /\ WheelTypeOK /\ WithdrawalTypeOK

\* What a code gives is given once for a use of it, and never without one:
\* activations of the same code by the same user race from two devices.
BonusOncePerUse ==
  \A x \in Code \X User : granted[x] = IF x \in uses THEN 1 ELSE 0

\* max_uses, the activations of a day and the spins of a day are kept, except
\* where activations of the code or sessions of the user overlapped, or an
\* activation broke off between the use and its count.
LimitsHold ==
  /\ \A c \in Code \ loose : Cardinality(UsersOf(c)) <= MaxUses[c]
  /\ \A u \in User \ crowded : /\ Cardinality(CodesOf(u)) <= DailyCap
                               /\ Cardinality(SpinsOf(u)) <= SpinLimit

\* Spins of u that were paid in this way and whose price was not lost.
Paid(u, pay) == {i \in SpinsOf(u) : spins[i].pay = pay /\ ~ spins[i].free}
Spinning(u) == \E s \in Session : Busy(s, "spin") /\ ses[s].u = u
Settled(u) == u \notin broken /\ ~ Spinning(u)

\* The balance is what the transactions and the records of the spins say,
\* whatever interleaves; only a prize in money makes a spin free.
BalanceReconciles ==
  /\ \A u \in User : Settled(u) =>
       balance[u] = StartBalance + booked[u] - SpinCost * Cardinality(Paid(u, "balance"))
  /\ \A i \in DOMAIN spins : spins[i].free => spins[i].prize = "cash"

\* So are the days of the subscription, where sessions of a user do not overlap.
DaysReconcile ==
  \A u \in Subscribed \ crowded : Settled(u) =>
    days[u] = StartDays
              + BonusDays * Cardinality({c \in CodesOf(u) : Kind[c] = "days"})
              + PrizeDays * Cardinality({i \in SpinsOf(u) : spins[i].prize = "days"})
              - SpinDays * Cardinality(Paid(u, "days"))

\* The amount of a request is taken once when it is approved and not at all
\* otherwise, where nobody decided on a status that had changed.
PayoutOnce ==
  \A i \in DOMAIN requests :
    \/ i \in misread
    \/ charged[i] = IF requests[i].status \in {"approved", "completed"} THEN 1 ELSE 0

\* A user never has two pending requests.
OnePending == \A u \in Partner : Cardinality(RequestsOf(u, {"pending"})) <= 1

\* What is withdrawn and asked for stays within what was earned.
EntitlementKept ==
  OnlyReferral => \A u \in Partner :
    \/ \E i \in misread : requests[i].user = u
    \/ Total(RequestsOf(u, {"approved", "completed", "pending"})) <= Earned[u]
=============================================================================
