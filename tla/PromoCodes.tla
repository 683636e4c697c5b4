------------------------------ MODULE PromoCodes ------------------------------
(***************************************************************************)
(* Promo codes: activate_promocode checks the code, reserves the use of it  *)
(* by a unique key, applies what the code gives and counts the use; a       *)
(* discount can be given back.  Money and days are committed, with the use, *)
(* before the use is counted; a discount together with the count.           *)
(***************************************************************************)
EXTENDS UserRows

CONSTANTS Kind,       \* of each code: "balance", "days" or "discount"
          MaxUses,    \* max_uses of each code
          DailyCap,   \* activations a user has in 24 hours
          Bonus, BonusDays

ASSUME PromoAssumption ==
  /\ Kind \in [Code -> {"balance", "days", "discount"}] /\ MaxUses \in [Code -> Nat]
  /\ DailyCap \in Nat /\ Bonus \in Nat \ {0} /\ BonusDays \in Nat \ {0}

VARIABLES
  discount, \* the code whose discount the user has
  uses,     \* promocode_uses, committed
  count,    \* promocodes.current_uses
  granted,  \* history: what was given for a use in uses, how many times
  loose     \* history: codes two sessions were at work on at once, or one broke
            \* off between the use and the count

promoVars == <<discount, uses, count, granted, loose>>

PromoTypeOK ==
  /\ discount \in [User -> Code \cup {None}] /\ uses \subseteq Code \X User
  /\ count \in [Code -> Nat] /\ granted \in [Code \X User -> Nat] /\ loose \subseteq Code

PromoInit ==
  /\ discount = [u \in User |-> None] /\ uses = {} /\ count = [c \in Code |-> 0]
  /\ granted = [x \in Code \X User |-> 0] /\ loose = {}

UsersOf(c) == {u \in User : <<c, u>> \in uses}
CodesOf(u) == {c \in Code : <<c, u>> \in uses}
Watched(s, c) == loose' = IF \E t \in Others(s) : ses[t].c = c THEN loose \cup {c} ELSE loose

-----------------------------------------------------------------------------
(* activate_promocode *)

\* is_valid.  (Mutation: the last use is off by one.)
ValidOnceMore(c) == count[c] <= MaxUses[c]
Valid(c) == count[c] < MaxUses[c]

\* The user and the code are read, the subscription and the discount with them.
Look(s, u, c) ==
  /\ Valid(c)
  /\ Begin(s, "activate", u, [Idle EXCEPT !.pc = "check", !.c = c, !.days = days[u],
                                          !.flag = discount[u] # None])
  /\ Watched(s, c)
  /\ UNCHANGED <<rows, lock, discount, uses, count, granted>>

\* check_user_promocode_usage and count_user_recent_activations.
Check(s) == LET u == ses[s].u  c == ses[s].c IN
  /\ At(s, "activate", "check")
  /\ IF <<c, u>> \in uses \/ Cardinality(CodesOf(u)) >= DailyCap
     THEN End(s)
     ELSE Continue(s, "reserve") /\ UNCHANGED lock
  /\ UNCHANGED <<rows, promoVars>>

\* The unique key: an INSERT waits for the one that is not committed yet and
\* fails after the one that is.  (Mutation: there is no such key.)
Rival(t, u, c) == Busy(t, "activate") /\ ses[t].pc \in {"apply", "count"} /\ ses[t].u = u /\ ses[t].c = c
ReserveUnkeyed(s) ==
  /\ At(s, "activate", "reserve")
  /\ Continue(s, "apply")
  /\ UNCHANGED <<rows, lock, promoVars>>
Reserve(s) == LET u == ses[s].u  c == ses[s].c IN
  /\ At(s, "activate", "reserve")
  /\ IF <<c, u>> \in uses
     THEN End(s)
     ELSE /\ ~ \E t \in Session \ {s} : Rival(t, u, c)
          /\ Continue(s, "apply") /\ UNCHANGED lock
  /\ UNCHANGED <<rows, promoVars>>

Use(u, c) ==
  /\ uses' = uses \cup {<<c, u>>}
  /\ granted' = [granted EXCEPT ![<<c, u>>] = @ + 1]

ApplyBalance(s) == LET u == ses[s].u  c == ses[s].c IN
  /\ At(s, "activate", "apply") /\ Kind[c] = "balance"
  /\ AddBalance(s, u, Bonus)
  /\ Use(u, c)
  /\ Continue(s, "count")
  /\ UNCHANGED <<days, discount, count, loose>>

\* extend_subscription writes the end it computes from the one read.
ApplyDays(s) == LET u == ses[s].u  c == ses[s].c IN
  /\ At(s, "activate", "apply") /\ Kind[c] = "days" /\ u \in Subscribed
  /\ days' = [days EXCEPT ![u] = ses[s].days + BonusDays]
  /\ Use(u, c)
  /\ Continue(s, "count")
  /\ UNCHANGED <<balance, booked, lock, discount, count, loose>>

\* The flush holds the user's row.
ApplyDiscount(s) == LET u == ses[s].u IN
  /\ At(s, "activate", "apply") /\ Kind[ses[s].c] = "discount" /\ ~ ses[s].flag
  /\ Lock(s, u)
  /\ Continue(s, "count")
  /\ UNCHANGED <<rows, promoVars>>

\* A ValueError: the use is deleted again.
Inapplicable(s) == LET c == ses[s].c IN
  /\ At(s, "activate", "apply")
  /\ \/ Kind[c] = "days" /\ ses[s].u \notin Subscribed
     \/ Kind[c] = "discount" /\ ses[s].flag
  /\ End(s)
  /\ UNCHANGED <<rows, promoVars>>

Count(s) == LET u == ses[s].u  c == ses[s].c IN
  /\ At(s, "activate", "count")
  /\ count' = [count EXCEPT ![c] = @ + 1]
  /\ IF Kind[c] = "discount"
     THEN Use(u, c) /\ discount' = [discount EXCEPT ![u] = c]
     ELSE UNCHANGED <<uses, granted, discount>>
  /\ End(s)
  /\ UNCHANGED <<rows, loose>>

-----------------------------------------------------------------------------
(* deactivate_discount_promocode *)

\* n: the count as read; flag: the use that was read is still there.
LookDiscount(s, u) == LET c == discount[u] IN
  /\ c # None
  /\ Begin(s, "deactivate", u, [Idle EXCEPT !.pc = "write", !.c = c, !.n = count[c],
                                            !.r = IF <<c, u>> \in uses THEN 1 ELSE 0,
                                            !.flag = <<c, u>> \in uses])
  /\ Watched(s, c)
  /\ UNCHANGED <<rows, lock, discount, uses, count, granted>>

\* The count that was read, less one.
Uncount(s, c) == IF ses[s].r = 1 /\ ses[s].n > 0 THEN ses[s].n - 1 ELSE count[c]

\* The DELETE names the use by its id: another one of the pair survives it.
GiveBack(s) == LET u == ses[s].u  c == ses[s].c IN
  /\ At(s, "deactivate", "write") /\ Lockable(s, u)
  /\ discount' = [discount EXCEPT ![u] = None]
  /\ count' = [count EXCEPT ![c] = Uncount(s, c)]
  /\ uses' = IF ses[s].flag THEN uses \ {<<c, u>>} ELSE uses
  /\ granted' = IF ses[s].flag THEN [granted EXCEPT ![<<c, u>>] = 0] ELSE granted
  /\ ses' = [t \in Session |->
               IF t = s THEN Idle
               ELSE [ses[t] EXCEPT !.flag = @ /\ ~(Busy(t, "deactivate") /\ ses[t].u = u /\ ses[t].c = c)]]
  /\ UNCHANGED <<rows, lock, notes, loose>>

PromoNext(s) ==
  \/ \E u \in User, c \in Code : Look(s, u, c)
  \/ Check(s) \/ Reserve(s)
  \/ ApplyBalance(s) \/ ApplyDays(s) \/ ApplyDiscount(s) \/ Inapplicable(s)
  \/ Count(s)
  \/ \E u \in User : LookDiscount(s, u)
  \/ GiveBack(s)
=============================================================================
