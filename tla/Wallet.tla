------------------------------- MODULE Wallet -------------------------------
(***************************************************************************)
(* What the payment handlers promise, without rows, locks or sessions: a   *)
(* confirmed charge of a provider is booked at most once, its amount goes  *)
(* to the balance of the user who owns it in the same step, a balance      *)
(* otherwise changes by a referral reward or a purchase, and it never goes *)
(* below zero.                                                             *)
(***************************************************************************)
EXTENDS Integers

CONSTANTS
  Charge,   \* confirmed charges of the providers
  User,     \* users of the bot
  Credited, \* Charge -> how much the charge adds to the balance
  Owner,    \* Charge -> User
  Reward,   \* amounts the referral programme grants
  Price     \* what a purchase from the balance costs

VARIABLES booked, balance

Init == booked = {} /\ balance = [u \in User |-> 0]

Book(c) ==
  /\ c \in Charge \ booked
  /\ booked' = booked \cup {c}
  /\ balance' = [balance EXCEPT ![Owner[c]] = @ + Credited[c]]

\* A subscription bought by card is booked without touching the balance; the
\* commission of the inviter may be committed together with it.
BookWithReward(c, u, r) ==
  /\ c \in Charge \ booked /\ Credited[c] = 0
  /\ booked' = booked \cup {c}
  /\ balance' = [balance EXCEPT ![u] = @ + r]

Grant(u, r) ==
  /\ balance' = [balance EXCEPT ![u] = @ + r]
  /\ UNCHANGED booked

Spend(u) ==
  /\ balance[u] >= Price
  /\ balance' = [balance EXCEPT ![u] = @ - Price]
  /\ UNCHANGED booked

Next ==
  \/ \E c \in Charge : Book(c)
  \/ \E c \in Charge, u \in User, r \in Reward : BookWithReward(c, u, r)
  \/ \E u \in User, r \in Reward : Grant(u, r)
  \/ \E u \in User : Spend(u)

Spec == Init /\ [][Next]_<<booked, balance>>
=============================================================================
