------------------------ MODULE GuestPurchaseHistory ------------------------
(***************************************************************************)
(* GuestPurchase with history variables that only look on: what broke off  *)
(* a handler between its grant and DELIVERED, which handlers were at work  *)
(* on one purchase or one subscription at the same time, and what the      *)
(* recipients were granted.  The handlers do none of this exactly once; the *)
(* history says how often it can go wrong.                                 *)
(***************************************************************************)
EXTENDS GuestPurchase

CONSTANT Audited \* the purchases whose history is kept

ASSUME AuditedAssumption == Audited \subseteq Purchase
ASSUME SessionAssumption == IsFiniteSet(Session)

AuditedSlot == {Recipient[p] : p \in Audited}

VARIABLES
  torn,       \* how often a handler broke off after its grant
  raced,      \* how often a handler took the purchase up beside another
  due,        \* periods the recipient was granted and has not used up
  crossed,    \* how often a handler read the subscription beside another
  uncompared  \* purchases whose webhook failed before it compared the amount

history == <<torn, raced, due, crossed, uncompared>>
hvars == <<vars, history>>

-----------------------------------------------------------------------------
(* Handlers at work. *)

\* The session has found the purchase open and will grant its period without
\* looking again.
Armed(s, p) ==
  /\ ses[s].p = p
  /\ \/ ses[s].pc \in {"mark", "read", "decide", "extend", "panel"}
     \/ ses[s].pc = "finish" /\ ses[s].owes
     \/ ses[s].pc = "fulfil" /\ ses[s].kind = "balance"
     \/ ses[s].pc = "activate" /\ ses[s].kind = "callback" /\ ses[s].mem = "pending_activation"

\* It has granted the period and has still to write DELIVERED.
Spent(s, p) ==
  /\ ses[s].p = p
  /\ \/ ses[s].pc = "deliver"
     \/ ses[s].pc = "finish" /\ ~ses[s].owes

AtWork(s, p) == Armed(s, p) \/ Spent(s, p)

\* It has read the subscription and will write what it makes of it.
Extending(s, u) ==
  /\ ses[s].p \in Purchase /\ Recipient[ses[s].p] = u
  /\ \/ ses[s].pc \in {"decide", "panel"}
     \/ ses[s].pc = "finish" /\ ses[s].owes

-----------------------------------------------------------------------------
(* What a step leaves in the history. *)

BrokeOff(p) == \E s \in Session :
  Spent(s, p) /\ status'[p] # "delivered" /\ ~Spent(s, p)'
TookUpBeside(p) == \E s \in Session :
  /\ ~Armed(s, p) /\ (\E t \in Session \ {s} : AtWork(t, p))
  /\ Armed(s, p)'
ReadBeside(u) == \E s \in Session :
  /\ ~Extending(s, u) /\ (\E t \in Session \ {s} : Extending(t, u))
  /\ Extending(s, u)'
Granting(u) == \E p \in Purchase : Recipient[p] = u /\ granted'[p] > granted[p]
RanOut(u) == days[u] > 0 /\ days'[u] = 0
Left(u) == IF due[u] > days[u] THEN due[u] - days[u] ELSE 0

Remember ==
  /\ torn' = [p \in Audited |-> IF BrokeOff(p) THEN torn[p] + 1 ELSE torn[p]]
  /\ raced' = [p \in Audited |-> IF TookUpBeside(p) THEN raced[p] + 1 ELSE raced[p]]
  /\ crossed' = [u \in AuditedSlot |-> IF ReadBeside(u) THEN crossed[u] + 1 ELSE crossed[u]]
  /\ due' = [u \in AuditedSlot |->
               IF Granting(u) THEN due[u] + 1 ELSE IF RanOut(u) THEN Left(u) ELSE due[u]]
  /\ uncompared' = uncompared \cup
       {p \in Audited : \E s \in Session : ses'[s].p = p /\ ses'[s].pc = "rescue"}

HInit ==
  /\ Init
  /\ torn = [p \in Audited |-> 0] /\ raced = [p \in Audited |-> 0]
  /\ due = [u \in AuditedSlot |-> days[u]] /\ crossed = [u \in AuditedSlot |-> 0]
  /\ uncompared = {}

\* Next /\ Remember, action by action.
HNext ==
  \/ \E p \in Purchase :
       \/ CreatePurchase(p) /\ Remember
       \/ RecoverSelect(p) /\ Remember
       \/ RetryPaidSelect(p) /\ Remember
       \/ RetryHeldSelect(p) /\ Remember
       \/ ExhaustSelect(p) /\ Remember
       \/ GrowStale(p) /\ Remember
       \/ GrowOld(p) /\ Remember
  \/ \E s \in Session :
       \/ MarkPaid(s) /\ Remember
       \/ ClaimMismatch(s) /\ Remember
       \/ ClaimSkip(s) /\ Remember
       \/ ClaimCodeOnly(s) /\ Remember
       \/ ClaimPaid(s) /\ Remember
       \/ Rescue(s) /\ Remember
       \/ FulfilLock(s) /\ Remember
       \/ FulfilDelisted(s) /\ Remember
       \/ FulfilRead(s) /\ Remember
       \/ FulfilHold(s) /\ Remember
       \/ FulfilGrant(s) /\ Remember
       \/ FulfilDeliver(s) /\ Remember
       \/ ActivateLock(s) /\ Remember
       \/ ActivateExtend(s) /\ Remember
       \/ PanelCommits(s) /\ Remember
       \/ PanelDown(s) /\ Remember
       \/ ActivateDeliver(s) /\ Remember
       \/ Fail(s) /\ Remember
  \/ \E s \in Session, p \in Purchase :
       \/ BuyFromBalance(s, p) /\ Remember
       \/ Webhook(s, p) /\ Remember
       \/ PressLink(s, p) /\ Remember
       \/ EnterCode(s, p) /\ Remember
       \/ PressCallback(s, p) /\ Remember
  \/ RecoverSettle /\ Remember
  \/ ExhaustSettle /\ Remember
  \/ RetryCount /\ Remember
  \/ Crash /\ Remember
  \/ \E u \in Slot : Lapse(u) /\ Remember

HSpec == HInit /\ [][HNext]_hvars
HFairSpec == HSpec /\ Fairness

-----------------------------------------------------------------------------
(* Properties. *)

\* One payment puts one period on the subscription, and at most one more for
\* every handler that breaks off between the grant and DELIVERED and every one
\* that takes the purchase up beside another.
GrantsAreAccountedFor == \A p \in Audited : granted[p] <= 1 + torn[p] + raced[p]

\* What nobody works on and is not settled, so that a retry, a webhook or its
\* owner may still take it up, has had no period yet, but for the same two
\* exceptions ("let fulfill_purchase do atomic commit").
Open(p) == status[p] \notin {"delivered", "failed"}
OpenIsUngranted ==
  \A p \in Audited :
    Open(p) /\ (\A s \in Session : ~AtWork(s, p)) => granted[p] <= torn[p] + raced[p]

\* However activations and fulfilments for one recipient overlap, fail and
\* lapse, his subscription has every period granted to him that he has not
\* used up, but at most one less for every handler that read it beside another.
NoPeriodLost == \A u \in AuditedSlot : due[u] <= days[u] + crossed[u]

\* A purchase is delivered only for the amount the provider was to charge,
\* unless its webhook failed before it compared the two.
AmountConfirmed ==
  \A p \in Mismatched \cap Audited : status[p] = "delivered" => p \in uncompared
=============================================================================
