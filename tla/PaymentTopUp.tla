---------------------------- MODULE PaymentTopUp ----------------------------
(***************************************************************************)
(* A provider reports a charge and the user's balance is credited: the     *)
(* webhook and status-check handlers of four providers, which differ in    *)
(* what they commit first and in what their FOR UPDATE re-reads:           *)
(*                                                                         *)
(*   yookassa       commits status and is_paid, refreshes, locks without   *)
(*                  re-reading, then looks the charge up in transactions   *)
(*   heleket        commits the status, refreshes, locks without re-reading*)
(*   cloudpayments  loads, locks without re-reading                        *)
(*   platega        locks with populate_existing                           *)
(*                                                                         *)
(* and then the referral programme, in commits of its own.  A session step *)
(* ends where the code commits or where another session can get in.        *)
(***************************************************************************)
EXTENDS Integers, FiniteSets

CONSTANTS
  Payment,      \* rows of the providers' payment tables
  Charge,       \* confirmed charges: the providers' transaction ids
  User,         \* users of the bot
  Session,      \* database sessions (concurrent handlers)
  None,         \* no session / payment / charge / user
  Provider,     \* Payment -> provider
  ChargeOf,     \* Charge -> Payment
  Owner,        \* Payment -> User
  Amount,       \* Payment -> amount_kopeks
  Direct,       \* YooKassa payments that buy a subscription, not a top-up
  Qualifying,   \* payments of at least REFERRAL_MINIMUM_TOPUP_KOPEKS
  Referrer,     \* User -> referred_by
  FirstBonus, InviterBonus, Commission, \* what the referral programme grants
  Price,        \* of a purchase from the balance
  Redelivered,  \* payments whose provider repeats its webhook until answered
  MaxFaults, MaxSpends \* bounds of the model

ASSUME PaymentAssumption ==
  /\ Provider \in [Payment -> {"yookassa", "heleket", "cloudpayments", "platega"}]
  /\ ChargeOf \in [Charge -> Payment] /\ Owner \in [Payment -> User]
  /\ Amount \in [Payment -> Nat]
  /\ \A p \in Direct : p \in Payment /\ Provider[p] = "yookassa"
  /\ UNION {Qualifying, Redelivered} \subseteq Payment
ASSUME UserAssumption ==
  /\ Referrer \in [User -> User \cup {None}]
  /\ {FirstBonus, InviterBonus, Commission, Price} \subseteq Nat
ASSUME NoneAssumption == None \notin Session \cup Payment \cup Charge \cup User
ASSUME BoundAssumption == {MaxFaults, MaxSpends} \subseteq Nat
\* Only CloudPayments lets a customer pay one invoice in two transactions.
ASSUME ChargeAssumption ==
  \A c, d \in Charge :
     ChargeOf[c] = ChargeOf[d] /\ Provider[ChargeOf[c]] # "cloudpayments" => c = d

VARIABLES
  charged,  \* charges the providers confirmed
  acked,    \* charges whose webhook was answered with success
  row,      \* the payment rows: status, is_paid, transaction_id
  txns,     \* how many rows of transactions carry the charge's external id
  balance,  \* users.balance_kopeks
  book,     \* history: what was credited to the user less what was taken
  first,    \* users.has_made_first_topup
  bonuses,  \* first top-up bonuses granted to the user
  active,   \* Direct payments whose pending subscription was activated
  lock,     \* who holds the payment row FOR UPDATE
  ses,      \* the sessions
  used      \* how much of each bound is used up

money == <<balance, book>>
vars == <<charged, acked, row, txns, money, first, bonuses, active, lock, ses, used>>

Row == [status : {"pending", "succeeded", "failed"}, paid : BOOLEAN, txn : Charge \cup {None}]
PC == {"idle", "lock", "credit", "referral", "bonus", "invite", "activate", "finish"}
NewRow == [status |-> "pending", paid |-> FALSE, txn |-> None]
Idle == [pc |-> "idle", c |-> None, hook |-> FALSE, seen |-> NewRow, funds |-> 0, first |-> FALSE]
SessionState == [pc : PC, c : Charge \cup {None}, hook : BOOLEAN, seen : Row,
                 funds : Int, first : BOOLEAN]

Init ==
  /\ charged = {} /\ acked = {} /\ active = {}
  /\ row = [p \in Payment |-> NewRow]
  /\ txns = [c \in Charge |-> 0]
  /\ balance = [u \in User |-> 0] /\ book = [u \in User |-> 0]
  /\ first = [u \in User |-> FALSE]
  /\ bonuses = [u \in User |-> 0]
  /\ lock = [p \in Payment |-> None]
  /\ ses = [s \in Session |-> Idle]
  /\ used = [faults |-> 0, spends |-> 0]

-----------------------------------------------------------------------------
(* Sessions, rows and balances. *)

Pay(s) == ChargeOf[ses[s].c]
Payer(s) == Owner[Pay(s)]
Inviter(s) == Referrer[Payer(s)]
Holds(s) == ses[s].c \in Charge /\ lock[Pay(s)] = s

Goto(s, c) == ses' = [ses EXCEPT ![s].pc = c]
Quit(s) == ses' = [ses EXCEPT ![s] = Idle]
\* The handler returns: a webhook is answered with success.
Answer(s) ==
  /\ Quit(s)
  /\ acked' = IF ses[s].hook THEN acked \cup {ses[s].c} ELSE acked
Release(s) == lock' = [p \in Payment |-> IF lock[p] = s THEN None ELSE lock[p]]

\* lock_user_for_update re-reads the row (populate_existing) and the commit
\* follows with no other wait, so a credit is one step.  (Mutation: the user
\* as get_user_by_id loaded it.)
StaleFunds(s, u) == ses[s].funds
Funds(s, u) == balance[u]

\* add_user_balance: the balance and its transaction in one commit.
Grant(u, n) ==
  /\ balance' = [balance EXCEPT ![u] = @ + n]
  /\ book' = [book EXCEPT ![u] = @ + n]

-----------------------------------------------------------------------------
(* The providers. *)

Confirm(c) ==
  /\ c \notin charged
  /\ charged' = charged \cup {c}
  /\ UNCHANGED <<acked, row, txns, money, first, bonuses, active, lock, ses, used>>

\* A failed-payment webhook, in one commit.  Platega's takes is_paid back,
\* whatever the row went through, and Heleket's is_paid is its status;
\* CloudPayments' takes no lock, but its UPDATE waits for whoever has one.
\* (Mutation: the row starts over.)
DeclineAnew(p) ==
  /\ Provider[p] # "yookassa" /\ lock[p] = None
  /\ row' = [row EXCEPT ![p] = NewRow]
  /\ UNCHANGED <<charged, acked, txns, money, first, bonuses, active, lock, ses, used>>
Decline(p) ==
  /\ Provider[p] # "yookassa" /\ lock[p] = None
  /\ row' = [row EXCEPT ![p].status = "failed",
                        ![p].paid = IF Provider[p] = "cloudpayments" THEN @ ELSE FALSE]
  /\ UNCHANGED <<charged, acked, txns, money, first, bonuses, active, lock, ses, used>>

\* The handler loads the payment row of charge c.  YooKassa and Heleket first
\* commit what the provider says of it and refresh.
CommitsFirst(p) == Provider[p] \in {"yookassa", "heleket"}

Load(s, c, hook) == LET p == ChargeOf[c] IN
  /\ ses[s] = Idle /\ c \in charged
  /\ IF CommitsFirst(p)
     THEN /\ lock[p] = None
          /\ row' = [row EXCEPT ![p].status = "succeeded", ![p].paid = TRUE]
     ELSE UNCHANGED row
  /\ ses' = [ses EXCEPT ![s] = [pc |-> "lock", c |-> c, hook |-> hook, seen |-> row'[p],
                                funds |-> 0, first |-> FALSE]]
  /\ UNCHANGED <<charged, acked, txns, money, first, bonuses, active, lock, used>>

Webhook(s, c) == Load(s, c, TRUE)

\* What the verification service takes for a payment still to be checked.
Pending(p) ==
  /\ row[p].status = "pending"
  /\ ~row[p].paid /\ row[p].txn = None
  /\ p \notin Direct

Check(s, c) == Pending(ChargeOf[c]) /\ Load(s, c, FALSE)

-----------------------------------------------------------------------------
(* Crediting. *)

\* The row as the handler has it once it holds the lock: only Platega's
\* SELECT ... FOR UPDATE refreshes an object the session already loaded.
Reread(s) == IF Provider[Pay(s)] = "platega" THEN row[Pay(s)] ELSE ses[s].seen

\* "Already processed".  YooKassa also looks the charge up in transactions.
\* (Mutation: YooKassa trusts is_paid, which it committed itself.)
ProcessedByFlag(s) == Reread(s).txn # None \/ Reread(s).paid
Processed(s) == LET p == Pay(s) IN
  \/ Reread(s).txn # None
  \/ Reread(s).paid /\ ~CommitsFirst(p)
  \/ Provider[p] = "yookassa" /\ txns[ses[s].c] > 0

\* A Platega row that is linked but was declined since is confirmed again.
SkipProcessed(s) == LET p == Pay(s) IN
  /\ ses[s].pc = "lock" /\ lock[p] = None /\ Processed(s)
  /\ row' = IF Provider[p] = "platega" /\ ~row[p].paid
            THEN [row EXCEPT ![p].status = "succeeded"] ELSE row
  /\ Answer(s)
  /\ UNCHANGED <<charged, txns, money, first, bonuses, active, lock, used>>

\* The lock, then get_user_by_id, which does not lock the user.
LockRow(s) == LET p == Pay(s) IN
  /\ ses[s].pc = "lock" /\ lock[p] = None /\ ~Processed(s)
  /\ lock' = [lock EXCEPT ![p] = s]
  /\ ses' = [ses EXCEPT ![s].pc = IF p \in Direct THEN "referral" ELSE "credit",
                        ![s].funds = balance[Payer(s)], ![s].first = first[Payer(s)]]
  /\ UNCHANGED <<charged, acked, row, txns, money, first, bonuses, active, used>>

\* uq_transaction_external_id_method.  (Mutation: without the constraint.)
NeverTaken(c) == FALSE
Taken(c) == txns[c] > 0

\* The row of transactions and the link from the payment to it; who committed
\* the status first does not write it again.  (Mutations: no link; a link to
\* the payment itself.)
RecordUnlinked(s) == LET p == Pay(s) IN
  /\ txns' = [txns EXCEPT ![ses[s].c] = @ + 1]
  /\ row' = [row EXCEPT ![p].status = "succeeded", ![p].paid = TRUE]
RecordItself(s) == LET p == Pay(s) IN
  /\ txns' = [txns EXCEPT ![ses[s].c] = @ + 1]
  /\ row' = [row EXCEPT ![p] = [status |-> "succeeded", paid |-> TRUE, txn |-> p]]
Record(s) == LET p == Pay(s)  c == ses[s].c IN
  /\ txns' = [txns EXCEPT ![c] = @ + 1]
  /\ row' = [row EXCEPT ![p] = IF CommitsFirst(p) THEN [@ EXCEPT !.txn = c]
                               ELSE [status |-> "succeeded", paid |-> TRUE, txn |-> c]]

\* Transaction, link and balance in one commit.
Credit(s) == LET p == Pay(s)  u == Payer(s) IN
  /\ ses[s].pc = "credit" /\ ~Taken(ses[s].c)
  /\ Record(s)
  /\ balance' = [balance EXCEPT ![u] = Funds(s, u) + Amount[p]]
  /\ book' = [book EXCEPT ![u] = @ + Amount[p]]
  /\ Release(s)
  /\ ses' = [ses EXCEPT ![s].pc = "referral", ![s].first = first[u]]
  /\ UNCHANGED <<charged, acked, first, bonuses, active, used>>

\* The insert fails: everything is rolled back, the webhook is not answered.
Collide(s) ==
  /\ ses[s].pc = "credit" /\ Taken(ses[s].c)
  /\ Release(s) /\ Quit(s)
  /\ UNCHANGED <<charged, acked, row, txns, money, first, bonuses, active, used>>

-----------------------------------------------------------------------------
(* process_referral_topup, with the user as the session has loaded it.  A    *)
(* Direct payment still holds its row here: the first commit records it.     *)

After(s) == IF Pay(s) \in Direct THEN "activate" ELSE "finish"

RecordIfHeld(s) ==
  IF Holds(s) THEN Record(s) /\ Release(s) ELSE UNCHANGED <<row, txns, lock>>

FirstTopUp(s) ==
  /\ ses[s].pc = "referral" /\ Inviter(s) # None
  /\ ~ses[s].first /\ Pay(s) \in Qualifying
  /\ first' = [first EXCEPT ![Payer(s)] = TRUE]
  /\ RecordIfHeld(s)
  /\ Goto(s, "bonus")
  /\ UNCHANGED <<charged, acked, money, bonuses, active, used>>

PayCommission(s) ==
  /\ ses[s].pc = "referral" /\ Inviter(s) # None
  /\ ses[s].first \/ Pay(s) \notin Qualifying
  /\ Grant(Inviter(s), Commission)
  /\ RecordIfHeld(s)
  /\ Goto(s, After(s))
  /\ UNCHANGED <<charged, acked, first, bonuses, active, used>>

NoReferrer(s) ==
  /\ ses[s].pc = "referral" /\ Inviter(s) = None
  /\ first' = IF Pay(s) \in Direct THEN first ELSE [first EXCEPT ![Payer(s)] = TRUE]
  /\ Goto(s, After(s))
  /\ UNCHANGED <<charged, acked, row, txns, money, bonuses, active, lock, used>>

PayBonus(s) ==
  /\ ses[s].pc = "bonus"
  /\ Grant(Payer(s), FirstBonus)
  /\ bonuses' = [bonuses EXCEPT ![Payer(s)] = @ + 1]
  /\ Goto(s, "invite")
  /\ UNCHANGED <<charged, acked, row, txns, first, active, lock, used>>

PayInviter(s) ==
  /\ ses[s].pc = "invite"
  /\ Grant(Inviter(s), InviterBonus)
  /\ Goto(s, After(s))
  /\ UNCHANGED <<charged, acked, row, txns, first, bonuses, active, lock, used>>

\* activate_pending_subscription, whose commit records the payment if no
\* referral did.
Activate(s) ==
  /\ ses[s].pc = "activate"
  /\ active' = active \cup {Pay(s)}
  /\ RecordIfHeld(s)
  /\ Answer(s)
  /\ UNCHANGED <<charged, money, first, bonuses, used>>

\* _mark_yookassa_payment_processing_completed commits what is still open.
Finish(s) ==
  /\ ses[s].pc = "finish"
  /\ RecordIfHeld(s)
  /\ Answer(s)
  /\ UNCHANGED <<charged, money, first, bonuses, active, used>>

-----------------------------------------------------------------------------
(* Purchases from the balance, failures. *)

\* (Mutation: the balance is not compared under the lock.)
SufficientAlways(u) == TRUE
Sufficient(u) == balance[u] >= Price

\* subtract_user_balance: lock with populate_existing, compare, commit.
Spend(u) ==
  /\ used.spends < MaxSpends /\ Sufficient(u)
  /\ balance' = [balance EXCEPT ![u] = @ - Price]
  /\ book' = [book EXCEPT ![u] = @ - Price]
  /\ used' = [used EXCEPT !.spends = @ + 1]
  /\ UNCHANGED <<charged, acked, row, txns, first, bonuses, active, lock, ses>>

\* The process dies, or the database fails: the open transaction is gone and
\* the provider gets no answer.
Fail(s) ==
  /\ ses[s] # Idle /\ used.faults < MaxFaults
  /\ used' = [used EXCEPT !.faults = @ + 1]
  /\ Release(s) /\ Quit(s)
  /\ UNCHANGED <<charged, acked, row, txns, money, first, bonuses, active>>

\* Errors of the referral programme and of the activation are logged and
\* forgotten, and so is an activation that finds no pending subscription.
Swallow(s) ==
  /\ ses[s].pc \in {"referral", "bonus", "invite", "activate"}
  /\ used.faults < MaxFaults
  /\ used' = [used EXCEPT !.faults = @ + 1]
  /\ Goto(s, CASE ses[s].pc = "bonus" -> "invite"
              [] ses[s].pc = "activate" -> "finish"
              [] OTHER -> After(s))
  /\ UNCHANGED <<charged, acked, row, txns, money, first, bonuses, active, lock>>

\* The same, when it is the database that failed a statement: the transaction
\* is aborted, what was flushed is gone with its locks, every statement after
\* it fails and is forgotten too, and the last COMMIT is a silent rollback.
Abort(s) ==
  /\ ses[s].pc \in {"referral", "bonus", "invite", "activate", "finish"}
  /\ used.faults < MaxFaults
  /\ used' = [used EXCEPT !.faults = @ + 1]
  /\ Release(s) /\ Goto(s, "finish")
  /\ UNCHANGED <<charged, acked, row, txns, money, first, bonuses, active>>

Handle(s) ==
  \/ SkipProcessed(s) \/ LockRow(s) \/ Credit(s) \/ Collide(s)
  \/ FirstTopUp(s) \/ PayCommission(s) \/ NoReferrer(s) \/ PayBonus(s) \/ PayInviter(s)
  \/ Activate(s) \/ Finish(s)

Next ==
  \/ \E c \in Charge : Confirm(c)
  \/ \E p \in Payment : Decline(p)
  \/ \E s \in Session, c \in Charge : Webhook(s, c) \/ Check(s, c)
  \/ \E s \in Session : Handle(s) \/ Fail(s) \/ Swallow(s) \/ Abort(s)
  \/ \E u \in User : Spend(u)

Spec == Init /\ [][Next]_vars

\* A running handler goes on, a provider that redelivers repeats a webhook
\* until it is answered, and the verification loop checks what is pending
\* (it leaves CloudPayments out).
AutoChecked(c) == Provider[ChargeOf[c]] # "cloudpayments"
Redelivery(c) == c \notin acked /\ \E s \in Session : Webhook(s, c)
LiveSpec ==
  /\ Spec
  /\ \A s \in Session : WF_vars(Handle(s))
  /\ \A c \in Charge :
       /\ ChargeOf[c] \in Redelivered => SF_vars(Redelivery(c))
       /\ AutoChecked(c) => SF_vars(\E s \in Session : Check(s, c))

-----------------------------------------------------------------------------
(* Properties. *)

TypeOK ==
  /\ charged \subseteq Charge /\ acked \subseteq Charge /\ active \subseteq Payment
  /\ row \in [Payment -> Row]
  /\ txns \in [Charge -> Nat]
  /\ balance \in [User -> Int] /\ book \in [User -> Int]
  /\ first \in [User -> BOOLEAN] /\ bonuses \in [User -> Nat]
  /\ lock \in [Payment -> Session \cup {None}]
  /\ ses \in [Session -> SessionState]
  /\ used \in [faults : Nat, spends : Nat]

\* However webhooks, checks and retries of one charge race, it is booked once.
ChargeBookedOnce == \A c \in Charge : txns[c] <= 1

\* Credits, rewards and purchases of one user, in any sessions, lose no
\* update: the balance is the sum of everything that was to move it.
BalanceIsBooked == balance = book

\* A purchase racing another never takes more than there is.
NeverOverdrawn == \A u \in User : balance[u] >= 0

\* Once a provider is told "done" it need not ask again: by then a top-up is
\* linked to its transaction, whatever failed before.  A direct purchase may
\* be answered with nothing linked (Abort), but never activated so.
AnsweredIsLinked ==
  /\ \A c \in acked : ChargeOf[c] \notin Direct => row[ChargeOf[c]].txn # None
  /\ \A p \in active : row[p].txn # None

\* The payment row and the transactions table agree.
LinkedIffBooked ==
  \A p \in Payment :
     (row[p].txn # None) <=> (\E c \in Charge : ChargeOf[c] = p /\ txns[c] > 0)

\* A late failure notice may rewrite the status, never the link: what was
\* credited stays recognisable as credited.
LinkIsKept == [][\A p \in Payment : row[p].txn # None => row'[p].txn # None]_vars

\* The handlers implement the wallet.
AllRewards == {FirstBonus, InviterBonus, Commission, 0}
Abstract == INSTANCE Wallet WITH
  Credited <- [c \in Charge |-> IF ChargeOf[c] \in Direct THEN 0 ELSE Amount[ChargeOf[c]]],
  Owner <- [c \in Charge |-> Owner[ChargeOf[c]]],
  Reward <- AllRewards,
  booked <- {c \in Charge : txns[c] > 0}
ImplementsWallet == Abstract!Spec

\* A confirmed top-up reaches the balance, whatever handlers failed.
ChargeIsCredited == \A c \in Charge :
  ChargeOf[c] \notin Direct => (c \in charged ~> row[ChargeOf[c]].txn # None)

-----------------------------------------------------------------------------
(* What the code says of itself, and does not keep. *)

\* cloudpayments.py: "Lock payment row to prevent concurrent double-processing".
PaymentProcessedOnce ==
  \A c, d \in Charge : ChargeOf[c] = ChargeOf[d] /\ txns[c] > 0 /\ txns[d] > 0 => c = d

\* referral_service.py: the bonus is for the first top-up.
FirstBonusOnce == \A u \in User : bonuses[u] <= 1

\* A webhook is answered "ok" when the payment was processed: not so for a
\* direct purchase whose transaction was aborted (get_db commits nothing).
AnsweredIsBooked == \A c \in acked : row[ChargeOf[c]].txn # None

\* yookassa.py: a payment whose transaction exists but whose processing did not
\* complete has its critical steps repeated.
AnsweredIsActivated ==
  \A c \in acked : ChargeOf[c] \in Direct /\ (\A s \in Session : ses[s].c # c)
                   => ChargeOf[c] \in active
=============================================================================
