------------------------- MODULE PaymentTopUpProofs -------------------------
(***************************************************************************)
(* For any payments, charges, users and sessions: a charge is booked at    *)
(* most once, an answered top-up leaves a linked payment, the payment     *)
(* rows agree with the transactions, and balances are what was booked.     *)
(*                                                                         *)
(* The inductive invariant says who may book a charge: only the session    *)
(* that holds the payment row, so what it saw of the charge stays true     *)
(* until it commits.  Framing reduces the other sessions to Steady.        *)
(***************************************************************************)
EXTENDS PaymentTopUp, TLAPS

Linked(p) == row[p].txn # None
Recorded == {"referral", "bonus", "invite", "activate", "finish"}
Commits == {"referral", "activate", "finish"}

\* A session holds no row but its own, and only while it has something to book.
OwnRow(s) ==
  \A q \in Payment : lock[q] = s =>
     /\ ses[s].c \in Charge /\ q = Pay(s)
     /\ ses[s].pc \in {"credit"} \cup Commits
Busy(s) == ses[s].pc # "idle" => ses[s].c \in Charge
Crediting(s) == ses[s].pc = "credit" => lock[Pay(s)] = s /\ Pay(s) \notin Direct
Recording(s) == ses[s].pc \in Commits /\ lock[Pay(s)] = s
                   => Pay(s) \in Direct /\ txns[ses[s].c] = 0
\* Only a direct purchase whose transaction was aborted has nothing recorded.
Aborted(s) == ses[s].pc = "finish" /\ Pay(s) \in Direct
PastRecord(s) == ses[s].pc \in Recorded /\ lock[Pay(s)] # s => Linked(Pay(s)) \/ Aborted(s)
\* What the session read of its row may be stale, but never wrong.
Stale(s) == ses[s].c \in Charge =>
  /\ ses[s].seen.txn # None => Linked(Pay(s))
  /\ ses[s].seen.paid /\ ~CommitsFirst(Pay(s)) => Linked(Pay(s))
Activating(s) == ses[s].pc = "activate" => Pay(s) \in Direct
Inviting(s) == ses[s].pc \in {"bonus", "invite"} => Inviter(s) # None

SessionInv(s) ==
  /\ OwnRow(s) /\ Busy(s) /\ Crediting(s) /\ Recording(s)
  /\ PastRecord(s) /\ Stale(s) /\ Activating(s) /\ Inviting(s)

RowInv(p) ==
  /\ Linked(p) <=> \E c \in Charge : ChargeOf[c] = p /\ txns[c] > 0
  /\ row[p].paid /\ ~CommitsFirst(p) => Linked(p)

Global == ChargeBookedOnce /\ AnsweredIsLinked /\ BalanceIsBooked /\ NeverOverdrawn

IInv ==
  /\ TypeOK
  /\ \A s \in Session : SessionInv(s)
  /\ \A p \in Payment : RowInv(p)
  /\ Global

-----------------------------------------------------------------------------
(* What a step of session s may change. *)

Moves(s) ==
  /\ ses' \in [Session -> SessionState]
  /\ \A t \in Session \ {s} : ses'[t] = ses[t]

Keeps(s) ==
  /\ Moves(s)
  /\ ses'[s].c = ses[s].c /\ ses'[s].seen = ses[s].seen /\ ses'[s].hook = ses[s].hook

\* Links stay, other sessions' locks stay, and only the holder of a payment
\* books its charges.
Steady(s) ==
  /\ \A q \in Payment : row[q].txn # None => row'[q].txn # None
  /\ \A q \in Payment : lock'[q] # lock[q] => lock[q] \in {None, s} /\ lock'[q] \in {None, s}
  /\ \A d \in Charge : txns'[d] # txns[d] => lock[ChargeOf[d]] = s

\* The other sessions keep their invariant.
LEMMA Framing ==
  ASSUME IInv, NEW s \in Session, Moves(s), Steady(s), TypeOK',
         SessionInv(s)', \A p \in Payment : RowInv(p)', Global'
  PROVE  IInv'
<1>1. ASSUME NEW t \in Session, t # s
      PROVE  SessionInv(t)'
  <2>1. SessionInv(t) /\ ses'[t] = ses[t] /\ ses[t] \in SessionState /\ t # None
    BY <1>1, NoneAssumption DEF IInv, Moves, TypeOK
  <2>2. \A q \in Payment : (lock[q] = t) <=> (lock'[q] = t)
    BY <1>1, <2>1, NoneAssumption DEF Steady
  <2>3. Pay(t)' = Pay(t)
    BY <2>1 DEF Pay
  <2>4. ses[t].c \in Charge => Pay(t) \in Payment
    BY PaymentAssumption DEF Pay
  <2>5. OwnRow(t)'
    BY <2>1, <2>2, <2>3 DEF SessionInv, OwnRow
  <2>6. Busy(t)' /\ Activating(t)' /\ Inviting(t)'
    BY <2>1, <2>3 DEF SessionInv, Busy, Activating, Inviting, Inviter, Payer
  <2>7. Crediting(t)' /\ PastRecord(t)' /\ Stale(t)'
    BY <2>1, <2>2, <2>3, <2>4
       DEF SessionInv, Busy, Crediting, PastRecord, Aborted, Stale, Recorded, Linked, Steady,
           CommitsFirst
  <2>8. Recording(t)'
    <3>1. SUFFICES ASSUME ses[t].pc \in Commits, lock[Pay(t)] = t
                   PROVE  txns'[ses[t].c] = txns[ses[t].c]
      BY <2>1, <2>2, <2>3, <2>4 DEF SessionInv, Busy, Recording, Commits
    <3>2. ses[t].c \in Charge /\ ChargeOf[ses[t].c] = Pay(t)
      BY <2>1, <3>1 DEF SessionInv, Busy, Pay, Commits
    <3> QED
      BY <1>1, <3>1, <3>2 DEF Steady
  <2> QED
    BY <2>5, <2>6, <2>7, <2>8 DEF SessionInv
<1> QED
  BY <1>1 DEF IInv

\* What a step that belongs to no session may change.
LEMMA Outside ==
  ASSUME IInv, TypeOK', Global', \A p \in Payment : RowInv(p)',
         UNCHANGED <<ses, lock, txns>>,
         \A q \in Payment : row[q].txn # None => row'[q].txn # None
  PROVE  IInv'
<1>1. ASSUME NEW t \in Session
      PROVE  SessionInv(t)'
  <2>1. SessionInv(t) /\ (ses[t].c \in Charge => Pay(t) \in Payment)
    BY PaymentAssumption DEF IInv, Pay
  <2> QED
    BY <2>1 DEF SessionInv, OwnRow, Busy, Crediting, Recording, PastRecord, Aborted, Stale,
                Activating, Inviting, Inviter, Payer, Pay, Linked, Recorded, CommitsFirst
<1> QED
  BY <1>1 DEF IInv

LEMMA GotoEffect ==
  ASSUME TypeOK, NEW s \in Session, NEW c \in PC, Goto(s, c)
  PROVE  Keeps(s) /\ ses'[s].pc = c
<1> DEFINE x == [ses[s] EXCEPT !.pc = c]
<1>1. ses' = [ses EXCEPT ![s] = x] /\ ses[s] \in SessionState
  BY DEF Goto, TypeOK
<1>2. /\ x \in SessionState /\ x.pc = c
      /\ x.c = ses[s].c /\ x.seen = ses[s].seen /\ x.hook = ses[s].hook
  BY <1>1 DEF SessionState
<1> HIDE DEF x
<1> QED
  BY <1>1, <1>2 DEF Keeps, Moves, TypeOK

LEMMA IdleType == Idle \in SessionState
BY DEF Idle, SessionState, PC, NewRow, Row

LEMMA QuitEffect ==
  ASSUME TypeOK, NEW s \in Session, Quit(s)
  PROVE  Moves(s) /\ ses'[s] = Idle
BY IdleType DEF Quit, Moves, TypeOK

LEMMA ReleaseEffect ==
  ASSUME TypeOK, NEW s \in Session, Release(s)
  PROVE  /\ lock' \in [Payment -> Session \cup {None}]
         /\ \A q \in Payment : /\ lock'[q] # s
                               /\ lock'[q] # lock[q] => lock[q] = s /\ lock'[q] = None
BY NoneAssumption DEF Release, TypeOK

LEMMA RecordEffect ==
  ASSUME TypeOK, NEW s \in Session, ses[s].c \in Charge, Record(s)
  PROVE  /\ txns' \in [Charge -> Nat] /\ row' \in [Payment -> Row]
         /\ Pay(s) \in Payment /\ txns'[ses[s].c] = txns[ses[s].c] + 1
         /\ \A d \in Charge \ {ses[s].c} : txns'[d] = txns[d]
         /\ row'[Pay(s)].txn = ses[s].c
         /\ \A q \in Payment \ {Pay(s)} : row'[q] = row[q]
<1>1. Pay(s) \in Payment
  BY PaymentAssumption DEF Pay
<1> DEFINE c == ses[s].c
           y == IF CommitsFirst(Pay(s)) THEN [row[Pay(s)] EXCEPT !.txn = c]
                ELSE [status |-> "succeeded", paid |-> TRUE, txn |-> c]
<1>2. row' = [row EXCEPT ![Pay(s)] = y] /\ txns' = [txns EXCEPT ![c] = @ + 1]
  BY <1>1 DEF Record, TypeOK
<1>3. y \in Row /\ y.txn = c
  BY <1>1 DEF Row, TypeOK
<1> HIDE DEF y
<1> QED
  BY <1>1, <1>2, <1>3 DEF TypeOK

\* Booking keeps the payment rows in step with the transactions.
LEMMA RecordRows ==
  ASSUME IInv, NEW s \in Session, ses[s].c \in Charge, Record(s)
  PROVE  /\ \A p \in Payment : RowInv(p)'
         /\ \A q \in Payment : row[q].txn # None => row'[q].txn # None
<1>1. TypeOK /\ ses[s].c # None
  BY NoneAssumption DEF IInv
<1>2. ASSUME NEW p \in Payment PROVE RowInv(p)'
  <2>1. CASE p = Pay(s)
    BY <1>1, <2>1, RecordEffect DEF RowInv, Linked, Pay, TypeOK
  <2>2. CASE p # Pay(s)
    <3>1. \A d \in Charge : ChargeOf[d] = p => txns'[d] = txns[d]
      BY <1>1, <2>2, RecordEffect DEF Pay
    <3>2. row'[p] = row[p] /\ RowInv(p)
      BY <1>1, <2>2, RecordEffect DEF IInv
    <3> QED
      BY <3>1, <3>2 DEF RowInv, Linked, CommitsFirst
  <2> QED
    BY <2>1, <2>2
<1> QED
  BY <1>1, <1>2, RecordEffect

LEMMA GrantEffect ==
  ASSUME TypeOK, Global, NEW u \in User, NEW n \in Nat, Grant(u, n)
  PROVE  /\ balance' \in [User -> Int] /\ book' \in [User -> Int]
         /\ BalanceIsBooked' /\ NeverOverdrawn'
BY DEF TypeOK, Global, Grant, BalanceIsBooked, NeverOverdrawn

\* What every step of a busy session starts from.
LEMMA Knows ==
  ASSUME IInv, NEW s \in Session, ses[s].pc # "idle"
  PROVE  /\ TypeOK /\ SessionInv(s) /\ ses[s] \in SessionState /\ ses[s].c \in Charge
         /\ Pay(s) \in Payment /\ Payer(s) \in User /\ Inviter(s) \in User \cup {None}
         /\ s # None /\ (\A p \in Payment : RowInv(p)) /\ Global
BY PaymentAssumption, UserAssumption, NoneAssumption
   DEF IInv, SessionInv, Busy, Pay, Payer, Inviter, TypeOK

\* A session that has quit promises nothing.
LEMMA QuitInv ==
  ASSUME NEW s \in Session, ses'[s] = Idle, \A q \in Payment : lock'[q] # s
  PROVE  SessionInv(s)'
<1>1. ses'[s].pc = "idle" /\ ses'[s].c \notin Charge
  BY NoneAssumption DEF Idle
<1> QED
  BY <1>1 DEF SessionInv, OwnRow, Busy, Crediting, Recording, PastRecord, Stale, Activating,
              Inviting, Recorded, Commits

\* A step inside the referral programme that touches no row.
LEMMA Onward ==
  ASSUME IInv, NEW s \in Session, ses[s].pc \in Recorded, ses'[s].pc \in Recorded,
         Keeps(s), UNCHANGED <<row, txns, lock>>, TypeOK', Global',
         ses'[s].pc = "activate" => Pay(s) \in Direct,
         ses'[s].pc \in {"bonus", "invite"} => Inviter(s) # None,
         ses[s].pc # "finish", lock[Pay(s)] = s => ses'[s].pc \in Commits
  PROVE  IInv'
<1>1. ses[s].pc # "idle"
  BY DEF Recorded
<1>2. Pay(s)' = Pay(s) /\ Inviter(s)' = Inviter(s)
  BY DEF Keeps, Pay, Inviter, Payer
<1>3. \A p \in Payment : RowInv(p)'
  BY <1>1, Knows DEF RowInv, Linked, CommitsFirst
<1>4. Steady(s)
  BY DEF Steady
<1>5. OwnRow(s)' /\ Busy(s)' /\ Crediting(s)'
  BY <1>1, <1>2, Knows DEF SessionInv, OwnRow, Busy, Crediting, Keeps, Recorded, Commits
<1>6. Recording(s)'
  BY <1>1, <1>2, Knows DEF SessionInv, OwnRow, Recording, Keeps, Recorded, Commits
<1>7. PastRecord(s)' /\ Stale(s)'
  BY <1>1, <1>2, Knows DEF SessionInv, PastRecord, Aborted, Stale, Linked, Keeps, CommitsFirst
<1>8. Activating(s)' /\ Inviting(s)'
  BY <1>2 DEF Activating, Inviting
<1>9. SessionInv(s)'
  BY <1>5, <1>6, <1>7, <1>8 DEF SessionInv
<1> QED
  BY <1>3, <1>4, <1>9, Knows, <1>1, Framing DEF Keeps

\* Whoever may book still may: the charge is booked, once, and the row freed.
LEMMA BookEffect ==
  ASSUME IInv, NEW s \in Session, ses[s].pc # "idle", lock[Pay(s)] = s,
         txns[ses[s].c] = 0, Record(s), Release(s)
  PROVE  /\ row' \in [Payment -> Row] /\ txns' \in [Charge -> Nat]
         /\ lock' \in [Payment -> Session \cup {None}]
         /\ \A q \in Payment : lock'[q] # s
         /\ row'[Pay(s)].txn # None /\ Steady(s) /\ ChargeBookedOnce'
         /\ \A p \in Payment : RowInv(p)'
<1>1. ses[s].c \in Charge /\ ses[s].c # None /\ TypeOK /\ Global
  BY Knows, NoneAssumption
<1>2. /\ row' \in [Payment -> Row] /\ txns' \in [Charge -> Nat]
      /\ txns'[ses[s].c] = txns[ses[s].c] + 1
      /\ \A d \in Charge \ {ses[s].c} : txns'[d] = txns[d]
      /\ row'[Pay(s)].txn # None
  BY <1>1, RecordEffect
<1>3. /\ lock' \in [Payment -> Session \cup {None}]
      /\ \A q \in Payment : /\ lock'[q] # s
                            /\ lock'[q] # lock[q] => lock[q] = s /\ lock'[q] = None
  BY <1>1, ReleaseEffect
<1>4. \A p \in Payment : RowInv(p)'
  BY <1>1, RecordRows
<1>5. \A q \in Payment : row[q].txn # None => row'[q].txn # None
  BY <1>1, RecordRows
<1>6. \A d \in Charge : txns'[d] # txns[d] => lock[ChargeOf[d]] = s
  BY <1>2 DEF Pay
<1>7. Steady(s)
  BY <1>3, <1>5, <1>6 DEF Steady
<1>8. ChargeBookedOnce'
  BY <1>1, <1>2 DEF Global, ChargeBookedOnce
<1> QED
  BY <1>2, <1>3, <1>4, <1>7, <1>8

LEMMA RecordIfHeldEffect ==
  ASSUME IInv, NEW s \in Session, ses[s].pc \in Commits, RecordIfHeld(s)
  PROVE  /\ row' \in [Payment -> Row] /\ txns' \in [Charge -> Nat]
         /\ lock' \in [Payment -> Session \cup {None}]
         /\ \A q \in Payment : lock'[q] # s
         /\ row'[Pay(s)].txn # None \/ Aborted(s)
         /\ Steady(s) /\ ChargeBookedOnce'
         /\ \A p \in Payment : RowInv(p)'
<1>1. ses[s].pc # "idle"
  BY DEF Commits
<1>2. CASE Holds(s)
  <2>1. lock[Pay(s)] = s /\ txns[ses[s].c] = 0
    BY <1>1, <1>2, Knows DEF Holds, SessionInv, Recording
  <2> QED
    BY <1>1, <1>2, <2>1, BookEffect DEF RecordIfHeld
<1>3. CASE ~Holds(s)
  <2>1. UNCHANGED <<row, txns, lock>> /\ lock[Pay(s)] # s
    BY <1>1, <1>3, Knows DEF RecordIfHeld, Holds
  <2>2. /\ row[Pay(s)].txn # None \/ Aborted(s)
        /\ \A q \in Payment : lock[q] # s
    BY <1>1, <2>1, Knows DEF SessionInv, PastRecord, Recorded, Commits, Linked, OwnRow
  <2>3. \A p \in Payment : RowInv(p)'
    BY <1>1, <2>1, Knows DEF RowInv, Linked, CommitsFirst
  <2>4. Steady(s) /\ ChargeBookedOnce'
    BY <1>1, <2>1, Knows DEF Steady, Global, ChargeBookedOnce
  <2> QED
    BY <1>1, <2>1, <2>2, <2>3, <2>4, Knows DEF TypeOK
<1> QED
  BY <1>2, <1>3

\* What was answered or activated stays linked while links stay.
LEMMA StillLinked ==
  ASSUME IInv, UNCHANGED <<acked, active>>,
         \A q \in Payment : row[q].txn # None => row'[q].txn # None
  PROVE  AnsweredIsLinked'
BY PaymentAssumption DEF IInv, TypeOK, Global, AnsweredIsLinked

\* An answered top-up has a linked payment, if it has one when it is answered.
LEMMA AnswerEffect ==
  ASSUME IInv, NEW s \in Session, ses[s].pc # "idle", Answer(s),
         row'[Pay(s)].txn # None \/ Pay(s) \in Direct,
         active' = active \/ (active' = active \cup {Pay(s)} /\ row'[Pay(s)].txn # None),
         \A q \in Payment : row[q].txn # None => row'[q].txn # None
  PROVE  Moves(s) /\ ses'[s] = Idle /\ acked' \subseteq Charge /\ AnsweredIsLinked'
<1>1. /\ acked \subseteq Charge /\ acked' \subseteq acked \cup {ses[s].c}
      /\ ses[s].c \in Charge /\ active \subseteq Payment
  BY Knows DEF Answer, TypeOK
<1>2. \A c \in acked' : ChargeOf[c] \notin Direct => row'[ChargeOf[c]].txn # None
  BY <1>1, Knows, PaymentAssumption DEF AnsweredIsLinked, Global, Pay
<1>3. \A p \in active' : row'[p].txn # None
  BY <1>1, Knows DEF AnsweredIsLinked, Global
<1> QED
  BY <1>1, <1>2, <1>3, Knows, QuitEffect DEF Answer, AnsweredIsLinked

\* A session that goes on after its payment was recorded.
LEMMA RecordedInv ==
  ASSUME IInv, NEW s \in Session, ses[s].pc # "idle", Keeps(s), Steady(s),
         \A q \in Payment : lock'[q] # s,
         row'[Pay(s)].txn # None, ses'[s].pc \in Recorded,
         ses'[s].pc = "activate" => Pay(s) \in Direct,
         ses'[s].pc \in {"bonus", "invite"} => Inviter(s) # None
  PROVE  SessionInv(s)'
<1>1. Pay(s)' = Pay(s) /\ Inviter(s)' = Inviter(s) /\ Pay(s) \in Payment
  BY Knows DEF Keeps, Pay, Inviter, Payer
<1>2. OwnRow(s)' /\ Busy(s)' /\ Crediting(s)' /\ Recording(s)'
  BY <1>1, Knows DEF OwnRow, Busy, Crediting, Recording, Keeps, Recorded, Commits
<1>3. PastRecord(s)' /\ Stale(s)' /\ Activating(s)' /\ Inviting(s)'
  BY <1>1 DEF PastRecord, Stale, Activating, Inviting, Linked
<1> QED
  BY <1>2, <1>3 DEF SessionInv

-----------------------------------------------------------------------------
(* The handlers, one lemma per action. *)

LEMMA LoadStep ==
  ASSUME IInv, NEW s \in Session, NEW c \in Charge, NEW hook \in BOOLEAN, Load(s, c, hook)
  PROVE  IInv'
<1> DEFINE p == ChargeOf[c]
<1>1. TypeOK /\ Global /\ p \in Payment /\ ses[s] = Idle /\ s # None
  BY PaymentAssumption, NoneAssumption DEF IInv, Load
<1>2. /\ row' \in [Payment -> Row] /\ \A q \in Payment : row'[q].txn = row[q].txn
      /\ \A q \in Payment \ {p} : row'[q] = row[q]
      /\ row'[p].paid /\ ~CommitsFirst(p) => row[p].paid
  <2>1. CASE CommitsFirst(p)
    <3> DEFINE x == [row[p] EXCEPT !.status = "succeeded", !.paid = TRUE]
    <3>1. row' = [row EXCEPT ![p] = x]
      BY <2>1 DEF Load
    <3>2. x \in Row /\ x.txn = row[p].txn
      <4>1. row[p] \in Row
        BY <1>1 DEF TypeOK
      <4> HIDE DEF p
      <4> QED
        BY <4>1 DEF Row
    <3> HIDE DEF x
    <3> QED
      BY <1>1, <2>1, <3>1, <3>2 DEF TypeOK
  <2>2. CASE ~CommitsFirst(p)
    BY <1>1, <2>2 DEF Load, TypeOK
  <2> QED
    BY <2>1, <2>2
<1> DEFINE y == [pc |-> "lock", c |-> c, hook |-> hook, seen |-> row'[p], funds |-> 0,
                first |-> FALSE]
<1>3. ses' = [ses EXCEPT ![s] = y] /\ UNCHANGED <<txns, lock, acked, balance, book>>
  BY DEF Load, money
<1>4. /\ y \in SessionState /\ y.pc = "lock" /\ y.c = c /\ y.seen = row'[p]
  <2>1. row'[p] \in Row
    BY <1>1, <1>2
  <2> QED
    BY <2>1 DEF SessionState, PC
<1> HIDE DEF y
<1>5. Moves(s) /\ ses'[s] = y
  BY <1>1, <1>3, <1>4 DEF Moves, TypeOK
<1>6. TypeOK'
  BY <1>1, <1>2, <1>5 DEF TypeOK, Moves, Load, money
<1>7. \A q \in Payment : RowInv(q)'
  <2>1. ASSUME NEW q \in Payment PROVE RowInv(q)'
    <3>1. RowInv(q) /\ row'[q].txn = row[q].txn
      BY <1>2 DEF IInv
    <3>2. row'[q].paid /\ ~CommitsFirst(q) => row[q].paid
      BY <1>2
    <3> QED
      BY <1>3, <3>1, <3>2 DEF RowInv, Linked, CommitsFirst
  <2> QED
    BY <2>1
<1>8. Global'
  <2>1. AnsweredIsLinked'
    BY <1>2, StillLinked DEF Load
  <2> QED
    BY <1>1, <1>3, <2>1 DEF Global, ChargeBookedOnce, BalanceIsBooked, NeverOverdrawn
<1>9. Steady(s)
  BY <1>2, <1>3 DEF Steady
<1>10. SessionInv(s)'
  <2>1. Pay(s)' = p /\ ses'[s].c = c /\ ses'[s].pc = "lock" /\ ses'[s].seen = row'[p]
    BY <1>4, <1>5 DEF Pay
  <2>2. OwnRow(s)'
    <3>1. \A q \in Payment : lock[q] # s
      BY <1>1, NoneAssumption DEF IInv, SessionInv, OwnRow, Idle
    <3> QED
      BY <1>3, <3>1 DEF OwnRow
  <2>3. Stale(s)'
    BY <1>1, <1>7, <2>1 DEF Stale, RowInv, Linked, CommitsFirst
  <2> QED
    BY <2>1, <2>2, <2>3
       DEF SessionInv, Busy, Crediting, Recording, PastRecord, Activating, Inviting, Recorded,
           Commits
<1> QED
  BY <1>5, <1>6, <1>7, <1>8, <1>9, <1>10, Framing

\* Whatever a handler read before the lock, "already processed" is true of
\* the row it holds now.
LEMMA ProcessedIsLinked ==
  ASSUME IInv, NEW s \in Session, ses[s].pc # "idle", Processed(s)
  PROVE  Linked(Pay(s))
<1>1. ses[s].c \in Charge /\ Pay(s) \in Payment /\ RowInv(Pay(s)) /\ Stale(s)
  BY Knows DEF SessionInv
<1>2. CASE Reread(s).txn # None
  BY <1>1, <1>2 DEF Reread, Stale, Linked
<1>3. CASE Reread(s).paid /\ ~CommitsFirst(Pay(s))
  BY <1>1, <1>3 DEF Reread, Stale, RowInv
<1>4. CASE txns[ses[s].c] > 0
  BY <1>1, <1>4 DEF RowInv, Pay
<1> QED
  BY <1>2, <1>3, <1>4 DEF Processed

LEMMA SkipProcessedStep ==
  ASSUME IInv, NEW s \in Session, SkipProcessed(s)
  PROVE  IInv'
<1> DEFINE p == Pay(s)
<1>1. ses[s].pc = "lock" /\ Processed(s)
  BY DEF SkipProcessed
<1>2. TypeOK /\ Global /\ p \in Payment /\ s # None /\ \A q \in Payment : RowInv(q)
  BY <1>1, Knows
<1>3. UNCHANGED <<txns, lock, balance, book>> /\ Answer(s)
  BY DEF SkipProcessed, money
<1>4. /\ row' \in [Payment -> Row]
      /\ \A q \in Payment : row'[q].txn = row[q].txn /\ row'[q].paid = row[q].paid
  <2> DEFINE x == [row[p] EXCEPT !.status = "succeeded"]
  <2>1. row' = [row EXCEPT ![p] = x] \/ row' = row
    BY DEF SkipProcessed
  <2>2. x \in Row /\ x.txn = row[p].txn /\ x.paid = row[p].paid
    BY <1>2 DEF TypeOK, Row
  <2> HIDE DEF x
  <2> QED
    BY <1>2, <2>1, <2>2 DEF TypeOK
<1>5. row'[p].txn # None
  BY <1>1, <1>2, <1>4, ProcessedIsLinked DEF Linked
<1>6. Moves(s) /\ ses'[s] = Idle /\ acked' \subseteq Charge /\ AnsweredIsLinked'
  BY <1>1, <1>3, <1>4, <1>5, AnswerEffect DEF SkipProcessed
<1>7. TypeOK'
  BY <1>2, <1>4, <1>6 DEF TypeOK, Moves, SkipProcessed, money
<1>8. \A q \in Payment : RowInv(q)'
  BY <1>2, <1>3, <1>4 DEF RowInv, Linked, CommitsFirst
<1>9. Steady(s) /\ Global'
  BY <1>2, <1>3, <1>4, <1>6
     DEF Steady, Global, ChargeBookedOnce, BalanceIsBooked, NeverOverdrawn
<1>10. SessionInv(s)'
  <2>1. \A q \in Payment : lock'[q] # s
    BY <1>1, <1>3, Knows DEF SessionInv, OwnRow, Commits
  <2> QED
    BY <1>6, <2>1, QuitInv
<1> QED
  BY <1>6, <1>7, <1>8, <1>9, <1>10, Framing

LEMMA LockRowStep ==
  ASSUME IInv, NEW s \in Session, LockRow(s)
  PROVE  IInv'
<1> DEFINE p == Pay(s)
<1>1. ses[s].pc = "lock" /\ lock[p] = None /\ ~Processed(s)
  BY DEF LockRow
<1>2. /\ TypeOK /\ Global /\ p \in Payment /\ s # None /\ SessionInv(s)
      /\ ses[s].c \in Charge /\ Payer(s) \in User /\ \A q \in Payment : RowInv(q)
  BY <1>1, Knows
<1>3. /\ UNCHANGED <<row, txns, acked, active, balance, book>>
      /\ lock' = [lock EXCEPT ![p] = s]
  BY DEF LockRow, money
<1> DEFINE x == [ses[s] EXCEPT !.pc = IF p \in Direct THEN "referral" ELSE "credit",
                               !.funds = balance[Payer(s)], !.first = first[Payer(s)]]
<1>4. ses' = [ses EXCEPT ![s] = x] /\ ses[s] \in SessionState
  BY <1>2 DEF LockRow, TypeOK
<1>5. /\ x \in SessionState /\ x.c = ses[s].c /\ x.seen = ses[s].seen /\ x.hook = ses[s].hook
      /\ x.pc = IF p \in Direct THEN "referral" ELSE "credit"
  BY <1>2, <1>4 DEF SessionState, PC, TypeOK
<1> HIDE DEF x
<1>6. Keeps(s) /\ ses'[s].pc = IF p \in Direct THEN "referral" ELSE "credit"
  BY <1>2, <1>4, <1>5 DEF Keeps, Moves, TypeOK
<1>7. TypeOK'
  BY <1>2, <1>3, <1>6 DEF TypeOK, Keeps, Moves, LockRow, money
<1>8. \A q \in Payment : RowInv(q)'
  BY <1>2, <1>3 DEF RowInv, Linked, CommitsFirst
<1>9. Steady(s) /\ Global'
  BY <1>1, <1>2, <1>3
     DEF Steady, TypeOK, Global, ChargeBookedOnce, AnsweredIsLinked, BalanceIsBooked,
         NeverOverdrawn
<1>10. p \in Direct => txns[ses[s].c] = 0
  <2>1. p \in Direct => Provider[p] = "yookassa"
    BY PaymentAssumption
  <2>2. txns[ses[s].c] \in Nat
    BY <1>2 DEF TypeOK
  <2> QED
    BY <1>1, <2>1, <2>2 DEF Processed
<1>11. Pay(s)' = p /\ ses'[s].c \in Charge
  BY <1>2, <1>6 DEF Keeps, Pay
<1>12. \A q \in Payment : lock'[q] = s <=> q = p
  BY <1>1, <1>2, <1>3 DEF SessionInv, OwnRow, TypeOK
<1>13. SessionInv(s)'
  <2>1. OwnRow(s)' /\ Busy(s)' /\ Crediting(s)'
    BY <1>2, <1>6, <1>11, <1>12 DEF OwnRow, Busy, Crediting, Commits
  <2>2. Recording(s)'
    BY <1>2, <1>3, <1>6, <1>10, <1>11 DEF Recording, Keeps, Commits
  <2>3. PastRecord(s)' /\ Activating(s)' /\ Inviting(s)'
    BY <1>2, <1>6, <1>11, <1>12 DEF PastRecord, Activating, Inviting, Recorded
  <2>4. Stale(s)'
    BY <1>2, <1>3, <1>6, <1>11 DEF SessionInv, Stale, Keeps, Linked, CommitsFirst
  <2> QED
    BY <2>1, <2>2, <2>3, <2>4 DEF SessionInv
<1> QED
  BY <1>6, <1>7, <1>8, <1>9, <1>13, Framing DEF Keeps

LEMMA CreditStep ==
  ASSUME IInv, NEW s \in Session, Credit(s)
  PROVE  IInv'
<1> DEFINE u == Payer(s)
<1>1. ses[s].pc = "credit" /\ ~Taken(ses[s].c) /\ Record(s) /\ Release(s)
  BY DEF Credit
<1>2. /\ TypeOK /\ Global /\ Pay(s) \in Payment /\ u \in User /\ SessionInv(s)
      /\ ses[s].c \in Charge
  BY <1>1, Knows
<1>3. lock[Pay(s)] = s /\ Pay(s) \notin Direct /\ txns[ses[s].c] = 0
  BY <1>1, <1>2 DEF SessionInv, Crediting, Taken, TypeOK
<1>4. /\ row' \in [Payment -> Row] /\ txns' \in [Charge -> Nat]
      /\ lock' \in [Payment -> Session \cup {None}]
      /\ \A q \in Payment : lock'[q] # s
      /\ row'[Pay(s)].txn # None /\ Steady(s) /\ ChargeBookedOnce'
      /\ \A p \in Payment : RowInv(p)'
  BY <1>1, <1>3, BookEffect
<1> DEFINE x == [ses[s] EXCEPT !.pc = "referral", !.first = first[u]]
<1>5. ses' = [ses EXCEPT ![s] = x] /\ ses[s] \in SessionState
  BY <1>2 DEF Credit, TypeOK
<1>6. /\ x \in SessionState /\ x.c = ses[s].c /\ x.seen = ses[s].seen /\ x.hook = ses[s].hook
      /\ x.pc = "referral"
  BY <1>2, <1>5 DEF SessionState, PC, TypeOK
<1> HIDE DEF x
<1>7. Keeps(s) /\ ses'[s].pc = "referral"
  BY <1>2, <1>5, <1>6 DEF Keeps, Moves, TypeOK
<1>8. /\ balance' \in [User -> Int] /\ book' \in [User -> Int]
      /\ BalanceIsBooked' /\ NeverOverdrawn'
  <2>1. Amount[Pay(s)] \in Nat
    BY <1>2, PaymentAssumption
  <2>2. /\ balance' = [balance EXCEPT ![u] = balance[u] + Amount[Pay(s)]]
        /\ book' = [book EXCEPT ![u] = book[u] + Amount[Pay(s)]]
    BY DEF Credit, Funds
  <2> QED
    BY <1>2, <2>1, <2>2 DEF TypeOK, Global, BalanceIsBooked, NeverOverdrawn
<1>9. AnsweredIsLinked'
  BY <1>4, StillLinked DEF Credit, Steady
<1>10. TypeOK'
  BY <1>2, <1>4, <1>7, <1>8 DEF TypeOK, Keeps, Moves, Credit
<1>11. SessionInv(s)'
  BY <1>1, <1>4, <1>7, RecordedInv DEF Recorded
<1> QED
  BY <1>4, <1>7, <1>8, <1>9, <1>10, <1>11, Framing DEF Keeps, Global

\* A handler that ends without an answer: it collided, or it failed.
LEMMA GoneStep ==
  ASSUME IInv, NEW s \in Session, Release(s), Quit(s), used' \in [faults : Nat, spends : Nat],
         UNCHANGED <<charged, acked, row, txns, money, first, bonuses, active>>
  PROVE  IInv'
<1>1. TypeOK /\ Global /\ \A q \in Payment : RowInv(q)
  BY DEF IInv
<1>2. Moves(s) /\ ses'[s] = Idle
  BY <1>1, QuitEffect
<1>3. /\ lock' \in [Payment -> Session \cup {None}]
      /\ \A q \in Payment : /\ lock'[q] # s
                            /\ lock'[q] # lock[q] => lock[q] = s /\ lock'[q] = None
  BY <1>1, ReleaseEffect
<1>4. TypeOK'
  BY <1>1, <1>2, <1>3 DEF TypeOK, Moves, money
<1>5. \A q \in Payment : RowInv(q)'
  BY <1>1 DEF RowInv, Linked, CommitsFirst
<1>6. Steady(s) /\ Global'
  BY <1>1, <1>3
     DEF money, Steady, Global, ChargeBookedOnce, AnsweredIsLinked, BalanceIsBooked,
         NeverOverdrawn
<1>7. SessionInv(s)'
  BY <1>2, <1>3, QuitInv
<1> QED
  BY <1>2, <1>4, <1>5, <1>6, <1>7, Framing

LEMMA FirstTopUpStep ==
  ASSUME IInv, NEW s \in Session, FirstTopUp(s)
  PROVE  IInv'
<1>1. ses[s].pc = "referral" /\ RecordIfHeld(s) /\ Goto(s, "bonus") /\ Inviter(s) # None
  BY DEF FirstTopUp
<1>2. TypeOK /\ Global
  BY <1>1, Knows
<1>3. Keeps(s) /\ ses'[s].pc = "bonus"
  BY <1>1, <1>2, GotoEffect DEF PC
<1>4. /\ row' \in [Payment -> Row] /\ txns' \in [Charge -> Nat]
      /\ lock' \in [Payment -> Session \cup {None}]
      /\ \A q \in Payment : lock'[q] # s
      /\ row'[Pay(s)].txn # None /\ Steady(s) /\ ChargeBookedOnce'
      /\ \A p \in Payment : RowInv(p)'
  BY <1>1, RecordIfHeldEffect DEF Aborted, Commits
<1>5. TypeOK'
  BY <1>2, <1>3, <1>4 DEF TypeOK, Keeps, Moves, FirstTopUp, money
<1>6. Global'
  <2>1. AnsweredIsLinked'
    BY <1>4, StillLinked DEF FirstTopUp, Steady
  <2> QED
    BY <1>2, <1>4, <2>1 DEF FirstTopUp, money, Global, BalanceIsBooked, NeverOverdrawn
<1>7. SessionInv(s)'
  BY <1>1, <1>3, <1>4, RecordedInv DEF Recorded
<1> QED
  BY <1>3, <1>4, <1>5, <1>6, <1>7, Framing DEF Keeps

\* Where a handler goes on after the referral programme.
LEMMA AfterEffect ==
  ASSUME TypeOK, NEW s \in Session, Goto(s, After(s))
  PROVE  /\ Keeps(s) /\ ses'[s].pc \in Recorded
         /\ ses'[s].pc \notin {"bonus", "invite"}
         /\ (ses'[s].pc = "activate") <=> (Pay(s) \in Direct)
<1>1. After(s) \in PC
  BY DEF After, PC
<1>2. Keeps(s) /\ ses'[s].pc = After(s)
  BY <1>1, GotoEffect
<1> QED
  BY <1>2 DEF After, Recorded

LEMMA PayCommissionStep ==
  ASSUME IInv, NEW s \in Session, PayCommission(s)
  PROVE  IInv'
<1>1. /\ ses[s].pc = "referral" /\ RecordIfHeld(s) /\ Goto(s, After(s)) /\ Inviter(s) # None
      /\ Grant(Inviter(s), Commission)
  BY DEF PayCommission
<1>2. TypeOK /\ Global /\ Inviter(s) \in User
  BY <1>1, Knows
<1>3. /\ Keeps(s) /\ ses'[s].pc \in Recorded /\ ses'[s].pc \notin {"bonus", "invite"}
      /\ (ses'[s].pc = "activate") <=> (Pay(s) \in Direct)
  BY <1>1, <1>2, AfterEffect
<1>4. /\ row' \in [Payment -> Row] /\ txns' \in [Charge -> Nat]
      /\ lock' \in [Payment -> Session \cup {None}]
      /\ \A q \in Payment : lock'[q] # s
      /\ row'[Pay(s)].txn # None /\ Steady(s) /\ ChargeBookedOnce'
      /\ \A p \in Payment : RowInv(p)'
  BY <1>1, RecordIfHeldEffect DEF Aborted, Commits
<1>5. /\ balance' \in [User -> Int] /\ book' \in [User -> Int]
      /\ BalanceIsBooked' /\ NeverOverdrawn'
  BY <1>1, <1>2, GrantEffect, UserAssumption
<1>6. TypeOK'
  BY <1>2, <1>3, <1>4, <1>5 DEF TypeOK, Keeps, Moves, PayCommission
<1>7. AnsweredIsLinked'
  BY <1>4, StillLinked DEF PayCommission, Steady
<1>8. SessionInv(s)'
  BY <1>1, <1>3, <1>4, RecordedInv
<1> QED
  BY <1>3, <1>4, <1>5, <1>6, <1>7, <1>8, Framing DEF Keeps, Global

LEMMA NoReferrerStep ==
  ASSUME IInv, NEW s \in Session, NoReferrer(s)
  PROVE  IInv'
<1>1. ses[s].pc = "referral" /\ Goto(s, After(s))
  BY DEF NoReferrer
<1>2. TypeOK /\ Global /\ SessionInv(s) /\ Payer(s) \in User
  BY <1>1, Knows
<1>3. /\ Keeps(s) /\ ses'[s].pc \in Recorded /\ ses'[s].pc \notin {"bonus", "invite"}
      /\ (ses'[s].pc = "activate") <=> (Pay(s) \in Direct)
  BY <1>1, <1>2, AfterEffect
<1>4. UNCHANGED <<row, txns, lock, balance, book, acked, active>>
  BY DEF NoReferrer, money
<1>5. TypeOK'
  BY <1>2, <1>3 DEF TypeOK, Keeps, Moves, NoReferrer, money
<1>6. Global'
  BY <1>2, <1>4
     DEF Global, ChargeBookedOnce, AnsweredIsLinked, BalanceIsBooked, NeverOverdrawn
<1>7. lock[Pay(s)] = s => Pay(s) \in Direct
  BY <1>1, <1>2 DEF SessionInv, Recording, Commits
<1> QED
  BY <1>1, <1>3, <1>4, <1>5, <1>6, <1>7, Onward DEF Recorded, Commits

LEMMA PayBonusStep ==
  ASSUME IInv, NEW s \in Session, PayBonus(s)
  PROVE  IInv'
<1>1. ses[s].pc = "bonus" /\ Goto(s, "invite") /\ Grant(Payer(s), FirstBonus)
  BY DEF PayBonus
<1>2. /\ TypeOK /\ Global /\ SessionInv(s) /\ Payer(s) \in User /\ Pay(s) \in Payment
  BY <1>1, Knows
<1>3. Keeps(s) /\ ses'[s].pc = "invite"
  BY <1>1, <1>2, GotoEffect DEF PC
<1>4. /\ balance' \in [User -> Int] /\ book' \in [User -> Int]
      /\ BalanceIsBooked' /\ NeverOverdrawn'
  BY <1>1, <1>2, GrantEffect, UserAssumption
<1>5. TypeOK'
  BY <1>2, <1>3, <1>4 DEF TypeOK, Keeps, Moves, PayBonus
<1>6. Global'
  BY <1>2, <1>4 DEF PayBonus, Global, ChargeBookedOnce, AnsweredIsLinked
<1>7. lock[Pay(s)] # s /\ Inviter(s) # None
  BY <1>1, <1>2 DEF SessionInv, OwnRow, Commits, Inviting
<1>8. UNCHANGED <<row, txns, lock>>
  BY DEF PayBonus
<1> QED
  BY <1>1, <1>3, <1>5, <1>6, <1>7, <1>8, Onward DEF Recorded, Commits

LEMMA PayInviterStep ==
  ASSUME IInv, NEW s \in Session, PayInviter(s)
  PROVE  IInv'
<1>1. ses[s].pc = "invite" /\ Goto(s, After(s)) /\ Grant(Inviter(s), InviterBonus)
  BY DEF PayInviter
<1>2. TypeOK /\ Global /\ SessionInv(s) /\ Pay(s) \in Payment
  BY <1>1, Knows
<1>3. Inviter(s) \in User /\ lock[Pay(s)] # s
  BY <1>1, <1>2, Knows DEF SessionInv, OwnRow, Commits, Inviting
<1>4. /\ Keeps(s) /\ ses'[s].pc \in Recorded /\ ses'[s].pc \notin {"bonus", "invite"}
      /\ (ses'[s].pc = "activate") <=> (Pay(s) \in Direct)
  BY <1>1, <1>2, AfterEffect
<1>5. /\ balance' \in [User -> Int] /\ book' \in [User -> Int]
      /\ BalanceIsBooked' /\ NeverOverdrawn'
  BY <1>1, <1>2, <1>3, GrantEffect, UserAssumption
<1>6. TypeOK'
  BY <1>2, <1>4, <1>5 DEF TypeOK, Keeps, Moves, PayInviter
<1>7. Global'
  BY <1>2, <1>5 DEF PayInviter, Global, ChargeBookedOnce, AnsweredIsLinked
<1>8. UNCHANGED <<row, txns, lock>>
  BY DEF PayInviter
<1> QED
  BY <1>1, <1>3, <1>4, <1>6, <1>7, <1>8, Onward DEF Recorded, Commits

LEMMA ActivateStep ==
  ASSUME IInv, NEW s \in Session, Activate(s)
  PROVE  IInv'
<1>1. ses[s].pc = "activate" /\ RecordIfHeld(s) /\ Answer(s)
  BY DEF Activate
<1>2. TypeOK /\ Global /\ Pay(s) \in Payment
  BY <1>1, Knows
<1>3. /\ row' \in [Payment -> Row] /\ txns' \in [Charge -> Nat]
      /\ lock' \in [Payment -> Session \cup {None}]
      /\ \A q \in Payment : lock'[q] # s
      /\ row'[Pay(s)].txn # None /\ Steady(s) /\ ChargeBookedOnce'
      /\ \A p \in Payment : RowInv(p)'
  BY <1>1, RecordIfHeldEffect DEF Aborted, Commits
<1>4. Moves(s) /\ ses'[s] = Idle /\ acked' \subseteq Charge /\ AnsweredIsLinked'
  BY <1>1, <1>3, AnswerEffect DEF Activate, Steady
<1>5. TypeOK'
  BY <1>2, <1>3, <1>4 DEF TypeOK, Moves, Activate, money
<1>6. Global'
  BY <1>2, <1>3, <1>4 DEF Activate, money, Global, BalanceIsBooked, NeverOverdrawn
<1>7. SessionInv(s)'
  BY <1>3, <1>4, QuitInv
<1> QED
  BY <1>3, <1>4, <1>5, <1>6, <1>7, Framing

LEMMA FinishStep ==
  ASSUME IInv, NEW s \in Session, Finish(s)
  PROVE  IInv'
<1>1. ses[s].pc = "finish" /\ RecordIfHeld(s) /\ Answer(s)
  BY DEF Finish
<1>2. TypeOK /\ Global /\ Pay(s) \in Payment
  BY <1>1, Knows
<1>3. /\ row' \in [Payment -> Row] /\ txns' \in [Charge -> Nat]
      /\ lock' \in [Payment -> Session \cup {None}]
      /\ \A q \in Payment : lock'[q] # s
      /\ row'[Pay(s)].txn # None \/ Pay(s) \in Direct
      /\ Steady(s) /\ ChargeBookedOnce'
      /\ \A p \in Payment : RowInv(p)'
  BY <1>1, RecordIfHeldEffect DEF Aborted, Commits
<1>4. Moves(s) /\ ses'[s] = Idle /\ acked' \subseteq Charge /\ AnsweredIsLinked'
  BY <1>1, <1>3, AnswerEffect DEF Finish, Steady
<1>5. TypeOK'
  BY <1>2, <1>3, <1>4 DEF TypeOK, Moves, Finish, money
<1>6. Global'
  BY <1>2, <1>3, <1>4 DEF Finish, money, Global, BalanceIsBooked, NeverOverdrawn
<1>7. SessionInv(s)'
  BY <1>3, <1>4, QuitInv
<1> QED
  BY <1>3, <1>4, <1>5, <1>6, <1>7, Framing

LEMMA FaultCounted ==
  ASSUME TypeOK, used' = [used EXCEPT !.faults = @ + 1]
  PROVE  used' \in [faults : Nat, spends : Nat]
<1> DEFINE x == [used EXCEPT !.faults = @ + 1]
<1>1. used' = x /\ used \in [faults : Nat, spends : Nat]
  BY DEF TypeOK
<1>2. x \in [faults : Nat, spends : Nat]
  BY <1>1
<1> QED
  BY <1>1, <1>2

LEMMA SwallowStep ==
  ASSUME IInv, NEW s \in Session, Swallow(s)
  PROVE  IInv'
<1> DEFINE next == CASE ses[s].pc = "bonus" -> "invite"
                     [] ses[s].pc = "activate" -> "finish"
                     [] OTHER -> After(s)
<1>1. /\ ses[s].pc \in {"referral", "bonus", "invite", "activate"}
      /\ Goto(s, next)
      /\ UNCHANGED <<charged, acked, row, txns, balance, book, first, bonuses, active, lock>>
  BY DEF Swallow, money
<1>2. TypeOK /\ Global /\ SessionInv(s) /\ Pay(s) \in Payment /\ ses[s].c \in Charge
  BY <1>1, Knows
<1>3. /\ next \in PC /\ next \in Recorded /\ next # "bonus"
      /\ next = "invite" => Inviter(s) # None
      /\ next = "activate" => Pay(s) \in Direct
  BY <1>1, <1>2 DEF PC, Recorded, After, SessionInv, Inviting
<1>4. lock[Pay(s)] = s => next \in Commits
  BY <1>1, <1>2 DEF SessionInv, OwnRow, Commits, After
<1> HIDE DEF next
<1>5. Keeps(s) /\ ses'[s].pc = next
  BY <1>1, <1>2, <1>3, GotoEffect
<1>6. TypeOK'
  BY <1>1, <1>2, <1>5, FaultCounted DEF TypeOK, Keeps, Moves, Swallow
<1>7. Global'
  BY <1>1, <1>2
     DEF Global, ChargeBookedOnce, AnsweredIsLinked, BalanceIsBooked, NeverOverdrawn
<1> QED
  BY <1>1, <1>3, <1>4, <1>5, <1>6, <1>7, Onward DEF Recorded

LEMMA AbortStep ==
  ASSUME IInv, NEW s \in Session, Abort(s)
  PROVE  IInv'
<1>1. /\ ses[s].pc \in Recorded /\ Goto(s, "finish") /\ Release(s)
      /\ UNCHANGED <<charged, acked, row, txns, balance, book, first, bonuses, active>>
  BY DEF Abort, Recorded, money
<1>2. ses[s].pc # "idle"
  BY <1>1 DEF Recorded
<1>3. /\ TypeOK /\ Global /\ SessionInv(s) /\ Pay(s) \in Payment /\ ses[s].c \in Charge
      /\ \A q \in Payment : RowInv(q)
  BY <1>2, Knows
<1>4. Keeps(s) /\ ses'[s].pc = "finish"
  BY <1>1, <1>3, GotoEffect DEF PC
<1>5. /\ lock' \in [Payment -> Session \cup {None}]
      /\ \A q \in Payment : /\ lock'[q] # s
                            /\ lock'[q] # lock[q] => lock[q] = s /\ lock'[q] = None
  BY <1>1, <1>3, ReleaseEffect
<1>6. TypeOK'
  BY <1>1, <1>3, <1>4, <1>5, FaultCounted DEF TypeOK, Keeps, Moves, Abort
<1>7. \A q \in Payment : RowInv(q)'
  BY <1>1, <1>3 DEF RowInv, Linked, CommitsFirst
<1>8. Steady(s) /\ Global'
  BY <1>1, <1>3, <1>5
     DEF Steady, Global, ChargeBookedOnce, AnsweredIsLinked, BalanceIsBooked, NeverOverdrawn
<1>9. SessionInv(s)'
  <2>1. Pay(s)' = Pay(s) /\ ses'[s].c \in Charge
    BY <1>3, <1>4 DEF Keeps, Pay
  <2>2. OwnRow(s)' /\ Busy(s)' /\ Crediting(s)' /\ Recording(s)' /\ Activating(s)' /\ Inviting(s)'
    BY <1>3, <1>4, <1>5, <2>1 DEF OwnRow, Busy, Crediting, Recording, Activating, Inviting
  <2>3. PastRecord(s)'
    <3>1. Linked(Pay(s)) \/ Pay(s) \in Direct
      BY <1>1, <1>3 DEF SessionInv, PastRecord, Aborted, Recording, OwnRow, Recorded, Commits
    <3> QED
      BY <1>1, <1>4, <2>1, <3>1 DEF PastRecord, Aborted, Linked
  <2>4. Stale(s)'
    BY <1>1, <1>3, <1>4, <2>1 DEF SessionInv, Stale, Linked, Keeps, CommitsFirst
  <2> QED
    BY <2>2, <2>3, <2>4 DEF SessionInv
<1> QED
  BY <1>4, <1>6, <1>7, <1>8, <1>9, Framing DEF Keeps

-----------------------------------------------------------------------------
(* What happens around the sessions. *)

LEMMA ConfirmStep ==
  ASSUME IInv, NEW c \in Charge, Confirm(c)
  PROVE  IInv'
<1>1. TypeOK /\ Global /\ \A p \in Payment : RowInv(p)
  BY DEF IInv
<1>2. UNCHANGED <<ses, lock, txns, row, acked, active, balance, book>>
  BY DEF Confirm, money
<1>3. TypeOK'
  BY <1>1 DEF TypeOK, Confirm, money
<1>4. Global' /\ \A p \in Payment : RowInv(p)'
  BY <1>1, <1>2
     DEF Global, ChargeBookedOnce, AnsweredIsLinked, BalanceIsBooked, NeverOverdrawn,
         RowInv, Linked, CommitsFirst
<1> QED
  BY <1>2, <1>3, <1>4, Outside

LEMMA DeclineStep ==
  ASSUME IInv, NEW p \in Payment, Decline(p)
  PROVE  IInv'
<1>1. TypeOK /\ Global /\ row[p] \in Row /\ \A q \in Payment : RowInv(q)
  BY DEF IInv, TypeOK
<1>2. UNCHANGED <<ses, lock, txns, acked, active, balance, book>>
  BY DEF Decline, money
<1> DEFINE x == [row[p] EXCEPT !.status = "failed",
                               !.paid = IF Provider[p] = "cloudpayments" THEN @ ELSE FALSE]
<1>3. row' = [row EXCEPT ![p] = x]
  BY DEF Decline
<1>4. x \in Row /\ x.txn = row[p].txn /\ (x.paid => row[p].paid)
  BY <1>1 DEF Row
<1> HIDE DEF x
<1>5. row' \in [Payment -> Row]
  BY <1>1, <1>3, <1>4 DEF TypeOK
<1>6. \A q \in Payment : row'[q].txn = row[q].txn /\ (row'[q].paid => row[q].paid)
  BY <1>1, <1>3, <1>4 DEF TypeOK
<1>7. TypeOK'
  BY <1>1, <1>5 DEF TypeOK, Decline, money
<1>8. \A q \in Payment : RowInv(q)'
  BY <1>1, <1>2, <1>6 DEF RowInv, Linked, CommitsFirst
<1>9. Global'
  BY <1>1, <1>2, <1>6, StillLinked
     DEF Global, ChargeBookedOnce, BalanceIsBooked, NeverOverdrawn
<1> QED
  BY <1>2, <1>6, <1>7, <1>8, <1>9, Outside

LEMMA SpendStep ==
  ASSUME IInv, NEW u \in User, Spend(u)
  PROVE  IInv'
<1>1. TypeOK /\ Global /\ \A q \in Payment : RowInv(q)
  BY DEF IInv
<1>2. /\ UNCHANGED <<ses, lock, txns, row, acked, active>> /\ balance[u] >= Price
      /\ balance' = [balance EXCEPT ![u] = balance[u] - Price]
      /\ book' = [book EXCEPT ![u] = book[u] - Price]
  BY DEF Spend, Sufficient
<1>3. /\ balance' \in [User -> Int] /\ book' \in [User -> Int]
      /\ BalanceIsBooked' /\ NeverOverdrawn'
  BY <1>1, <1>2, UserAssumption DEF TypeOK, Global, BalanceIsBooked, NeverOverdrawn
<1>4. used' \in [faults : Nat, spends : Nat]
  <2> DEFINE x == [used EXCEPT !.spends = @ + 1]
  <2>1. used' = x /\ used \in [faults : Nat, spends : Nat]
    BY <1>1 DEF Spend, TypeOK
  <2>2. x \in [faults : Nat, spends : Nat]
    BY <2>1
  <2> QED
    BY <2>1, <2>2
<1>5. TypeOK'
  BY <1>1, <1>2, <1>3, <1>4 DEF TypeOK, Spend
<1>6. Global' /\ \A q \in Payment : RowInv(q)'
  BY <1>1, <1>2, <1>3
     DEF Global, ChargeBookedOnce, AnsweredIsLinked, RowInv, Linked, CommitsFirst
<1> QED
  BY <1>2, <1>5, <1>6, Outside

-----------------------------------------------------------------------------
(* The invariant. *)

LEMMA Initially == Init => IInv
<1> SUFFICES ASSUME Init PROVE IInv
  OBVIOUS
<1>1. TypeOK
  BY IdleType DEF Init, TypeOK, Row, NewRow
<1>2. ASSUME NEW s \in Session PROVE SessionInv(s)
  <2>1. ses[s] = Idle /\ s # None /\ \A q \in Payment : lock[q] # s
    BY NoneAssumption DEF Init
  <2>2. ses[s].pc = "idle" /\ ses[s].c \notin Charge
    BY <2>1, NoneAssumption DEF Idle
  <2> QED
    BY <2>1, <2>2 DEF SessionInv, OwnRow, Busy, Crediting, Recording, PastRecord, Stale,
                      Activating, Inviting, Recorded, Commits
<1>3. ASSUME NEW p \in Payment PROVE RowInv(p)
  BY DEF Init, RowInv, Linked, NewRow
<1>4. Global
  BY DEF Init, Global, ChargeBookedOnce, AnsweredIsLinked, BalanceIsBooked, NeverOverdrawn
<1> QED
  BY <1>1, <1>2, <1>3, <1>4 DEF IInv

LEMMA HandleStep ==
  ASSUME IInv, NEW s \in Session, Handle(s)
  PROVE  IInv'
<1>1. CASE Collide(s)
  <2>1. used' \in [faults : Nat, spends : Nat]
    BY <1>1 DEF Collide, IInv, TypeOK
  <2> QED
    BY <1>1, <2>1, GoneStep DEF Collide, money
<1>2. CASE ~Collide(s)
  BY <1>2, SkipProcessedStep, LockRowStep, CreditStep, FirstTopUpStep, PayCommissionStep,
     NoReferrerStep, PayBonusStep, PayInviterStep, ActivateStep, FinishStep DEF Handle
<1> QED
  BY <1>1, <1>2

LEMMA FailStep ==
  ASSUME IInv, NEW s \in Session, Fail(s)
  PROVE  IInv'
BY FaultCounted, GoneStep DEF Fail, money, IInv

LEMMA Stuttering ==
  ASSUME IInv, UNCHANGED vars
  PROVE  IInv'
<1>1. TypeOK /\ Global /\ \A q \in Payment : RowInv(q)
  BY DEF IInv
<1>2. UNCHANGED <<ses, lock, txns, row, acked, active, balance, book>>
  BY DEF vars, money
<1>3. TypeOK'
  BY <1>1 DEF TypeOK, vars, money
<1>4. Global' /\ \A q \in Payment : RowInv(q)'
  BY <1>1, <1>2
     DEF Global, ChargeBookedOnce, AnsweredIsLinked, BalanceIsBooked, NeverOverdrawn,
         RowInv, Linked, CommitsFirst
<1> QED
  BY <1>2, <1>3, <1>4, Outside

LEMMA Inductive == IInv /\ [Next]_vars => IInv'
<1> SUFFICES ASSUME IInv, [Next]_vars PROVE IInv'
  OBVIOUS
<1>1. ASSUME NEW c \in Charge, Confirm(c) PROVE IInv'
  BY <1>1, ConfirmStep
<1>2. ASSUME NEW p \in Payment, Decline(p) PROVE IInv'
  BY <1>2, DeclineStep
<1>3. ASSUME NEW s \in Session, NEW c \in Charge, Webhook(s, c) \/ Check(s, c) PROVE IInv'
  BY <1>3, LoadStep DEF Webhook, Check
<1>4. ASSUME NEW s \in Session, Handle(s) \/ Fail(s) \/ Swallow(s) \/ Abort(s) PROVE IInv'
  BY <1>4, HandleStep, FailStep, SwallowStep, AbortStep
<1>5. ASSUME NEW u \in User, Spend(u) PROVE IInv'
  BY <1>5, SpendStep
<1>6. CASE UNCHANGED vars
  BY <1>6, Stuttering
<1> QED
  BY <1>1, <1>2, <1>3, <1>4, <1>5, <1>6 DEF Next

LEMMA Invariance == Spec => []IInv
BY Initially, Inductive, PTL DEF Spec

-----------------------------------------------------------------------------
(* The theorems. *)

\* Every variable stays within its type.
THEOREM TypeCorrect == Spec => []TypeOK
BY Invariance, PTL DEF IInv

\* However many webhooks, status checks and retries of one charge race, with
\* stale rows and handlers that die anywhere, it is booked at most once.
THEOREM BookedOnce == Spec => []ChargeBookedOnce
<1>1. IInv => ChargeBookedOnce
  BY DEF IInv, Global
<1> QED
  BY <1>1, Invariance, PTL

\* A provider is told "done" of a top-up only when the payment is linked to a
\* transaction, and a subscription is active only if its payment is.
THEOREM AnsweredLinked == Spec => []AnsweredIsLinked
<1>1. IInv => AnsweredIsLinked
  BY DEF IInv, Global
<1> QED
  BY <1>1, Invariance, PTL

\* The payment rows and the transactions table agree.
THEOREM RowsAgree == Spec => []LinkedIffBooked
<1>1. IInv => LinkedIffBooked
  BY DEF IInv, RowInv, Linked, LinkedIffBooked
<1> QED
  BY <1>1, Invariance, PTL

\* No credit, reward or purchase is lost from a balance.
THEOREM BalanceBooked == Spec => []BalanceIsBooked
<1>1. IInv => BalanceIsBooked
  BY DEF IInv, Global
<1> QED
  BY <1>1, Invariance, PTL

\* Racing purchases never take more than there is.
THEOREM NeverBelowZero == Spec => []NeverOverdrawn
<1>1. IInv => NeverOverdrawn
  BY DEF IInv, Global
<1> QED
  BY <1>1, Invariance, PTL

-----------------------------------------------------------------------------
(* Links are never taken back. *)

LinksStay == \A p \in Payment : row[p].txn # None => row'[p].txn # None

LEMMA RecordKeepsLinks ==
  ASSUME IInv, NEW s \in Session, ses[s].pc # "idle", Record(s)
  PROVE  LinksStay
BY Knows, RecordRows DEF LinksStay

LEMMA RecordIfHeldKeepsLinks ==
  ASSUME IInv, NEW s \in Session, ses[s].pc \in Commits, RecordIfHeld(s)
  PROVE  LinksStay
BY RecordIfHeldEffect DEF LinksStay, Steady

LEMMA LoadKeepsLinks ==
  ASSUME IInv, NEW s \in Session, NEW c \in Charge, NEW hook \in BOOLEAN, Load(s, c, hook)
  PROVE  LinksStay
<1> DEFINE p == ChargeOf[c]
<1> DEFINE x == [row[p] EXCEPT !.status = "succeeded", !.paid = TRUE]
<1>1. row \in [Payment -> Row]
  BY DEF IInv, TypeOK
<1>2. row' = row \/ row' = [row EXCEPT ![p] = x]
  BY DEF Load
<1>3. x.txn = row[p].txn
  <2>1. row[p] \in Row
    BY <1>1, PaymentAssumption
  <2> HIDE DEF p
  <2> QED
    BY <2>1 DEF Row
<1> HIDE DEF x
<1> QED
  BY <1>1, <1>2, <1>3 DEF LinksStay

LEMMA SkipKeepsLinks ==
  ASSUME IInv, NEW s \in Session, SkipProcessed(s)
  PROVE  LinksStay
<1> DEFINE p == Pay(s)
<1> DEFINE x == [row[p] EXCEPT !.status = "succeeded"]
<1>1. row \in [Payment -> Row] /\ p \in Payment
  BY Knows DEF TypeOK, SkipProcessed
<1>2. row' = row \/ row' = [row EXCEPT ![p] = x]
  BY DEF SkipProcessed
<1>3. x.txn = row[p].txn
  <2>1. row[p] \in Row
    BY <1>1
  <2> HIDE DEF p
  <2> QED
    BY <2>1 DEF Row
<1> HIDE DEF x
<1> QED
  BY <1>1, <1>2, <1>3 DEF LinksStay

LEMMA DeclineKeepsLinks ==
  ASSUME IInv, NEW p \in Payment, Decline(p)
  PROVE  LinksStay
<1> DEFINE x == [row[p] EXCEPT !.status = "failed",
                               !.paid = IF Provider[p] = "cloudpayments" THEN @ ELSE FALSE]
<1>1. row \in [Payment -> Row] /\ row' = [row EXCEPT ![p] = x] /\ row[p] \in Row
  BY DEF Decline, IInv, TypeOK
<1>2. x.txn = row[p].txn
  BY <1>1 DEF Row
<1> HIDE DEF x
<1> QED
  BY <1>1, <1>2 DEF LinksStay

LEMMA HandleKeepsLinks ==
  ASSUME IInv, NEW s \in Session, Handle(s)
  PROVE  LinksStay
<1>1. CASE Credit(s)
  BY <1>1, RecordKeepsLinks DEF Credit
<1>2. CASE FirstTopUp(s)
  BY <1>2, RecordIfHeldKeepsLinks DEF FirstTopUp, Commits
<1>3. CASE PayCommission(s)
  BY <1>3, RecordIfHeldKeepsLinks DEF PayCommission, Commits
<1>4. CASE Activate(s) \/ Finish(s)
  BY <1>4, RecordIfHeldKeepsLinks DEF Activate, Finish, Commits
<1>5. CASE SkipProcessed(s)
  BY <1>5, SkipKeepsLinks
<1>6. CASE LockRow(s) \/ Collide(s) \/ NoReferrer(s) \/ PayBonus(s) \/ PayInviter(s)
  <2>1. row' = row
    BY <1>6 DEF LockRow, Collide, NoReferrer, PayBonus, PayInviter
  <2> QED
    BY <2>1 DEF LinksStay
<1> QED
  BY <1>1, <1>2, <1>3, <1>4, <1>5, <1>6 DEF Handle

LEMMA StepKeepsLinks == IInv /\ [Next]_vars => LinksStay
<1> SUFFICES ASSUME IInv, [Next]_vars PROVE LinksStay
  OBVIOUS
<1>1. CASE row' = row
  BY <1>1 DEF LinksStay
<1>2. ASSUME NEW p \in Payment, Decline(p) PROVE LinksStay
  BY <1>2, DeclineKeepsLinks
<1>3. ASSUME NEW s \in Session, NEW c \in Charge, Webhook(s, c) \/ Check(s, c)
      PROVE  LinksStay
  BY <1>3, LoadKeepsLinks DEF Webhook, Check
<1>4. ASSUME NEW s \in Session, Handle(s) PROVE LinksStay
  BY <1>4, HandleKeepsLinks
<1>5. ASSUME NEW s \in Session, Fail(s) \/ Swallow(s) \/ Abort(s) PROVE row' = row
  BY <1>5 DEF Fail, Swallow, Abort
<1>6. ASSUME NEW c \in Charge, Confirm(c) PROVE row' = row
  BY <1>6 DEF Confirm
<1>7. ASSUME NEW u \in User, Spend(u) PROVE row' = row
  BY <1>7 DEF Spend
<1>8. CASE UNCHANGED vars
  BY <1>1, <1>8 DEF vars
<1> QED
  BY <1>1, <1>2, <1>3, <1>4, <1>5, <1>6, <1>7, <1>8 DEF Next

\* What was credited stays recognisable as credited, whatever notices come late.
THEOREM LinkKept == Spec => LinkIsKept
<1>1. IInv /\ [Next]_vars => [\A p \in Payment : row[p].txn # None => row'[p].txn # None]_vars
  BY StepKeepsLinks DEF LinksStay
<1> QED
  BY <1>1, Invariance, PTL DEF Spec, LinkIsKept

-----------------------------------------------------------------------------
(* The handlers implement the wallet. *)

Booked == {c \in Charge : txns[c] > 0}
Worth == [c \in Charge |-> IF ChargeOf[c] \in Direct THEN 0 ELSE Amount[ChargeOf[c]]]
Holder == [c \in Charge |-> Owner[ChargeOf[c]]]

LEMMA WalletInit == Init => Abstract!Init
BY DEF Init, Abstract!Init

\* A step that books nothing and moves no balance is a stutter of the wallet.
LEMMA Aside ==
  ASSUME UNCHANGED <<txns, balance>>
  PROVE  UNCHANGED <<Booked, balance>>
BY DEF Booked

LEMMA BookedByRecord ==
  ASSUME TypeOK, NEW s \in Session, ses[s].c \in Charge, txns[ses[s].c] = 0, Record(s)
  PROVE  ses[s].c \in Charge \ Booked /\ Booked' = Booked \cup {ses[s].c}
<1>1. /\ txns \in [Charge -> Nat] /\ txns' \in [Charge -> Nat]
      /\ txns'[ses[s].c] = 1 /\ \A d \in Charge \ {ses[s].c} : txns'[d] = txns[d]
  BY RecordEffect DEF TypeOK
<1> QED
  BY <1>1 DEF Booked

LEMMA WalletCredit ==
  ASSUME IInv, NEW s \in Session, Credit(s)
  PROVE  Abstract!Next
<1>1. ses[s].pc = "credit" /\ ~Taken(ses[s].c) /\ Record(s)
  BY DEF Credit
<1>2. TypeOK /\ ses[s].c \in Charge /\ Pay(s) \in Payment /\ SessionInv(s) /\ Payer(s) \in User
  BY <1>1, Knows
<1>3. Pay(s) \notin Direct /\ txns[ses[s].c] = 0
  BY <1>1, <1>2 DEF SessionInv, Crediting, Taken, TypeOK
<1>4. ses[s].c \in Charge \ Booked /\ Booked' = Booked \cup {ses[s].c}
  BY <1>1, <1>2, <1>3, BookedByRecord
<1>5. balance' = [balance EXCEPT ![Payer(s)] = balance[Payer(s)] + Amount[Pay(s)]]
  BY DEF Credit, Funds
<1>6. Worth[ses[s].c] = Amount[Pay(s)] /\ Holder[ses[s].c] = Payer(s)
  BY <1>2, <1>3 DEF Worth, Holder, Payer, Pay
<1>7. \E c \in Charge : Abstract!Book(c)
  BY <1>2, <1>4, <1>5, <1>6 DEF Abstract!Book, Booked, Worth, Holder
<1> QED
  BY <1>7 DEF Abstract!Next

\* A Direct payment is booked with whatever the first commit grants.
LEMMA WalletDirect ==
  ASSUME IInv, NEW s \in Session, ses[s].pc \in Commits, RecordIfHeld(s),
         NEW u \in User, NEW r \in AllRewards, balance' = [balance EXCEPT ![u] = @ + r]
  PROVE  Abstract!Next
<1>1. TypeOK /\ ses[s].c \in Charge /\ Pay(s) \in Payment /\ SessionInv(s)
  BY Knows DEF Commits
<1>2. CASE Holds(s)
  <2>1. Pay(s) \in Direct /\ txns[ses[s].c] = 0 /\ Record(s)
    BY <1>1, <1>2 DEF SessionInv, Recording, Holds, RecordIfHeld
  <2>2. ses[s].c \in Charge \ Booked /\ Booked' = Booked \cup {ses[s].c}
    BY <1>1, <2>1, BookedByRecord
  <2>3. Worth[ses[s].c] = 0
    BY <1>1, <2>1 DEF Worth, Pay
  <2>4. Abstract!BookWithReward(ses[s].c, u, r)
    BY <2>2, <2>3 DEF Abstract!BookWithReward, Booked, Worth
  <2> QED
    BY <1>1, <2>4 DEF Abstract!Next
<1>3. CASE ~Holds(s)
  <2>1. Booked' = Booked
    BY <1>3 DEF RecordIfHeld, Booked
  <2>2. Abstract!Grant(u, r)
    BY <2>1 DEF Abstract!Grant, Booked
  <2> QED
    BY <2>2 DEF Abstract!Next
<1> QED
  BY <1>2, <1>3

\* Nothing granted is a reward of zero.
LEMMA WalletNoReward ==
  ASSUME IInv, NEW s \in Session, ses[s].pc \in Commits, RecordIfHeld(s),
         UNCHANGED balance
  PROVE  Abstract!Next
<1>1. Payer(s) \in User /\ balance \in [User -> Int]
  BY Knows DEF TypeOK, Commits
<1>2. balance' = [balance EXCEPT ![Payer(s)] = @ + 0]
  BY <1>1
<1>3. 0 \in AllRewards
  BY DEF AllRewards
<1> QED
  BY <1>1, <1>2, <1>3, WalletDirect

LEMMA WalletReward ==
  ASSUME UNCHANGED txns, NEW u \in User, NEW r \in AllRewards, Grant(u, r)
  PROVE  Abstract!Next
<1>1. Abstract!Grant(u, r)
  BY Aside DEF Grant, Abstract!Grant, Booked
<1> QED
  BY <1>1 DEF Abstract!Next

LEMMA WalletHandle ==
  ASSUME IInv, NEW s \in Session, Handle(s)
  PROVE  Abstract!Next \/ UNCHANGED <<Booked, balance>>
<1>1. CASE Credit(s)
  BY <1>1, WalletCredit
<1>2. CASE FirstTopUp(s)
  BY <1>2, WalletNoReward DEF FirstTopUp, Commits, money
<1>3. CASE PayCommission(s)
  <2>1. Inviter(s) \in User /\ Commission \in AllRewards
    BY <1>3, Knows DEF PayCommission, AllRewards
  <2> QED
    BY <1>3, <2>1, WalletDirect DEF PayCommission, Commits, Grant
<1>4. CASE Activate(s) \/ Finish(s)
  BY <1>4, WalletNoReward DEF Activate, Finish, Commits, money
<1>5. CASE PayBonus(s)
  <2>1. Payer(s) \in User /\ FirstBonus \in AllRewards
    BY <1>5, Knows DEF PayBonus, AllRewards
  <2> QED
    BY <1>5, <2>1, WalletReward DEF PayBonus
<1>6. CASE PayInviter(s)
  <2>1. Inviter(s) \in User /\ InviterBonus \in AllRewards
    BY <1>6, Knows DEF PayInviter, AllRewards, SessionInv, Inviting
  <2> QED
    BY <1>6, <2>1, WalletReward DEF PayInviter
<1>7. CASE SkipProcessed(s) \/ LockRow(s) \/ Collide(s) \/ NoReferrer(s)
  <2>1. UNCHANGED <<txns, balance>>
    BY <1>7 DEF SkipProcessed, LockRow, Collide, NoReferrer, money
  <2> QED
    BY <2>1, Aside
<1> QED
  BY <1>1, <1>2, <1>3, <1>4, <1>5, <1>6, <1>7 DEF Handle

LEMMA WalletStep == IInv /\ [Next]_vars => Abstract!Next \/ UNCHANGED <<Booked, balance>>
<1> SUFFICES ASSUME IInv, [Next]_vars
             PROVE  Abstract!Next \/ UNCHANGED <<Booked, balance>>
  OBVIOUS
<1>1. CASE UNCHANGED <<txns, balance>>
  BY <1>1, Aside
<1>2. ASSUME NEW s \in Session, Handle(s)
      PROVE  Abstract!Next \/ UNCHANGED <<Booked, balance>>
  BY <1>2, WalletHandle
<1>3. ASSUME NEW u \in User, Spend(u)
      PROVE  Abstract!Next
  <2>1. Abstract!Spend(u)
    BY <1>3 DEF Spend, Sufficient, Abstract!Spend
  <2> QED
    BY <2>1 DEF Abstract!Next
<1>4. ASSUME NEW s \in Session, NEW c \in Charge, Webhook(s, c) \/ Check(s, c)
      PROVE  UNCHANGED <<txns, balance>>
  BY <1>4 DEF Webhook, Check, Load, money
<1>5. ASSUME NEW s \in Session, Fail(s) \/ Swallow(s) \/ Abort(s)
      PROVE  UNCHANGED <<txns, balance>>
  BY <1>5 DEF Fail, Swallow, Abort, money
<1>6. ASSUME NEW c \in Charge, Confirm(c)
      PROVE  UNCHANGED <<txns, balance>>
  BY <1>6 DEF Confirm, money
<1>7. ASSUME NEW p \in Payment, Decline(p)
      PROVE  UNCHANGED <<txns, balance>>
  BY <1>7 DEF Decline, money
<1>8. CASE UNCHANGED vars
  BY <1>1, <1>8 DEF vars, money
<1> QED
  BY <1>1, <1>2, <1>3, <1>4, <1>5, <1>6, <1>7, <1>8 DEF Next

\* The handlers of all providers, with their locks, stale rows and crashes,
\* implement the wallet: a charge is booked once and credited as it is booked.
THEOREM WalletImplemented == Spec => ImplementsWallet
<1>1. IInv /\ [Next]_vars => [Abstract!Next]_<<{c \in Charge : txns[c] > 0}, balance>>
  BY WalletStep DEF Booked
<1> QED
  BY <1>1, WalletInit, Invariance, PTL DEF Spec, ImplementsWallet, Abstract!Spec
=============================================================================
