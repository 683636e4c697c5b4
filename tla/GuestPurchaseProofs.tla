------------------------ MODULE GuestPurchaseProofs ------------------------
(***************************************************************************)
(* Proofs about GuestPurchase and GuestPurchaseHistory, for every set of   *)
(* purchases and recipients, every finite set of sessions and every bound: *)
(* the type invariant, the safety invariants of the rows, that no purchase *)
(* is put back in line, and what the history says of grants, periods and   *)
(* amounts, all of them however the handlers interleave and break off.     *)
(*                                                                         *)
(* IInv is the inductive invariant.  SessionInv says what a handler still  *)
(* knows of its row at each of its steps, after it has given up the lock   *)
(* it read it under; Steady says what every step of a handler leaves to    *)
(* the others, so that a step is checked against its own session only.     *)
(* HInv, on top of it, counts the handlers that are going to grant         *)
(* (GrantInv) and those that have read the subscription (DaysInv); Acts    *)
(* says what a step is to the one purchase and the one recipient it is     *)
(* about, so that each bound is checked against four kinds of step.        *)
(***************************************************************************)
EXTENDS GuestPurchaseHistory, FiniteSetTheorems, TLAPS

-----------------------------------------------------------------------------
(* The inductive invariant. *)

\* The purchase is past its payment: it can only move on.
Late(p) == status[p] \notin {"absent", "pending"}

\* The steps of a handler past its own check of the status.
Working == {"count", "fulfil", "read", "decide", "deliver", "extend", "panel", "finish"}

\* A handler works on a row that exists.
OnRow(s) == ses[s].pc # "idle" => ses[s].p \in Purchase /\ status[ses[s].p] # "absent"

\* A webhook runs after the provider's payment was committed, and only it
\* claims and rescues.
WebhookPaid(s) ==
  ses[s].pc # "idle" =>
    /\ ses[s].kind = "webhook" => moneyIn[ses[s].p] /\ ses[s].p \notin FromBalance
    /\ ses[s].pc \in {"claim", "rescue"} => ses[s].kind = "webhook"

\* Who marks a balance gift paid finds it pending.
Marking(s) ==
  ses[s].pc = "mark" =>
    /\ ses[s].kind = "balance" /\ ses[s].p \in FromBalance
    /\ status[ses[s].p] = "pending" /\ moneyIn[ses[s].p]

\* Whoever but a webhook is past its checks works on a late purchase.
PastPending(s) ==
  ses[s].pc # "idle" =>
    /\ ses[s].kind # "webhook" /\ ses[s].pc \in Working => Late(ses[s].p)
    /\ ses[s].kind = "exhaust" => Late(ses[s].p)
    /\ ses[s].kind = "callback" /\ ses[s].mem \in {"paid", "pending_activation"}
         => Late(ses[s].p)

\* The lock taken to fulfil is kept up to the first commit, and while a
\* webhook keeps it the row is still pending or paid.
Locking(s) ==
  /\ ses[s].pc = "read" => lock[ses[s].p] = s
  /\ /\ ses[s].kind = "webhook" /\ ses[s].pc \in {"read", "decide"}
     /\ lock[ses[s].p] = s
     => status[ses[s].p] \in {"pending", "paid"}

\* The period is committed before DELIVERED is written, or owed to it.
HasGranted(s) ==
  ses[s].pc = "deliver" \/ (ses[s].pc = "finish" /\ ~ses[s].owes)
    => granted[ses[s].p] > 0
Owing(s) == ses[s].pc = "panel" => ses[s].owes

\* Only the monitoring loop counts, below the limit.
Counting(s) ==
  ses[s].pc = "count" =>
    /\ s = Monitor /\ ses[s].kind \in {"retryPaid", "retryHeld"}
    /\ retryCount[ses[s].p] < MaxRetries

SessionInv(s) ==
  /\ OnRow(s) /\ WebhookPaid(s) /\ Marking(s) /\ PastPending(s)
  /\ Locking(s) /\ HasGranted(s) /\ Owing(s) /\ Counting(s)

OneMarker ==
  \A s, t \in Session :
    ses[s].pc = "mark" /\ ses[t].pc = "mark" /\ ses[s].p = ses[t].p => s = t

RowInv(p) ==
  /\ Late(p) \/ granted[p] > 0 => moneyIn[p]
  /\ status[p] = "delivered" => granted[p] > 0
  /\ status[p] = "pending_activation" => linked[p]
  /\ linked[p] => status[p] # "absent"
  /\ retryCount[p] <= MaxRetries

IInv ==
  /\ TypeOK /\ OneMarker
  /\ \A s \in Session : SessionInv(s)
  /\ \A p \in Purchase : RowInv(p)

-----------------------------------------------------------------------------
(* One handler at a time. *)

\* Only session s moves, and stays well typed.
Moves(s) ==
  /\ ses' \in [Session -> SessionState]
  /\ \A t \in Session \ {s} : ses'[t] = ses[t]

\* What a step of s leaves to the other handlers.
Steady(s) ==
  /\ \A p \in Purchase :
       /\ status[p] # "absent" => status'[p] # "absent"
       /\ Late(p) => Late(p)'
       /\ moneyIn[p] => moneyIn'[p]
       /\ granted[p] > 0 => granted'[p] > 0
       /\ s # Monitor => retryCount'[p] = retryCount[p]
       /\ lock[p] \notin {None, s} =>
            lock'[p] = lock[p] /\ (status[p] # "absent" => status'[p] = status[p])
       /\ lock'[p] \in {None, s, lock[p]}
  /\ \A t \in Session \ {s} : ses[t].pc = "mark" =>
       /\ status'[ses[t].p] = "pending"
       /\ ~(ses'[s].pc = "mark" /\ ses'[s].p = ses[t].p)

\* A step that keeps to Steady need only look after its own session and rows.
LEMMA Framing ==
  ASSUME IInv, TypeOK', NEW s \in Session, Moves(s), Steady(s), SessionInv(s)',
         \A p \in Purchase : RowInv(p)'
  PROVE  IInv'
<1>1. OneMarker'
  BY DEF IInv, OneMarker, Moves, Steady
<1>2. ASSUME NEW t \in Session \ {s} PROVE SessionInv(t)'
  <2>1. ses'[t] = ses[t] /\ SessionInv(t) /\ (ses[t].pc # "idle" => ses[t].p \in Purchase)
    BY DEF IInv, Moves, SessionInv, OnRow
  <2>2. OnRow(t)' /\ WebhookPaid(t)' /\ PastPending(t)'
    BY <2>1 DEF Steady, SessionInv, OnRow, WebhookPaid, PastPending
  <2>3. Marking(t)'
    BY <2>1 DEF Steady, SessionInv, Marking
  <2>4. Locking(t)'
    BY <2>1, NoneAssumption DEF Steady, SessionInv, Locking, OnRow
  <2>5. HasGranted(t)'
    BY <2>1 DEF Steady, SessionInv, HasGranted
  <2>6. Counting(t)'
    BY <2>1 DEF Steady, SessionInv, Counting
  <2>7. Owing(t)'
    BY <2>1 DEF SessionInv, Owing
  <2> QED
    BY <2>2, <2>3, <2>4, <2>5, <2>6, <2>7 DEF SessionInv
<1> QED
  BY <1>1, <1>2 DEF IInv

-----------------------------------------------------------------------------
(* What the session operators do, with the records taken apart. *)


\* Session s keeps its purchase and what it remembers of it.
Continues(s) ==
  /\ Moves(s)
  /\ ses'[s].p = ses[s].p /\ ses'[s].kind = ses[s].kind /\ ses'[s].mem = ses[s].mem

LEMMA IdleType == Idle \in SessionState
  BY NoneAssumption
     DEF Idle, NoSub, SessionState, Kind, PC, Saw, Status, MonitorKind, PersonKind

LEMMA GotoEffect ==
  ASSUME TypeOK, NEW s \in Session, NEW c \in PC, Goto(s, c)
  PROVE  Continues(s) /\ ses'[s].pc = c /\ ses'[s].owes = ses[s].owes
  BY DEF TypeOK, Goto, Continues, Moves, SessionState

LEMMA BeginEffect ==
  ASSUME TypeOK, NEW s \in Session, NEW p \in Purchase, NEW k \in Kind, NEW c \in PC,
         Begin(s, k, p, c)
  PROVE  /\ Moves(s) /\ ses[s].pc = "idle"
         /\ ses'[s].kind = k /\ ses'[s].p = p /\ ses'[s].pc = c
         /\ ses'[s].mem = "absent" /\ ses'[s].owes = FALSE
<1> DEFINE x == [Idle EXCEPT !.kind = k, !.p = p, !.pc = c]
<1>1. x \in SessionState
  BY IdleType DEF SessionState
<1>2. /\ x.kind = k /\ x.p = p /\ x.pc = c /\ x.mem = "absent" /\ x.owes = FALSE
  BY DEF Idle
<1>3. ses[s] = Idle /\ ses' = [ses EXCEPT ![s] = x]
  BY DEF Begin
<1> HIDE DEF x
<1>4. Moves(s) /\ ses'[s] = x
  BY <1>1, <1>3 DEF TypeOK, Moves
<1> QED
  BY <1>2, <1>3, <1>4 DEF Idle

LEMMA EndEffect ==
  ASSUME TypeOK, NEW s \in Session, End(s)
  PROVE  Moves(s) /\ ses'[s].pc = "idle"
  BY IdleType DEF TypeOK, End, Moves, Idle

LEMMA ReleaseEffect ==
  ASSUME TypeOK, NEW s \in Session, Release(s)
  PROVE  /\ lock' \in [Purchase -> Session \cup {None}]
         /\ \A p \in Purchase : lock'[p] = IF lock[p] = s THEN None ELSE lock[p]
  BY DEF TypeOK, Release

LEMMA AcquireEffect ==
  ASSUME TypeOK, NEW s \in Session, NEW p \in Purchase, Acquire(s, p)
  PROVE  /\ lock' \in [Purchase -> Session \cup {None}]
         /\ lock[p] = None /\ lock'[p] = s
         /\ \A q \in Purchase \ {p} : lock'[q] = lock[q]
  BY DEF TypeOK, Acquire, Free

LEMMA SpendType ==
  ASSUME TypeOK, NEW w \in Bounded, NEW n \in Nat, Spend(w, n)
  PROVE  used' \in [Bounded -> Nat]
  BY DEF TypeOK, Spend

LEMMA GrantEffect ==
  ASSUME TypeOK, NEW p \in Purchase, NEW n \in Nat, Grant(p, n)
  PROVE  /\ subStatus' \in [Slot -> {"none", "active", "expired"}]
         /\ days' \in [Slot -> Nat] /\ granted' \in [Purchase -> Nat]
         /\ granted'[p] > 0
         /\ \A q \in Purchase \ {p} : granted'[q] = granted[q]
<1>1. Recipient[p] \in Slot
  BY RecipientAssumption
<1>2. subStatus' \in [Slot -> {"none", "active", "expired"}] /\ days' \in [Slot -> Nat]
  BY <1>1 DEF TypeOK, Grant
<1>3. granted[p] \in Nat /\ granted' = [granted EXCEPT ![p] = granted[p] + 1]
  BY DEF TypeOK, Grant
<1>4. granted[p] + 1 \in Nat /\ granted[p] + 1 > 0
  BY <1>3
<1> QED
  BY <1>2, <1>3, <1>4 DEF TypeOK

\* Nobody else works on the row that is being marked paid, except to look.
LEMMA MarkerAlone ==
  ASSUME IInv, NEW s \in Session, NEW t \in Session \ {s},
         ses[t].pc = "mark", ses[s].pc # "idle", ses[s].p = ses[t].p
  PROVE  /\ ses[s].kind # "webhook" /\ ses[s].kind # "exhaust"
         /\ ses[s].pc \notin Working \cup {"mark", "claim", "rescue"}
<1>1. SessionInv(s) /\ SessionInv(t)
  BY DEF IInv
<1>2. ses[s].pc # "mark"
  BY DEF IInv, OneMarker
<1> QED
  BY <1>1, <1>2 DEF SessionInv, WebhookPaid, Marking, PastPending, Late, Working

\* What a busy handler knows.
LEMMA Knows ==
  ASSUME IInv, NEW s \in Session, ses[s].pc # "idle"
  PROVE  TypeOK /\ SessionInv(s) /\ ses[s].p \in Purchase /\ RowInv(ses[s].p)
  BY DEF IInv, SessionInv, OnRow

LEMMA BuyFromBalanceStep ==
  ASSUME IInv, NEW s \in Session, NEW p \in Purchase, BuyFromBalance(s, p)
  PROVE  IInv'
<1>1. TypeOK /\ SessionInv(s) /\ RowInv(p)
  BY DEF IInv
<1>2. /\ Moves(s) /\ ses[s].pc = "idle"
     /\ ses'[s].kind = "balance" /\ ses'[s].p = p /\ ses'[s].pc = "mark"
     /\ ses'[s].mem = "absent" /\ ses'[s].owes = FALSE
  BY <1>1, BeginEffect DEF BuyFromBalance, Kind, MonitorKind, PersonKind, PC
<1>3. \A t \in Session : ses[t].pc = "mark" =>
       ses[t].p \in Purchase \ {p} /\ status[ses[t].p] = "pending"
  BY <1>1 DEF BuyFromBalance, IInv, SessionInv, OnRow, Marking
<1>4. TypeOK'
  BY <1>1, <1>2, <1>3 DEF BuyFromBalance, Moves, TypeOK, Status, subVars, ghosts
<1>5. Steady(s)
  BY <1>1, <1>2, <1>3 DEF BuyFromBalance, Moves, Steady, TypeOK, Late, subVars, ghosts
<1>6. SessionInv(s)'
  BY <1>1, <1>2, <1>3
     DEF BuyFromBalance, Moves, SessionInv, OnRow, WebhookPaid, Marking, PastPending, Locking,
         HasGranted, Owing, Counting, Late, Working, TypeOK, subVars, ghosts
<1>7. \A q \in Purchase : RowInv(q)'
  BY <1>1, <1>2, <1>3 DEF BuyFromBalance, RowInv, Late, TypeOK, subVars, ghosts, IInv
<1> QED
  BY <1>1, <1>2, <1>3, <1>4, <1>5, <1>6, <1>7, Framing DEF Continues

LEMMA MarkPaidStep ==
  ASSUME IInv, NEW s \in Session, MarkPaid(s)
  PROVE  IInv'
<1>1. TypeOK /\ SessionInv(s) /\ ses[s].p \in Purchase /\ RowInv(ses[s].p)
  BY Knows DEF MarkPaid
<1>2. End(s) \/ Goto(s, "fulfil")
  BY <1>1 DEF MarkPaid
<1>3. Moves(s) /\ (ses'[s].pc = "idle" \/ (ses'[s].pc = "fulfil" /\ Continues(s)))
  <2>1. CASE End(s)
    BY <1>1, <2>1, EndEffect
  <2>2. CASE Goto(s, "fulfil")
    BY <1>1, <2>2, GotoEffect DEF PC, Continues
  <2> QED
    BY <1>2, <2>1, <2>2
<1>4. TypeOK'
  BY <1>1, <1>2, <1>3 DEF MarkPaid, CanWrite, Continues, Moves, TypeOK, Status, subVars, ghosts
<1>5. Steady(s)
  BY <1>1, <1>2, <1>3, MarkerAlone
     DEF MarkPaid, CanWrite, Continues, Moves, Steady, TypeOK, SessionInv, OnRow, WebhookPaid,
         Marking, PastPending, Locking, HasGranted, Owing, Counting, Late, Working, subVars,
         ghosts, IInv
<1>6. SessionInv(s)'
  BY <1>1, <1>2, <1>3
     DEF MarkPaid, CanWrite, Continues, Moves, SessionInv, OnRow, WebhookPaid, Marking,
         PastPending, Locking, HasGranted, Owing, Counting, Late, Working, TypeOK, subVars, ghosts
<1>7. \A q \in Purchase : RowInv(q)'
  BY <1>1, <1>2, <1>3
     DEF MarkPaid, CanWrite, RowInv, Late, Working, SessionInv, OnRow, WebhookPaid, Marking,
         PastPending, HasGranted, TypeOK, subVars, ghosts, IInv
<1> QED
  BY <1>1, <1>2, <1>3, <1>4, <1>5, <1>6, <1>7, Framing DEF Continues

LEMMA FulfilLockStep ==
  ASSUME IInv, NEW s \in Session, FulfilLock(s)
  PROVE  IInv'
<1>1. TypeOK /\ SessionInv(s) /\ ses[s].p \in Purchase /\ RowInv(ses[s].p)
  BY Knows DEF FulfilLock
<1>2. lock[ses[s].p] = None /\ ((End(s) /\ lock' = lock) \/ (Fulfillable(s) /\ Goto(s, "read") /\ Acquire(s, ses[s].p)))
  <2>1. CASE Fulfillable(s)
    BY <2>1 DEF FulfilLock, Acquire, Free
  <2>2. CASE ~Fulfillable(s)
    BY <2>2 DEF FulfilLock, Free
  <2> QED
    BY <2>1, <2>2
<1>3. lock' \in [Purchase -> Session \cup {None}] /\ \A q \in Purchase \ {ses[s].p} : lock'[q] = lock[q]
  BY <1>1, <1>2, AcquireEffect DEF FulfilLock, TypeOK
<1>4. Moves(s)
  BY <1>1, <1>2, EndEffect, GotoEffect DEF FulfilLock, PC, Continues
<1>5. \/ ses'[s].pc = "idle" /\ lock' = lock
     \/ /\ Fulfillable(s) /\ lock'[ses[s].p] = s
        /\ Continues(s) /\ ses'[s].pc = "read" 
  BY <1>1, <1>2, EndEffect, GotoEffect, AcquireEffect DEF FulfilLock, PC
<1>6. TypeOK'
  BY <1>1, <1>2, <1>3, <1>4, <1>5
     DEF FulfilLock, Fulfillable, Continues, Moves, TypeOK, rowVars, subVars, ghosts
<1>7. Steady(s)
  BY <1>1, <1>2, <1>3, <1>4, <1>5, MarkerAlone
     DEF FulfilLock, Fulfillable, Continues, Moves, Steady, TypeOK, SessionInv, OnRow,
         WebhookPaid, Marking, PastPending, Locking, HasGranted, Owing, Counting, Late, Working,
         rowVars, subVars, ghosts, IInv
<1>8. SessionInv(s)'
  BY <1>1, <1>2, <1>3, <1>4, <1>5
     DEF FulfilLock, Fulfillable, Continues, Moves, SessionInv, OnRow, WebhookPaid, Marking,
         PastPending, Locking, HasGranted, Owing, Counting, Late, Working, rowVars, subVars,
         ghosts
<1>9. \A q \in Purchase : RowInv(q)'
  BY <1>1, <1>2, <1>3, <1>4, <1>5
     DEF FulfilLock, Fulfillable, RowInv, Late, TypeOK, rowVars, subVars, ghosts, IInv
<1> QED
  BY <1>1, <1>2, <1>3, <1>4, <1>5, <1>6, <1>7, <1>8, <1>9, Framing DEF Continues

LEMMA ActivateLockStep ==
  ASSUME IInv, NEW s \in Session, ActivateLock(s)
  PROVE  IInv'
<1>1. TypeOK /\ SessionInv(s) /\ ses[s].p \in Purchase /\ RowInv(ses[s].p)
  BY Knows DEF ActivateLock
<1>2. lock[ses[s].p] = None /\ ((End(s) /\ lock' = lock) \/ (Activatable(s) /\ Goto(s, "extend") /\ Acquire(s, ses[s].p)))
  <2>1. CASE Activatable(s)
    BY <2>1 DEF ActivateLock, Acquire, Free
  <2>2. CASE ~Activatable(s)
    BY <2>2 DEF ActivateLock, Free
  <2> QED
    BY <2>1, <2>2
<1>3. lock' \in [Purchase -> Session \cup {None}] /\ \A q \in Purchase \ {ses[s].p} : lock'[q] = lock[q]
  BY <1>1, <1>2, AcquireEffect DEF ActivateLock, TypeOK
<1>4. Moves(s)
  BY <1>1, <1>2, EndEffect, GotoEffect DEF ActivateLock, PC, Continues
<1>5. \/ ses'[s].pc = "idle" /\ lock' = lock
     \/ /\ Activatable(s) /\ lock'[ses[s].p] = s
        /\ Continues(s) /\ ses'[s].pc = "extend" 
  BY <1>1, <1>2, EndEffect, GotoEffect, AcquireEffect DEF ActivateLock, PC
<1>6. TypeOK'
  BY <1>1, <1>2, <1>3, <1>4, <1>5
     DEF ActivateLock, Activatable, Loaded, Continues, Moves, TypeOK, rowVars, subVars, ghosts
<1>7. Steady(s)
  BY <1>1, <1>2, <1>3, <1>4, <1>5, MarkerAlone
     DEF ActivateLock, Activatable, Loaded, Continues, Moves, Steady, TypeOK, SessionInv, OnRow,
         WebhookPaid, Marking, PastPending, Locking, HasGranted, Owing, Counting, Late, Working,
         rowVars, subVars, ghosts, IInv
<1>8. SessionInv(s)'
  BY <1>1, <1>2, <1>3, <1>4, <1>5
     DEF ActivateLock, Activatable, Loaded, Continues, Moves, SessionInv, OnRow, WebhookPaid,
         Marking, PastPending, Locking, HasGranted, Owing, Counting, Late, Working, rowVars,
         subVars, ghosts
<1>9. \A q \in Purchase : RowInv(q)'
  BY <1>1, <1>2, <1>3, <1>4, <1>5
     DEF ActivateLock, Activatable, Loaded, RowInv, Late, TypeOK, rowVars, subVars, ghosts, IInv
<1> QED
  BY <1>1, <1>2, <1>3, <1>4, <1>5, <1>6, <1>7, <1>8, <1>9, Framing DEF Continues

LEMMA ActivateExtendStep ==
  ASSUME IInv, NEW s \in Session, ActivateExtend(s)
  PROVE  IInv'
<1>1. TypeOK /\ SessionInv(s) /\ ses[s].p \in Purchase /\ RowInv(ses[s].p)
  BY Knows DEF ActivateExtend
<1>2. Seen(Recipient[ses[s].p]) \in Saw
  BY <1>1, RecipientAssumption DEF ActivateExtend, Seen, Saw, TypeOK
<1>3. /\ Moves(s) /\ ses'[s].pc = "panel" /\ ses'[s].p = ses[s].p
     /\ ses'[s].kind = ses[s].kind /\ ses'[s].mem = ses[s].mem /\ ses'[s].owes = TRUE
  <2> DEFINE x == [ses[s] EXCEPT !.pc = "panel", !.saw = Seen(Recipient[ses[s].p]), !.owes = TRUE]
  <2>1. ses[s] \in SessionState /\ ses' = [ses EXCEPT ![s] = x]
    BY <1>1 DEF ActivateExtend, TypeOK
  <2>2. x \in SessionState
    BY <1>1, <1>2, <2>1 DEF SessionState, PC
  <2>3. /\ x.p = ses[s].p /\ x.kind = ses[s].kind /\ x.mem = ses[s].mem
        /\ x.pc = "panel" /\ x.owes = TRUE
    BY <2>1 DEF SessionState
  <2> HIDE DEF x
  <2> QED
    BY <1>1, <2>1, <2>2, <2>3 DEF TypeOK, Moves
<1>4. /\ lock' \in [Purchase -> Session \cup {None}]
     /\ \A q \in Purchase : lock'[q] \in {lock[q], IF lock[q] = s THEN None ELSE lock[q]}
  BY <1>1, ReleaseEffect DEF ActivateExtend, TypeOK
<1>5. subStatus' \in [Slot -> {"none", "active", "expired"}]
  BY <1>1 DEF ActivateExtend, TypeOK
<1>6. status' \in [Purchase -> Status] /\ linked' \in [Purchase -> BOOLEAN]
  BY <1>1 DEF ActivateExtend, FlushHeld, Link, TypeOK, Status
<1>7. TypeOK'
  BY <1>1, <1>2, <1>3, <1>4, <1>5, <1>6
     DEF ActivateExtend, FlushHeld, Link, Holds, Moves, TypeOK, Status, ghosts
<1>8. Steady(s)
  BY <1>1, <1>2, <1>3, <1>4, <1>5, <1>6, MarkerAlone
     DEF ActivateExtend, FlushHeld, Link, Holds, Moves, Steady, TypeOK, SessionInv, OnRow,
         WebhookPaid, Marking, PastPending, Locking, HasGranted, Owing, Counting, Late, Working,
         ghosts, IInv
<1>9. SessionInv(s)'
  BY <1>1, <1>2, <1>3, <1>4, <1>5, <1>6
     DEF ActivateExtend, FlushHeld, Link, Holds, Moves, SessionInv, OnRow, WebhookPaid, Marking,
         PastPending, Locking, HasGranted, Owing, Counting, Late, Working, ghosts
<1>10. \A q \in Purchase : RowInv(q)'
  BY <1>1, <1>2, <1>3, <1>4, <1>5, <1>6
     DEF ActivateExtend, FlushHeld, Link, Holds, RowInv, Late, Working, SessionInv, OnRow,
         WebhookPaid, Marking, PastPending, HasGranted, TypeOK, ghosts, IInv
<1> QED
  BY <1>1, <1>2, <1>3, <1>4, <1>5, <1>6, <1>7, <1>8, <1>9, <1>10, Framing DEF Continues

LEMMA PanelCommitsStep ==
  ASSUME IInv, NEW s \in Session, PanelCommits(s)
  PROVE  IInv'
<1>1. TypeOK /\ SessionInv(s) /\ ses[s].p \in Purchase /\ RowInv(ses[s].p)
  BY Knows DEF PanelCommits
<1>2. /\ Moves(s) /\ ses'[s].pc = "finish" /\ ses'[s].p = ses[s].p
     /\ ses'[s].kind = ses[s].kind /\ ses'[s].mem = ses[s].mem /\ ses'[s].owes = FALSE
  <2> DEFINE x == [ses[s] EXCEPT !.pc = "finish", !.owes = FALSE]
  <2>1. ses[s] \in SessionState /\ ses' = [ses EXCEPT ![s] = x]
    BY <1>1 DEF PanelCommits, TypeOK
  <2>2. x \in SessionState
    BY <1>1, <2>1 DEF SessionState, PC
  <2>3. /\ x.p = ses[s].p /\ x.kind = ses[s].kind /\ x.mem = ses[s].mem
        /\ x.pc = "finish" /\ x.owes = FALSE
    BY <2>1 DEF SessionState
  <2> HIDE DEF x
  <2> QED
    BY <1>1, <2>1, <2>2, <2>3 DEF TypeOK, Moves
<1>3. NewDays(s) \in Nat
  BY <1>1 DEF PanelCommits, NewDays, TypeOK, SessionState, Saw
<1>4. /\ lock' \in [Purchase -> Session \cup {None}]
     /\ \A q \in Purchase : lock'[q] = IF lock[q] = s THEN None ELSE lock[q]
  BY <1>1, ReleaseEffect DEF PanelCommits
<1>5. /\ subStatus' \in [Slot -> {"none", "active", "expired"}]
     /\ days' \in [Slot -> Nat] /\ granted' \in [Purchase -> Nat]
     /\ granted'[ses[s].p] > 0
     /\ \A q \in Purchase \ {ses[s].p} : granted'[q] = granted[q]
  BY <1>1, GrantEffect, <1>3 DEF PanelCommits
<1>6. status' \in [Purchase -> Status] /\ linked' \in [Purchase -> BOOLEAN]
  BY <1>1 DEF PanelCommits, FlushHeld, Link, TypeOK, Status
<1>7. TypeOK'
  BY <1>1, <1>2, <1>3, <1>4, <1>5, <1>6
     DEF PanelCommits, FlushHeld, Link, Holds, Moves, TypeOK, Status
<1>8. Steady(s)
  BY <1>1, <1>2, <1>3, <1>4, <1>5, <1>6, MarkerAlone
     DEF PanelCommits, FlushHeld, Link, Holds, Moves, Steady, TypeOK, SessionInv, OnRow,
         WebhookPaid, Marking, PastPending, Locking, HasGranted, Owing, Counting, Late, Working,
         IInv
<1>9. SessionInv(s)'
  BY <1>1, <1>2, <1>3, <1>4, <1>5, <1>6
     DEF PanelCommits, FlushHeld, Link, Holds, Moves, SessionInv, OnRow, WebhookPaid, Marking,
         PastPending, Locking, HasGranted, Owing, Counting, Late, Working
<1>10. \A q \in Purchase : RowInv(q)'
  BY <1>1, <1>2, <1>3, <1>4, <1>5, <1>6
     DEF PanelCommits, FlushHeld, Link, Holds, RowInv, Late, Working, SessionInv, OnRow,
         WebhookPaid, Marking, PastPending, HasGranted, TypeOK, IInv
<1> QED
  BY <1>1, <1>2, <1>3, <1>4, <1>5, <1>6, <1>7, <1>8, <1>9, <1>10, Framing DEF Continues

LEMMA FulfilGrantStep ==
  ASSUME IInv, NEW s \in Session, FulfilGrant(s)
  PROVE  IInv'
<1>1. TypeOK /\ SessionInv(s) /\ ses[s].p \in Purchase /\ RowInv(ses[s].p)
  BY Knows DEF FulfilGrant
<1>2. Continues(s) /\ ses'[s].pc = "deliver" /\ ses'[s].owes = ses[s].owes
  BY <1>1, GotoEffect DEF FulfilGrant, PC
<1>3. /\ lock' \in [Purchase -> Session \cup {None}]
     /\ \A q \in Purchase : lock'[q] = IF lock[q] = s THEN None ELSE lock[q]
  BY <1>1, ReleaseEffect DEF FulfilGrant
<1>4. /\ subStatus' \in [Slot -> {"none", "active", "expired"}]
     /\ days' \in [Slot -> Nat] /\ granted' \in [Purchase -> Nat]
     /\ granted'[ses[s].p] > 0
     /\ \A q \in Purchase \ {ses[s].p} : granted'[q] = granted[q]
  BY <1>1, GrantEffect DEF FulfilGrant
<1>5. TypeOK'
  BY <1>1, <1>2, <1>3, <1>4 DEF FulfilGrant, FlushPaid, Holds, Continues, Moves, TypeOK, Status
<1>6. Steady(s)
  BY <1>1, <1>2, <1>3, <1>4, MarkerAlone
     DEF FulfilGrant, FlushPaid, Holds, Continues, Moves, Steady, TypeOK, SessionInv, OnRow,
         WebhookPaid, Marking, PastPending, Locking, HasGranted, Owing, Counting, Late, Working,
         IInv
<1>7. SessionInv(s)'
  BY <1>1, <1>2, <1>3, <1>4
     DEF FulfilGrant, FlushPaid, Holds, Continues, SessionInv, OnRow, WebhookPaid, Marking,
         PastPending, Locking, HasGranted, Owing, Counting, Late, Working, TypeOK
<1>8. \A q \in Purchase : RowInv(q)'
  BY <1>1, <1>2, <1>3, <1>4
     DEF FulfilGrant, FlushPaid, Holds, RowInv, Late, Working, SessionInv, OnRow, WebhookPaid,
         Marking, PastPending, HasGranted, TypeOK, IInv
<1> QED
  BY <1>1, <1>2, <1>3, <1>4, <1>5, <1>6, <1>7, <1>8, Framing DEF Continues

LEMMA FulfilHoldStep ==
  ASSUME IInv, NEW s \in Session, FulfilHold(s)
  PROVE  IInv'
<1>1. TypeOK /\ SessionInv(s) /\ ses[s].p \in Purchase /\ RowInv(ses[s].p)
  BY Knows DEF FulfilHold
<1>2. Moves(s) /\ ses'[s].pc = "idle"
  BY <1>1, EndEffect DEF FulfilHold
<1>3. /\ lock' \in [Purchase -> Session \cup {None}]
     /\ \A q \in Purchase : lock'[q] = IF lock[q] = s THEN None ELSE lock[q]
  BY <1>1, ReleaseEffect DEF FulfilHold
<1>4. TypeOK'
  BY <1>1, <1>2, <1>3 DEF FulfilHold, CanWrite, Link, Moves, TypeOK, Status, subVars
<1>5. Steady(s)
  BY <1>1, <1>2, <1>3, MarkerAlone
     DEF FulfilHold, CanWrite, Link, Moves, Steady, TypeOK, SessionInv, OnRow, WebhookPaid,
         Marking, PastPending, Locking, HasGranted, Owing, Counting, Late, Working, subVars, IInv
<1>6. SessionInv(s)'
  BY <1>1, <1>2, <1>3
     DEF FulfilHold, CanWrite, Link, Moves, SessionInv, OnRow, WebhookPaid, Marking,
         PastPending, Locking, HasGranted, Owing, Counting, Late, Working, subVars
<1>7. \A q \in Purchase : RowInv(q)'
  BY <1>1, <1>2, <1>3
     DEF FulfilHold, CanWrite, Link, RowInv, Late, Working, SessionInv, OnRow, WebhookPaid,
         Marking, PastPending, HasGranted, TypeOK, subVars, IInv
<1> QED
  BY <1>1, <1>2, <1>3, <1>4, <1>5, <1>6, <1>7, Framing DEF Continues

LEMMA FulfilDelistedStep ==
  ASSUME IInv, NEW s \in Session, FulfilDelisted(s)
  PROVE  IInv'
<1>1. TypeOK /\ SessionInv(s) /\ ses[s].p \in Purchase /\ RowInv(ses[s].p)
  BY Knows DEF FulfilDelisted
<1>2. Moves(s) /\ ses'[s].pc = "idle"
  BY <1>1, EndEffect DEF FulfilDelisted
<1>3. /\ lock' \in [Purchase -> Session \cup {None}]
     /\ \A q \in Purchase : lock'[q] = IF lock[q] = s THEN None ELSE lock[q]
  BY <1>1, ReleaseEffect DEF FulfilDelisted
<1>4. TypeOK'
  BY <1>1, <1>2, <1>3 DEF FulfilDelisted, Moves, TypeOK, Status, subVars, ghosts
<1>5. Steady(s)
  BY <1>1, <1>2, <1>3, MarkerAlone
     DEF FulfilDelisted, Moves, Steady, TypeOK, SessionInv, OnRow, WebhookPaid, Marking,
         PastPending, Locking, HasGranted, Owing, Counting, Late, Working, subVars, ghosts, IInv
<1>6. SessionInv(s)'
  BY <1>1, <1>2, <1>3
     DEF FulfilDelisted, Moves, SessionInv, OnRow, WebhookPaid, Marking, PastPending, Locking,
         HasGranted, Owing, Counting, Late, Working, subVars, ghosts
<1>7. \A q \in Purchase : RowInv(q)'
  BY <1>1, <1>2, <1>3
     DEF FulfilDelisted, RowInv, Late, Working, SessionInv, OnRow, WebhookPaid, Marking,
         PastPending, HasGranted, TypeOK, subVars, ghosts, IInv
<1> QED
  BY <1>1, <1>2, <1>3, <1>4, <1>5, <1>6, <1>7, Framing DEF Continues

LEMMA FulfilDeliverStep ==
  ASSUME IInv, NEW s \in Session, FulfilDeliver(s)
  PROVE  IInv'
<1>1. TypeOK /\ SessionInv(s) /\ ses[s].p \in Purchase /\ RowInv(ses[s].p)
  BY Knows DEF FulfilDeliver
<1>2. Moves(s) /\ ses'[s].pc = "idle"
  BY <1>1, EndEffect DEF FulfilDeliver
<1>3. /\ lock' \in [Purchase -> Session \cup {None}]
     /\ \A q \in Purchase : lock'[q] = IF lock[q] = s THEN None ELSE lock[q]
  BY <1>1, ReleaseEffect DEF FulfilDeliver
<1>4. TypeOK'
  BY <1>1, <1>2, <1>3 DEF FulfilDeliver, CanWrite, Link, Moves, TypeOK, Status, subVars
<1>5. Steady(s)
  BY <1>1, <1>2, <1>3, MarkerAlone
     DEF FulfilDeliver, CanWrite, Link, Moves, Steady, TypeOK, SessionInv, OnRow, WebhookPaid,
         Marking, PastPending, Locking, HasGranted, Owing, Counting, Late, Working, subVars, IInv
<1>6. SessionInv(s)'
  BY <1>1, <1>2, <1>3
     DEF FulfilDeliver, CanWrite, Link, Moves, SessionInv, OnRow, WebhookPaid, Marking,
         PastPending, Locking, HasGranted, Owing, Counting, Late, Working, subVars
<1>7. \A q \in Purchase : RowInv(q)'
  BY <1>1, <1>2, <1>3
     DEF FulfilDeliver, CanWrite, Link, RowInv, Late, Working, SessionInv, OnRow, WebhookPaid,
         Marking, PastPending, HasGranted, TypeOK, subVars, IInv
<1> QED
  BY <1>1, <1>2, <1>3, <1>4, <1>5, <1>6, <1>7, Framing DEF Continues

LEMMA ClaimMismatchStep ==
  ASSUME IInv, NEW s \in Session, ClaimMismatch(s)
  PROVE  IInv'
<1>1. TypeOK /\ SessionInv(s) /\ ses[s].p \in Purchase /\ RowInv(ses[s].p)
  BY Knows DEF ClaimMismatch
<1>2. Moves(s) /\ ses'[s].pc = "idle"
  BY <1>1, EndEffect DEF ClaimMismatch
<1>3. TypeOK'
  BY <1>1, <1>2 DEF ClaimMismatch, Free, Moves, TypeOK, Status, subVars, ghosts
<1>4. Steady(s)
  BY <1>1, <1>2, MarkerAlone
     DEF ClaimMismatch, Free, Moves, Steady, TypeOK, SessionInv, OnRow, WebhookPaid, Marking,
         PastPending, Locking, HasGranted, Owing, Counting, Late, Working, subVars, ghosts, IInv
<1>5. SessionInv(s)'
  BY <1>1, <1>2
     DEF ClaimMismatch, Free, Moves, SessionInv, OnRow, WebhookPaid, Marking, PastPending,
         Locking, HasGranted, Owing, Counting, Late, Working, subVars, ghosts
<1>6. \A q \in Purchase : RowInv(q)'
  BY <1>1, <1>2
     DEF ClaimMismatch, Free, RowInv, Late, SessionInv, WebhookPaid, PastPending, TypeOK,
         subVars, ghosts, IInv
<1> QED
  BY <1>1, <1>2, <1>3, <1>4, <1>5, <1>6, Framing DEF Continues

LEMMA ClaimSkipStep ==
  ASSUME IInv, NEW s \in Session, ClaimSkip(s)
  PROVE  IInv'
<1>1. TypeOK /\ SessionInv(s) /\ ses[s].p \in Purchase /\ RowInv(ses[s].p)
  BY Knows DEF ClaimSkip
<1>2. Moves(s) /\ ses'[s].pc = "idle"
  BY <1>1, EndEffect DEF ClaimSkip
<1>3. TypeOK'
  BY <1>1, <1>2 DEF ClaimSkip, Free, Moves, TypeOK, rowVars, subVars, ghosts
<1>4. Steady(s)
  BY <1>1, <1>2, MarkerAlone
     DEF ClaimSkip, Free, Moves, Steady, TypeOK, SessionInv, OnRow, WebhookPaid, Marking,
         PastPending, Locking, HasGranted, Owing, Counting, Late, Working, rowVars, subVars,
         ghosts, IInv
<1>5. SessionInv(s)'
  BY <1>1, <1>2
     DEF ClaimSkip, Free, Moves, SessionInv, OnRow, WebhookPaid, Marking, PastPending, Locking,
         HasGranted, Owing, Counting, Late, Working, rowVars, subVars, ghosts
<1>6. \A q \in Purchase : RowInv(q)'
  BY <1>1, <1>2 DEF ClaimSkip, Free, RowInv, Late, TypeOK, rowVars, subVars, ghosts, IInv
<1> QED
  BY <1>1, <1>2, <1>3, <1>4, <1>5, <1>6, Framing DEF Continues

LEMMA ClaimCodeOnlyStep ==
  ASSUME IInv, NEW s \in Session, ClaimCodeOnly(s)
  PROVE  IInv'
<1>1. TypeOK /\ SessionInv(s) /\ ses[s].p \in Purchase /\ RowInv(ses[s].p)
  BY Knows DEF ClaimCodeOnly
<1>2. Moves(s) /\ ses'[s].pc = "idle"
  BY <1>1, EndEffect DEF ClaimCodeOnly
<1>3. TypeOK'
  BY <1>1, <1>2 DEF ClaimCodeOnly, Free, Settled, Moves, TypeOK, Status, subVars, ghosts
<1>4. Steady(s)
  BY <1>1, <1>2, MarkerAlone
     DEF ClaimCodeOnly, Free, Settled, Moves, Steady, TypeOK, SessionInv, OnRow, WebhookPaid,
         Marking, PastPending, Locking, HasGranted, Owing, Counting, Late, Working, subVars,
         ghosts, IInv
<1>5. SessionInv(s)'
  BY <1>1, <1>2
     DEF ClaimCodeOnly, Free, Settled, Moves, SessionInv, OnRow, WebhookPaid, Marking,
         PastPending, Locking, HasGranted, Owing, Counting, Late, Working, subVars, ghosts
<1>6. \A q \in Purchase : RowInv(q)'
  BY <1>1, <1>2
     DEF ClaimCodeOnly, Free, Settled, RowInv, Late, SessionInv, WebhookPaid, PastPending,
         TypeOK, subVars, ghosts, IInv
<1> QED
  BY <1>1, <1>2, <1>3, <1>4, <1>5, <1>6, Framing DEF Continues

LEMMA ClaimPaidStep ==
  ASSUME IInv, NEW s \in Session, ClaimPaid(s)
  PROVE  IInv'
<1>1. TypeOK /\ SessionInv(s) /\ ses[s].p \in Purchase /\ RowInv(ses[s].p)
  BY Knows DEF ClaimPaid
<1>2. Continues(s) /\ ses'[s].pc = "read" /\ ses'[s].owes = ses[s].owes
  BY <1>1, GotoEffect DEF ClaimPaid, PC
<1>3. /\ lock' \in [Purchase -> Session \cup {None}]
     /\ lock[ses[s].p] = None /\ lock'[ses[s].p] = s
     /\ \A q \in Purchase \ {ses[s].p} : lock'[q] = lock[q]
  BY <1>1, AcquireEffect DEF ClaimPaid
<1>4. TypeOK'
  BY <1>1, <1>2, <1>3 DEF ClaimPaid, Settled, Continues, Moves, TypeOK, rowVars, subVars, ghosts
<1>5. Steady(s)
  BY <1>1, <1>2, <1>3, MarkerAlone
     DEF ClaimPaid, Settled, Continues, Moves, Steady, TypeOK, SessionInv, OnRow, WebhookPaid,
         Marking, PastPending, Locking, HasGranted, Owing, Counting, Late, Working, rowVars,
         subVars, ghosts, IInv
<1>6. SessionInv(s)'
  BY <1>1, <1>2, <1>3
     DEF ClaimPaid, Settled, Continues, SessionInv, OnRow, WebhookPaid, Marking, PastPending,
         Locking, HasGranted, Owing, Counting, Late, Working, TypeOK, rowVars, subVars, ghosts,
         Status
<1>7. \A q \in Purchase : RowInv(q)'
  BY <1>1, <1>2, <1>3
     DEF ClaimPaid, Settled, RowInv, Late, TypeOK, rowVars, subVars, ghosts, IInv
<1> QED
  BY <1>1, <1>2, <1>3, <1>4, <1>5, <1>6, <1>7, Framing DEF Continues

LEMMA RescueStep ==
  ASSUME IInv, NEW s \in Session, Rescue(s)
  PROVE  IInv'
<1>1. TypeOK /\ SessionInv(s) /\ ses[s].p \in Purchase /\ RowInv(ses[s].p)
  BY Knows DEF Rescue
<1>2. Moves(s) /\ ses'[s].pc = "idle"
  BY <1>1, EndEffect DEF Rescue
<1>3. TypeOK'
  BY <1>1, <1>2 DEF Rescue, Free, Rescuable, Moves, TypeOK, Status, subVars, ghosts
<1>4. Steady(s)
  BY <1>1, <1>2, MarkerAlone
     DEF Rescue, Free, Rescuable, Moves, Steady, TypeOK, SessionInv, OnRow, WebhookPaid,
         Marking, PastPending, Locking, HasGranted, Owing, Counting, Late, Working, subVars,
         ghosts, IInv
<1>5. SessionInv(s)'
  BY <1>1, <1>2
     DEF Rescue, Free, Rescuable, Moves, SessionInv, OnRow, WebhookPaid, Marking, PastPending,
         Locking, HasGranted, Owing, Counting, Late, Working, subVars, ghosts
<1>6. \A q \in Purchase : RowInv(q)'
  BY <1>1, <1>2
     DEF Rescue, Free, Rescuable, RowInv, Late, SessionInv, WebhookPaid, PastPending, TypeOK,
         subVars, ghosts, IInv
<1> QED
  BY <1>1, <1>2, <1>3, <1>4, <1>5, <1>6, Framing DEF Continues

LEMMA PanelDownStep ==
  ASSUME IInv, NEW s \in Session, PanelDown(s)
  PROVE  IInv'
<1>1. TypeOK /\ SessionInv(s) /\ ses[s].p \in Purchase /\ RowInv(ses[s].p)
  BY Knows DEF PanelDown
<1>2. Continues(s) /\ ses'[s].pc = "finish" /\ ses'[s].owes = ses[s].owes
  BY <1>1, GotoEffect DEF PanelDown, PC
<1>3. TypeOK'
  BY <1>1, <1>2 DEF PanelDown, Continues, Moves, TypeOK, rowVars, subVars
<1>4. Steady(s)
  BY <1>1, <1>2, MarkerAlone
     DEF PanelDown, Continues, Moves, Steady, TypeOK, SessionInv, OnRow, WebhookPaid, Marking,
         PastPending, Locking, HasGranted, Owing, Counting, Late, Working, rowVars, subVars, IInv
<1>5. SessionInv(s)'
  BY <1>1, <1>2
     DEF PanelDown, Continues, SessionInv, OnRow, WebhookPaid, Marking, PastPending, Locking,
         HasGranted, Owing, Counting, Late, Working, rowVars, subVars
<1>6. \A q \in Purchase : RowInv(q)'
  BY <1>1, <1>2 DEF PanelDown, RowInv, Late, TypeOK, rowVars, subVars, IInv
<1> QED
  BY <1>1, <1>2, <1>3, <1>4, <1>5, <1>6, Framing DEF Continues

LEMMA ActivateDeliverStep ==
  ASSUME IInv, NEW s \in Session, ActivateDeliver(s)
  PROVE  IInv'
<1>1. TypeOK /\ SessionInv(s) /\ ses[s].p \in Purchase /\ RowInv(ses[s].p)
  BY Knows DEF ActivateDeliver
<1>2. NewDays(s) \in Nat
  BY <1>1 DEF ActivateDeliver, NewDays, TypeOK, SessionState, Saw
<1>3. /\ subStatus' \in [Slot -> {"none", "active", "expired"}]
     /\ days' \in [Slot -> Nat] /\ granted' \in [Purchase -> Nat]
     /\ granted'[ses[s].p] > 0
     /\ \A q \in Purchase \ {ses[s].p} : granted'[q] = granted[q]
  BY <1>1, <1>2, GrantEffect
     DEF ActivateDeliver, CommitOwed, TypeOK, SessionInv, HasGranted, subVars
<1>4. Moves(s) /\ ses'[s].pc = "idle"
  BY <1>1, EndEffect DEF ActivateDeliver
<1>5. /\ lock' \in [Purchase -> Session \cup {None}]
     /\ \A q \in Purchase : lock'[q] = IF lock[q] = s THEN None ELSE lock[q]
  BY <1>1, ReleaseEffect DEF ActivateDeliver
<1>6. TypeOK'
  BY <1>1, <1>2, <1>3, <1>4, <1>5 DEF ActivateDeliver, CanWrite, Link, Moves, TypeOK, Status
<1>7. Steady(s)
  BY <1>1, <1>2, <1>3, <1>4, <1>5, MarkerAlone
     DEF ActivateDeliver, CanWrite, Link, Moves, Steady, TypeOK, SessionInv, OnRow, WebhookPaid,
         Marking, PastPending, Locking, HasGranted, Owing, Counting, Late, Working, IInv
<1>8. SessionInv(s)'
  BY <1>1, <1>2, <1>3, <1>4, <1>5
     DEF ActivateDeliver, CanWrite, Link, Moves, SessionInv, OnRow, WebhookPaid, Marking,
         PastPending, Locking, HasGranted, Owing, Counting, Late, Working
<1>9. \A q \in Purchase : RowInv(q)'
  BY <1>1, <1>2, <1>3, <1>4, <1>5
     DEF ActivateDeliver, CanWrite, Link, RowInv, Late, Working, SessionInv, OnRow, WebhookPaid,
         Marking, PastPending, HasGranted, TypeOK, IInv
<1> QED
  BY <1>1, <1>2, <1>3, <1>4, <1>5, <1>6, <1>7, <1>8, <1>9, Framing DEF Continues

LEMMA PressCallbackStep ==
  ASSUME IInv, NEW s \in Session, NEW p \in Purchase, PressCallback(s, p)
  PROVE  IInv'
<1>1. TypeOK /\ SessionInv(s) /\ RowInv(p)
  BY DEF IInv
<1>2. /\ Moves(s) /\ ses[s].pc = "idle"
     /\ ses'[s].kind = "callback" /\ ses'[s].p = p /\ ses'[s].pc = "activate"
     /\ ses'[s].mem = status[p] /\ ses'[s].owes = FALSE
  <2> DEFINE x == [Idle EXCEPT !.kind = "callback", !.p = p, !.pc = "activate",
                              !.mem = status[p]]
  <2>1. x \in SessionState
    BY <1>1, IdleType DEF SessionState, TypeOK, Kind, PersonKind, PC
  <2>2. /\ x.kind = "callback" /\ x.p = p /\ x.pc = "activate"
        /\ x.mem = status[p] /\ x.owes = FALSE
    BY DEF Idle
  <2>3. ses[s] = Idle /\ ses' = [ses EXCEPT ![s] = x]
    BY DEF PressCallback
  <2> HIDE DEF x
  <2>4. Moves(s) /\ ses'[s] = x
    BY <1>1, <2>1, <2>3 DEF TypeOK, Moves
  <2> QED
    BY <2>2, <2>3, <2>4 DEF Idle
<1>3. used' \in [Bounded -> Nat]
  BY <1>1, SpendType, BoundAssumption DEF PressCallback, Bounded
<1>4. TypeOK'
  BY <1>1, <1>2, <1>3 DEF PressCallback, Moves, TypeOK, Bounded, rowVars, subVars, ghosts
<1>5. Steady(s)
  BY <1>1, <1>2, <1>3, MarkerAlone
     DEF PressCallback, Moves, Steady, TypeOK, SessionInv, OnRow, WebhookPaid, Marking,
         PastPending, Locking, HasGranted, Owing, Counting, Late, Working, rowVars, subVars,
         ghosts, IInv
<1>6. SessionInv(s)'
  BY <1>1, <1>2, <1>3
     DEF PressCallback, Moves, SessionInv, OnRow, WebhookPaid, Marking, PastPending, Locking,
         HasGranted, Owing, Counting, Late, Working, rowVars, subVars, ghosts, RowInv
<1>7. \A q \in Purchase : RowInv(q)'
  BY <1>1, <1>2, <1>3 DEF PressCallback, RowInv, Late, TypeOK, rowVars, subVars, ghosts, IInv
<1> QED
  BY <1>1, <1>2, <1>3, <1>4, <1>5, <1>6, <1>7, Framing DEF Continues

LEMMA FailStep ==
  ASSUME IInv, NEW s \in Session, Fail(s)
  PROVE  IInv'
<1>1. TypeOK /\ SessionInv(s) /\ ses[s].p \in Purchase /\ RowInv(ses[s].p)
  BY Knows DEF Fail
<1>2. /\ Moves(s)
     /\ \/ ses'[s].pc = "idle"
        \/ /\ ses'[s].pc = "rescue" /\ ses'[s].kind = "webhook"
           /\ ses[s].kind = "webhook" /\ ses'[s].p = ses[s].p
  <2>1. CASE ses[s].kind = "webhook" /\ ses[s].pc # "rescue"
    <3> DEFINE x == [Idle EXCEPT !.kind = "webhook", !.p = ses[s].p, !.pc = "rescue"]
    <3>1. x \in SessionState
      BY <1>1, IdleType DEF SessionState, Kind, PC
    <3>2. x.kind = "webhook" /\ x.p = ses[s].p /\ x.pc = "rescue"
      BY DEF Idle
    <3>3. ses' = [ses EXCEPT ![s] = x]
      BY <2>1 DEF Fail
    <3> HIDE DEF x
    <3>4. Moves(s) /\ ses'[s] = x
      BY <1>1, <3>1, <3>3 DEF TypeOK, Moves
    <3> QED
      BY <2>1, <3>2, <3>4
  <2>2. CASE ~(ses[s].kind = "webhook" /\ ses[s].pc # "rescue")
    <3>1. End(s)
      BY <2>2 DEF Fail
    <3> QED
      BY <1>1, <3>1, EndEffect
  <2> QED
    BY <2>1, <2>2
<1>3. /\ lock' \in [Purchase -> Session \cup {None}]
     /\ \A q \in Purchase : lock'[q] = IF lock[q] = s THEN None ELSE lock[q]
  BY <1>1, ReleaseEffect DEF Fail
<1>4. used' \in [Bounded -> Nat]
  BY <1>1, SpendType, BoundAssumption DEF Fail, Bounded
<1>5. TypeOK'
  BY <1>1, <1>2, <1>3, <1>4 DEF Fail, Moves, TypeOK, Bounded, rowVars, subVars, ghosts
<1>6. Steady(s)
  BY <1>1, <1>2, <1>3, <1>4, MarkerAlone
     DEF Fail, Moves, Steady, TypeOK, SessionInv, OnRow, WebhookPaid, Marking, PastPending,
         Locking, HasGranted, Owing, Counting, Late, Working, rowVars, subVars, ghosts, IInv
<1>7. SessionInv(s)'
  BY <1>1, <1>2, <1>3, <1>4
     DEF Fail, Moves, SessionInv, OnRow, WebhookPaid, Marking, PastPending, Locking, HasGranted,
         Owing, Counting, Late, Working, rowVars, subVars, ghosts
<1>8. \A q \in Purchase : RowInv(q)'
  BY <1>1, <1>2, <1>3, <1>4 DEF Fail, RowInv, Late, TypeOK, rowVars, subVars, ghosts, IInv
<1> QED
  BY <1>1, <1>2, <1>3, <1>4, <1>5, <1>6, <1>7, <1>8, Framing DEF Continues

LEMMA WebhookStep ==
  ASSUME IInv, NEW s \in Session, NEW p \in Purchase, Webhook(s, p)
  PROVE  IInv'
<1>1. TypeOK /\ SessionInv(s) /\ RowInv(p)
  BY DEF IInv
<1>2. /\ Moves(s) /\ ses[s].pc = "idle"
     /\ ses'[s].kind = "webhook" /\ ses'[s].p = p /\ ses'[s].pc = "claim"
     /\ ses'[s].mem = "absent" /\ ses'[s].owes = FALSE
  BY <1>1, BeginEffect DEF Webhook, Kind, MonitorKind, PersonKind, PC
<1>3. used' \in [Bounded -> Nat]
  BY <1>1, SpendType, BoundAssumption DEF Webhook, Bounded
<1>4. TypeOK'
  BY <1>1, <1>2, <1>3 DEF Webhook, Moves, TypeOK, Bounded, subVars, ghosts
<1>5. Steady(s)
  BY <1>1, <1>2, <1>3, MarkerAlone
     DEF Webhook, Moves, Steady, TypeOK, SessionInv, OnRow, WebhookPaid, Marking, PastPending,
         Locking, HasGranted, Owing, Counting, Late, Working, subVars, ghosts, IInv
<1>6. SessionInv(s)'
  BY <1>1, <1>2, <1>3
     DEF Webhook, Moves, SessionInv, OnRow, WebhookPaid, Marking, PastPending, Locking,
         HasGranted, Owing, Counting, Late, Working, TypeOK, subVars, ghosts
<1>7. \A q \in Purchase : RowInv(q)'
  BY <1>1, <1>2, <1>3 DEF Webhook, RowInv, Late, TypeOK, subVars, ghosts, IInv
<1> QED
  BY <1>1, <1>2, <1>3, <1>4, <1>5, <1>6, <1>7, Framing DEF Continues

LEMMA PressLinkStep ==
  ASSUME IInv, NEW s \in Session, NEW p \in Purchase, PressLink(s, p)
  PROVE  IInv'
<1>1. TypeOK /\ SessionInv(s) /\ RowInv(p)
  BY DEF IInv
<1>2. /\ Moves(s) /\ ses[s].pc = "idle"
     /\ ses'[s].kind = "link" /\ ses'[s].p = p /\ ses'[s].pc = "activate"
     /\ ses'[s].mem = "absent" /\ ses'[s].owes = FALSE
  BY <1>1, BeginEffect DEF PressLink, Kind, MonitorKind, PersonKind, PC
<1>3. used' \in [Bounded -> Nat]
  BY <1>1, SpendType, BoundAssumption DEF PressLink, Bounded
<1>4. TypeOK'
  BY <1>1, <1>2, <1>3 DEF PressLink, Moves, TypeOK, Bounded, rowVars, subVars, ghosts
<1>5. Steady(s)
  BY <1>1, <1>2, <1>3, MarkerAlone
     DEF PressLink, Moves, Steady, TypeOK, SessionInv, OnRow, WebhookPaid, Marking, PastPending,
         Locking, HasGranted, Owing, Counting, Late, Working, rowVars, subVars, ghosts, IInv
<1>6. SessionInv(s)'
  BY <1>1, <1>2, <1>3
     DEF PressLink, Moves, SessionInv, OnRow, WebhookPaid, Marking, PastPending, Locking,
         HasGranted, Owing, Counting, Late, Working, rowVars, subVars, ghosts
<1>7. \A q \in Purchase : RowInv(q)'
  BY <1>1, <1>2, <1>3 DEF PressLink, RowInv, Late, TypeOK, rowVars, subVars, ghosts, IInv
<1> QED
  BY <1>1, <1>2, <1>3, <1>4, <1>5, <1>6, <1>7, Framing DEF Continues

LEMMA EnterCodeStep ==
  ASSUME IInv, NEW s \in Session, NEW p \in Purchase, EnterCode(s, p)
  PROVE  IInv'
<1>1. TypeOK /\ SessionInv(s) /\ RowInv(p)
  BY DEF IInv
<1>2. /\ Moves(s) /\ ses[s].pc = "idle"
     /\ ses'[s].kind = "code" /\ ses'[s].p = p /\ ses'[s].pc = "activate"
     /\ ses'[s].mem = "absent" /\ ses'[s].owes = FALSE
  BY <1>1, BeginEffect DEF EnterCode, Kind, MonitorKind, PersonKind, PC
<1>3. used' \in [Bounded -> Nat]
  BY <1>1, SpendType, BoundAssumption DEF EnterCode, Bounded
<1>4. TypeOK'
  BY <1>1, <1>2, <1>3 DEF EnterCode, Moves, TypeOK, Bounded, rowVars, subVars, ghosts
<1>5. Steady(s)
  BY <1>1, <1>2, <1>3, MarkerAlone
     DEF EnterCode, Moves, Steady, TypeOK, SessionInv, OnRow, WebhookPaid, Marking, PastPending,
         Locking, HasGranted, Owing, Counting, Late, Working, rowVars, subVars, ghosts, IInv
<1>6. SessionInv(s)'
  BY <1>1, <1>2, <1>3
     DEF EnterCode, Moves, SessionInv, OnRow, WebhookPaid, Marking, PastPending, Locking,
         HasGranted, Owing, Counting, Late, Working, rowVars, subVars, ghosts
<1>7. \A q \in Purchase : RowInv(q)'
  BY <1>1, <1>2, <1>3 DEF EnterCode, RowInv, Late, TypeOK, rowVars, subVars, ghosts, IInv
<1> QED
  BY <1>1, <1>2, <1>3, <1>4, <1>5, <1>6, <1>7, Framing DEF Continues

LEMMA FulfilReadStep ==
  ASSUME IInv, NEW s \in Session, FulfilRead(s)
  PROVE  IInv'
<1>1. TypeOK /\ SessionInv(s) /\ ses[s].p \in Purchase /\ RowInv(ses[s].p)
  BY Knows DEF FulfilRead
<1>2. Seen(Recipient[ses[s].p]) \in Saw
  BY <1>1, RecipientAssumption DEF FulfilRead, Seen, Saw, TypeOK
<1>3. /\ Moves(s) /\ ses'[s].pc = "decide" /\ ses'[s].p = ses[s].p
     /\ ses'[s].kind = ses[s].kind /\ ses'[s].mem = ses[s].mem /\ ses'[s].owes = ses[s].owes
  <2> DEFINE x == [ses[s] EXCEPT !.pc = "decide", !.saw = Seen(Recipient[ses[s].p])]
  <2>1. ses[s] \in SessionState /\ ses' = [ses EXCEPT ![s] = x]
    BY <1>1 DEF FulfilRead, TypeOK
  <2>2. x \in SessionState
    BY <1>1, <1>2, <2>1 DEF SessionState, PC
  <2>3. /\ x.p = ses[s].p /\ x.kind = ses[s].kind /\ x.mem = ses[s].mem
        /\ x.pc = "decide" /\ x.owes = ses[s].owes
    BY <2>1 DEF SessionState
  <2> HIDE DEF x
  <2> QED
    BY <1>1, <2>1, <2>2, <2>3 DEF TypeOK, Moves
<1>4. /\ lock' \in [Purchase -> Session \cup {None}]
     /\ \A q \in Purchase : lock'[q] \in {lock[q], IF lock[q] = s THEN None ELSE lock[q]}
  BY <1>1, ReleaseEffect DEF FulfilRead, TypeOK
<1>5. subStatus' \in [Slot -> {"none", "active", "expired"}]
  BY <1>1 DEF FulfilRead, TypeOK
<1>6. TypeOK'
  BY <1>1, <1>2, <1>3, <1>4, <1>5
     DEF FulfilRead, FlushPaid, Holds, Moves, TypeOK, Status, ghosts
<1>7. Steady(s)
  BY <1>1, <1>2, <1>3, <1>4, <1>5, MarkerAlone
     DEF FulfilRead, FlushPaid, Holds, Moves, Steady, TypeOK, SessionInv, OnRow, WebhookPaid,
         Marking, PastPending, Locking, HasGranted, Owing, Counting, Late, Working, ghosts, IInv
<1>8. SessionInv(s)'
  BY <1>1, <1>2, <1>3, <1>4, <1>5
     DEF FulfilRead, FlushPaid, Holds, Moves, SessionInv, OnRow, WebhookPaid, Marking,
         PastPending, Locking, HasGranted, Owing, Counting, Late, Working, TypeOK, ghosts
<1>9. \A q \in Purchase : RowInv(q)'
  BY <1>1, <1>2, <1>3, <1>4, <1>5
     DEF FulfilRead, FlushPaid, Holds, RowInv, Late, SessionInv, WebhookPaid, PastPending,
         TypeOK, ghosts, IInv
<1> QED
  BY <1>1, <1>2, <1>3, <1>4, <1>5, <1>6, <1>7, <1>8, <1>9, Framing DEF Continues

LEMMA RecoverSelectStep ==
  ASSUME IInv, NEW p \in Purchase, RecoverSelect(p)
  PROVE  IInv'
<1>1. TypeOK /\ SessionInv(Monitor) /\ RowInv(p)
  BY MonitorAssumption DEF IInv
<1>2. /\ Moves(Monitor) /\ ses[Monitor].pc = "idle"
     /\ ses'[Monitor].kind = "recover" /\ ses'[Monitor].p = p /\ ses'[Monitor].pc = "settle"
     /\ ses'[Monitor].mem = "absent" /\ ses'[Monitor].owes = FALSE
  BY <1>1, BeginEffect, MonitorAssumption DEF RecoverSelect, Kind, MonitorKind, PersonKind, PC
<1>3. TypeOK'
  BY <1>1, <1>2 DEF RecoverSelect, Moves, TypeOK, rowVars, subVars, ghosts
<1>4. Steady(Monitor)
  BY <1>1, <1>2
     DEF RecoverSelect, Moves, Steady, TypeOK, Late, SessionInv, Marking, rowVars, subVars,
         ghosts, IInv
<1>5. SessionInv(Monitor)'
  BY <1>1, <1>2
     DEF RecoverSelect, Moves, SessionInv, OnRow, WebhookPaid, Marking, PastPending, Locking,
         HasGranted, Owing, Counting, Late, Working, rowVars, subVars, ghosts
<1>6. \A q \in Purchase : RowInv(q)'
  BY <1>1, <1>2 DEF RecoverSelect, RowInv, Late, TypeOK, rowVars, subVars, ghosts, IInv
<1> QED
  BY <1>1, <1>2, <1>3, <1>4, <1>5, <1>6, Framing, MonitorAssumption DEF Continues

LEMMA RetryPaidSelectStep ==
  ASSUME IInv, NEW p \in Purchase, RetryPaidSelect(p)
  PROVE  IInv'
<1>1. TypeOK /\ SessionInv(Monitor) /\ RowInv(p)
  BY MonitorAssumption DEF IInv
<1>2. /\ Moves(Monitor) /\ ses[Monitor].pc = "idle"
     /\ ses'[Monitor].kind = "retryPaid" /\ ses'[Monitor].p = p /\ ses'[Monitor].pc = "count"
     /\ ses'[Monitor].mem = "absent" /\ ses'[Monitor].owes = FALSE
  BY <1>1, BeginEffect, MonitorAssumption DEF RetryPaidSelect, Kind, MonitorKind, PersonKind, PC
<1>3. TypeOK'
  BY <1>1, <1>2 DEF RetryPaidSelect, RetryLeft, Moves, TypeOK, rowVars, subVars, ghosts
<1>4. Steady(Monitor)
  BY <1>1, <1>2
     DEF RetryPaidSelect, RetryLeft, Moves, Steady, TypeOK, Late, SessionInv, Marking, rowVars,
         subVars, ghosts, IInv
<1>5. SessionInv(Monitor)'
  BY <1>1, <1>2
     DEF RetryPaidSelect, RetryLeft, Moves, SessionInv, OnRow, WebhookPaid, Marking,
         PastPending, Locking, HasGranted, Owing, Counting, Late, Working, rowVars, subVars,
         ghosts
<1>6. \A q \in Purchase : RowInv(q)'
  BY <1>1, <1>2
     DEF RetryPaidSelect, RetryLeft, RowInv, Late, TypeOK, rowVars, subVars, ghosts, IInv
<1> QED
  BY <1>1, <1>2, <1>3, <1>4, <1>5, <1>6, Framing, MonitorAssumption DEF Continues

LEMMA RetryHeldSelectStep ==
  ASSUME IInv, NEW p \in Purchase, RetryHeldSelect(p)
  PROVE  IInv'
<1>1. TypeOK /\ SessionInv(Monitor) /\ RowInv(p)
  BY MonitorAssumption DEF IInv
<1>2. /\ Moves(Monitor) /\ ses[Monitor].pc = "idle"
     /\ ses'[Monitor].kind = "retryHeld" /\ ses'[Monitor].p = p /\ ses'[Monitor].pc = "count"
     /\ ses'[Monitor].mem = "absent" /\ ses'[Monitor].owes = FALSE
  BY <1>1, BeginEffect, MonitorAssumption DEF RetryHeldSelect, Kind, MonitorKind, PersonKind, PC
<1>3. TypeOK'
  BY <1>1, <1>2 DEF RetryHeldSelect, RetryLeft, Moves, TypeOK, rowVars, subVars, ghosts
<1>4. Steady(Monitor)
  BY <1>1, <1>2
     DEF RetryHeldSelect, RetryLeft, Moves, Steady, TypeOK, Late, SessionInv, Marking, rowVars,
         subVars, ghosts, IInv
<1>5. SessionInv(Monitor)'
  BY <1>1, <1>2
     DEF RetryHeldSelect, RetryLeft, Moves, SessionInv, OnRow, WebhookPaid, Marking,
         PastPending, Locking, HasGranted, Owing, Counting, Late, Working, rowVars, subVars,
         ghosts
<1>6. \A q \in Purchase : RowInv(q)'
  BY <1>1, <1>2
     DEF RetryHeldSelect, RetryLeft, RowInv, Late, TypeOK, rowVars, subVars, ghosts, IInv
<1> QED
  BY <1>1, <1>2, <1>3, <1>4, <1>5, <1>6, Framing, MonitorAssumption DEF Continues

LEMMA ExhaustSelectStep ==
  ASSUME IInv, NEW p \in Purchase, ExhaustSelect(p)
  PROVE  IInv'
<1>1. TypeOK /\ SessionInv(Monitor) /\ RowInv(p)
  BY MonitorAssumption DEF IInv
<1>2. /\ Moves(Monitor) /\ ses[Monitor].pc = "idle"
     /\ ses'[Monitor].kind = "exhaust" /\ ses'[Monitor].p = p /\ ses'[Monitor].pc = "settle"
     /\ ses'[Monitor].mem = "absent" /\ ses'[Monitor].owes = FALSE
  BY <1>1, BeginEffect, MonitorAssumption DEF ExhaustSelect, Kind, MonitorKind, PersonKind, PC
<1>3. TypeOK'
  BY <1>1, <1>2 DEF ExhaustSelect, Exhausted, Moves, TypeOK, rowVars, subVars, ghosts
<1>4. Steady(Monitor)
  BY <1>1, <1>2
     DEF ExhaustSelect, Exhausted, Moves, Steady, TypeOK, Late, SessionInv, Marking, rowVars,
         subVars, ghosts, IInv
<1>5. SessionInv(Monitor)'
  BY <1>1, <1>2
     DEF ExhaustSelect, Exhausted, Moves, SessionInv, OnRow, WebhookPaid, Marking, PastPending,
         Locking, HasGranted, Owing, Counting, Late, Working, rowVars, subVars, ghosts
<1>6. \A q \in Purchase : RowInv(q)'
  BY <1>1, <1>2
     DEF ExhaustSelect, Exhausted, RowInv, Late, TypeOK, rowVars, subVars, ghosts, IInv
<1> QED
  BY <1>1, <1>2, <1>3, <1>4, <1>5, <1>6, Framing, MonitorAssumption DEF Continues

LEMMA RecoverSettleStep ==
  ASSUME IInv, RecoverSettle
  PROVE  IInv'
<1>1. TypeOK /\ SessionInv(Monitor) /\ ses[Monitor].p \in Purchase /\ RowInv(ses[Monitor].p)
  BY Knows, MonitorAssumption DEF RecoverSettle
<1>2. Moves(Monitor) /\ ses'[Monitor].pc = "idle"
  BY <1>1, EndEffect, MonitorAssumption DEF RecoverSettle
<1>3. TypeOK'
  BY <1>1, <1>2
     DEF RecoverSettle, Free, OnRecord, Recovered, Moves, TypeOK, Status, subVars, ghosts
<1>4. Steady(Monitor)
  BY <1>1, <1>2, MarkerAlone, MonitorAssumption
     DEF RecoverSettle, Free, OnRecord, Recovered, Moves, Steady, TypeOK, SessionInv, OnRow,
         WebhookPaid, Marking, PastPending, Locking, HasGranted, Owing, Counting, Late, Working,
         subVars, ghosts, IInv
<1>5. SessionInv(Monitor)'
  BY <1>1, <1>2
     DEF RecoverSettle, Free, OnRecord, Recovered, Moves, SessionInv, OnRow, WebhookPaid,
         Marking, PastPending, Locking, HasGranted, Owing, Counting, Late, Working, subVars,
         ghosts
<1>6. \A q \in Purchase : RowInv(q)'
  BY <1>1, <1>2
     DEF RecoverSettle, Free, OnRecord, Recovered, RowInv, Late, TypeOK, subVars, ghosts, IInv
<1> QED
  BY <1>1, <1>2, <1>3, <1>4, <1>5, <1>6, Framing, MonitorAssumption DEF Continues

LEMMA ExhaustSettleStep ==
  ASSUME IInv, ExhaustSettle
  PROVE  IInv'
<1>1. TypeOK /\ SessionInv(Monitor) /\ ses[Monitor].p \in Purchase /\ RowInv(ses[Monitor].p)
  BY Knows, MonitorAssumption DEF ExhaustSettle
<1>2. Moves(Monitor) /\ ses'[Monitor].pc = "idle"
  BY <1>1, EndEffect, MonitorAssumption DEF ExhaustSettle
<1>3. TypeOK'
  BY <1>1, <1>2 DEF ExhaustSettle, Free, Moves, TypeOK, Status, subVars, ghosts
<1>4. Steady(Monitor)
  BY <1>1, <1>2, MarkerAlone, MonitorAssumption
     DEF ExhaustSettle, Free, Moves, Steady, TypeOK, SessionInv, OnRow, WebhookPaid, Marking,
         PastPending, Locking, HasGranted, Owing, Counting, Late, Working, subVars, ghosts, IInv
<1>5. SessionInv(Monitor)'
  BY <1>1, <1>2
     DEF ExhaustSettle, Free, Moves, SessionInv, OnRow, WebhookPaid, Marking, PastPending,
         Locking, HasGranted, Owing, Counting, Late, Working, subVars, ghosts
<1>6. \A q \in Purchase : RowInv(q)'
  BY <1>1, <1>2
     DEF ExhaustSettle, Free, RowInv, Late, SessionInv, WebhookPaid, PastPending, TypeOK,
         subVars, ghosts, IInv
<1> QED
  BY <1>1, <1>2, <1>3, <1>4, <1>5, <1>6, Framing, MonitorAssumption DEF Continues

LEMMA RetryCountStep ==
  ASSUME IInv, RetryCount
  PROVE  IInv'
<1>1. TypeOK /\ SessionInv(Monitor) /\ ses[Monitor].p \in Purchase /\ RowInv(ses[Monitor].p)
  BY Knows, MonitorAssumption DEF RetryCount
<1>2. Goto(Monitor, IF ses[Monitor].kind = "retryPaid" THEN "fulfil" ELSE "activate")
  BY <1>1 DEF RetryCount
<1>3. Continues(Monitor) /\ ses'[Monitor].pc \in {"fulfil", "activate"}
  BY <1>1, <1>2, GotoEffect, MonitorAssumption DEF RetryCount, PC
<1>4. TypeOK'
  BY <1>1, <1>2, <1>3 DEF RetryCount, Free, Continues, Moves, TypeOK, subVars, ghosts
<1>5. Steady(Monitor)
  BY <1>1, <1>2, <1>3, MarkerAlone, MonitorAssumption
     DEF RetryCount, Free, Continues, Moves, Steady, TypeOK, SessionInv, OnRow, WebhookPaid,
         Marking, PastPending, Locking, HasGranted, Owing, Counting, Late, Working, subVars,
         ghosts, IInv
<1>6. SessionInv(Monitor)'
  BY <1>1, <1>2, <1>3
     DEF RetryCount, Free, Continues, SessionInv, OnRow, WebhookPaid, Marking, PastPending,
         Locking, HasGranted, Owing, Counting, Late, Working, subVars, ghosts
<1>7. \A q \in Purchase : RowInv(q)'
  BY <1>1, <1>2, <1>3, BoundAssumption
     DEF RetryCount, Free, RowInv, SessionInv, OnRow, WebhookPaid, Marking, PastPending,
         Locking, HasGranted, Owing, Counting, Late, Working, TypeOK, subVars, ghosts, IInv
<1> QED
  BY <1>1, <1>2, <1>3, <1>4, <1>5, <1>6, <1>7, Framing, MonitorAssumption DEF Continues

\* The invariant does not depend on the ages, the subscriptions or the bounds.
LEMMA Unrelated ==
  ASSUME IInv, TypeOK',
         UNCHANGED <<status, linked, retryCount, moneyIn, lock, ses, granted>>
  PROVE  IInv'
<1>1. OneMarker'
  BY DEF IInv, OneMarker
<1>2. ASSUME NEW s \in Session PROVE SessionInv(s)'
  <2>1. SessionInv(s)
    BY DEF IInv
  <2> QED
    BY <2>1 DEF SessionInv, OnRow, WebhookPaid, Marking, PastPending, Late,
                Locking, HasGranted, Owing, Counting
<1>3. ASSUME NEW p \in Purchase PROVE RowInv(p)'
  BY DEF IInv, RowInv, Late
<1> QED
  BY <1>1, <1>2, <1>3 DEF IInv

LEMMA GrowStaleStep ==
  ASSUME IInv, NEW p \in Purchase, GrowStale(p)
  PROVE  IInv'
<1>1. TypeOK'
  BY DEF IInv, TypeOK, GrowStale, subVars, ghosts
<1> QED
  BY <1>1, Unrelated DEF GrowStale, ghosts

LEMMA GrowOldStep ==
  ASSUME IInv, NEW p \in Purchase, GrowOld(p)
  PROVE  IInv'
<1>1. TypeOK'
  BY DEF IInv, TypeOK, GrowOld, subVars, ghosts
<1> QED
  BY <1>1, Unrelated DEF GrowOld, ghosts

LEMMA LapseStep ==
  ASSUME IInv, NEW u \in Slot, Lapse(u)
  PROVE  IInv'
<1>1. used' \in [Bounded -> Nat]
  BY SpendType, BoundAssumption DEF Lapse, Bounded, IInv
<1>2. TypeOK'
  BY <1>1 DEF IInv, TypeOK, Lapse, rowVars, ghosts
<1> QED
  BY <1>2, Unrelated DEF Lapse, rowVars, ghosts

LEMMA CreatePurchaseStep ==
  ASSUME IInv, NEW p \in Purchase, CreatePurchase(p)
  PROVE  IInv'
<1>1. TypeOK'
  BY DEF IInv, TypeOK, CreatePurchase, Status, subVars, ghosts
<1>2. OneMarker'
  BY DEF IInv, OneMarker, CreatePurchase
<1>3. ASSUME NEW s \in Session PROVE SessionInv(s)'
  <2>1. SessionInv(s) /\ (ses[s].pc # "idle" => ses[s].p \in Purchase \ {p})
    BY DEF IInv, SessionInv, OnRow, CreatePurchase
  <2>2. ses[s].pc # "idle" => status'[ses[s].p] = status[ses[s].p]
    BY <2>1 DEF IInv, TypeOK, CreatePurchase
  <2> QED
    BY <2>1, <2>2 DEF SessionInv, OnRow, WebhookPaid, Marking, PastPending, Late,
                      Locking, HasGranted, Owing, Counting, CreatePurchase, ghosts
<1>4. ASSUME NEW q \in Purchase PROVE RowInv(q)'
  BY DEF IInv, TypeOK, RowInv, Late, CreatePurchase, ghosts
<1> QED
  BY <1>1, <1>2, <1>3, <1>4 DEF IInv

\* Nothing but the rows and what was granted survives a crash.
LEMMA CrashStep ==
  ASSUME IInv, Crash
  PROVE  IInv'
<1>1. used' \in [Bounded -> Nat]
  BY SpendType, BoundAssumption DEF Crash, Bounded, IInv
<1>2. TypeOK'
  BY <1>1, IdleType DEF IInv, TypeOK, Crash, rowVars, subVars, ghosts
<1>3. \A s \in Session : ses'[s].pc = "idle" /\ ses'[s].kind = "none"
  BY DEF Crash, Idle
<1>4. OneMarker'
  BY <1>3 DEF OneMarker
<1>5. ASSUME NEW s \in Session PROVE SessionInv(s)'
  BY <1>3 DEF SessionInv, OnRow, WebhookPaid, Marking, PastPending, Locking, HasGranted,
              Owing, Counting
<1>6. ASSUME NEW p \in Purchase PROVE RowInv(p)'
  BY DEF IInv, RowInv, Late, Crash, rowVars, ghosts
<1> QED
  BY <1>2, <1>4, <1>5, <1>6 DEF IInv

LEMMA Initially == Init => IInv
<1> SUFFICES ASSUME Init PROVE IInv
  OBVIOUS
<1>1. TypeOK
  BY IdleType, NoneAssumption DEF Init, TypeOK, Status
<1>2. \A s \in Session : ses[s].pc = "idle" /\ ses[s].kind = "none"
  BY DEF Init, Idle
<1>3. OneMarker
  BY <1>2 DEF OneMarker
<1>4. ASSUME NEW s \in Session PROVE SessionInv(s)
  BY <1>2 DEF SessionInv, OnRow, WebhookPaid, Marking, PastPending, Locking, HasGranted,
              Owing, Counting
<1>5. ASSUME NEW p \in Purchase PROVE RowInv(p)
  BY BoundAssumption DEF Init, RowInv, Late
<1> QED
  BY <1>1, <1>3, <1>4, <1>5 DEF IInv

-----------------------------------------------------------------------------
(* The theorems. *)

LEMMA Invariance == IInv /\ [Next]_vars => IInv'
<1> SUFFICES ASSUME IInv, [Next]_vars PROVE IInv'
  OBVIOUS
<1>1. ASSUME NEW p \in Purchase,
             CreatePurchase(p) \/ MonitorSelect(p) \/ GrowStale(p) \/ GrowOld(p)
      PROVE  IInv'
  BY <1>1, CreatePurchaseStep, RecoverSelectStep, RetryPaidSelectStep, RetryHeldSelectStep,
     ExhaustSelectStep, GrowStaleStep, GrowOldStep DEF MonitorSelect
<1>2. ASSUME NEW s \in Session, SessionStep(s) \/ Fail(s)
      PROVE  IInv'
  <2>1. CASE MarkPaid(s) \/ ClaimMismatch(s) \/ ClaimSkip(s) \/ ClaimCodeOnly(s)
             \/ ClaimPaid(s) \/ Rescue(s) \/ Fail(s)
    BY <2>1, MarkPaidStep, ClaimMismatchStep, ClaimSkipStep, ClaimCodeOnlyStep,
       ClaimPaidStep, RescueStep, FailStep
  <2>2. CASE FulfilLock(s) \/ FulfilDelisted(s) \/ FulfilRead(s) \/ FulfilHold(s)
             \/ FulfilGrant(s) \/ FulfilDeliver(s)
    BY <2>2, FulfilLockStep, FulfilDelistedStep, FulfilReadStep, FulfilHoldStep,
       FulfilGrantStep, FulfilDeliverStep
  <2>3. CASE ActivateLock(s) \/ ActivateExtend(s) \/ PanelCommits(s) \/ PanelDown(s)
             \/ ActivateDeliver(s)
    BY <2>3, ActivateLockStep, ActivateExtendStep, PanelCommitsStep, PanelDownStep,
       ActivateDeliverStep
  <2> QED
    BY <1>2, <2>1, <2>2, <2>3 DEF SessionStep
<1>3. ASSUME NEW s \in Session, NEW p \in Purchase, Start(s, p)
      PROVE  IInv'
  BY <1>3, BuyFromBalanceStep, WebhookStep, PressLinkStep, EnterCodeStep,
     PressCallbackStep DEF Start
<1>4. CASE MonitorStep
  BY <1>4, RecoverSettleStep, ExhaustSettleStep, RetryCountStep DEF MonitorStep
<1>5. CASE Crash
  BY <1>5, CrashStep
<1>6. ASSUME NEW u \in Slot, Lapse(u) PROVE IInv'
  BY <1>6, LapseStep
<1>7. CASE UNCHANGED vars
  <2>1. TypeOK'
    BY <1>7 DEF IInv, TypeOK, vars, rowVars, subVars, ghosts
  <2> QED
    BY <1>7, <2>1, Unrelated DEF vars, rowVars, ghosts
<1> QED
  BY <1>1, <1>2, <1>3, <1>4, <1>5, <1>6, <1>7 DEF Next

\* The inductive invariant holds in every state of the model.
THEOREM Inductive == Spec => []IInv
<1> QED
  BY Initially, Invariance, PTL DEF Spec

\* Every variable stays within its type, whatever the constants.
THEOREM TypeCorrect == Spec => []TypeOK
<1>1. IInv => TypeOK
  BY DEF IInv
<1> QED
  BY <1>1, Inductive, PTL

\* However many webhooks, monitoring phases and people work on a purchase,
\* nobody gets a period that no payment was recorded for
\* (try_fulfill_guest_purchase, fulfill_purchase, activate_purchase).
THEOREM PaidBeforeGranted == Spec => []GrantedOnlyIfPaid
<1>1. IInv => GrantedOnlyIfPaid
  BY DEF IInv, RowInv, Late, GrantedOnlyIfPaid
<1> QED
  BY <1>1, Inductive, PTL

\* No crash, lost lock or failed panel call leaves a purchase DELIVERED
\* without its period (fulfill_purchase, activate_purchase).
THEOREM DeliveredHasPeriod == Spec => []DeliveredWasGranted
<1>1. IInv => DeliveredWasGranted
  BY DEF IInv, RowInv, DeliveredWasGranted
<1> QED
  BY <1>1, Inductive, PTL

\* What waits for activation has a user to activate it for, so that the
\* activation routes and the retry query find it.
THEOREM HeldHasUser == Spec => []HeldIsLinked
<1>1. IInv => HeldIsLinked
  BY DEF IInv, RowInv, HeldIsLinked
<1> QED
  BY <1>1, Inductive, PTL

\* The retry phases attempt a purchase at most max_retries times.
THEOREM RetriesAreBounded == Spec => []RetryBounded
<1>1. IInv => RetryBounded
  BY DEF IInv, RowInv, RetryBounded
<1> QED
  BY <1>1, Inductive, PTL

\* A handler that still writes PAID into a held or settled row: none.
LEMMA KeepsSettled ==
  ASSUME IInv, Next, NEW p \in Purchase,
         status[p] \in {"pending_activation", "delivered", "failed"}
  PROVE  status'[p] \notin {"pending", "paid"}
<1>0. status \in [Purchase -> Status]
  BY DEF IInv, TypeOK
<1>1. ASSUME NEW q \in Purchase,
             CreatePurchase(q) \/ MonitorSelect(q) \/ GrowStale(q) \/ GrowOld(q)
      PROVE  status'[p] \notin {"pending", "paid"}
  BY <1>0, <1>1 DEF CreatePurchase, MonitorSelect, RecoverSelect, RetryPaidSelect,
     RetryHeldSelect, ExhaustSelect, GrowStale, GrowOld, rowVars
<1>2. ASSUME NEW s \in Session, SessionStep(s) \/ Fail(s)
      PROVE  status'[p] \notin {"pending", "paid"}
  <2>1. SessionInv(s)
    BY DEF IInv
  <2>2. CASE MarkPaid(s)
    BY <1>0, <2>1, <2>2 DEF MarkPaid, SessionInv, Marking, OnRow
  <2>3. CASE \/ ClaimMismatch(s) \/ ClaimSkip(s) \/ ClaimCodeOnly(s) \/ ClaimPaid(s)
             \/ Rescue(s) \/ FulfilDelisted(s) \/ FulfilHold(s) \/ FulfilDeliver(s)
             \/ ActivateDeliver(s)
    BY <1>0, <2>3 DEF ClaimMismatch, ClaimSkip, ClaimCodeOnly, Settled, ClaimPaid, Rescue,
       Rescuable, FulfilDelisted, FulfilHold, FulfilDeliver, ActivateDeliver, rowVars
  <2>4. CASE FulfilRead(s) \/ FulfilGrant(s)
    <3>1. status' = status \/ FlushPaid(s)
      BY <2>4 DEF FulfilRead, FulfilGrant
    <3> QED
      BY <1>0, <2>1, <2>4, <3>1
      DEF FlushPaid, Holds, FulfilRead, FulfilGrant, SessionInv, Locking
  <2>5. CASE ActivateExtend(s) \/ PanelCommits(s)
    BY <1>0, <2>5 DEF ActivateExtend, PanelCommits, FlushHeld
  <2>6. CASE FulfilLock(s) \/ ActivateLock(s) \/ PanelDown(s) \/ Fail(s)
    BY <2>6 DEF FulfilLock, ActivateLock, PanelDown, Fail, rowVars
  <2> QED
    BY <1>2, <2>2, <2>3, <2>4, <2>5, <2>6 DEF SessionStep
<1>3. ASSUME NEW s \in Session, NEW q \in Purchase, Start(s, q)
      PROVE  status'[p] \notin {"pending", "paid"}
  BY <1>0, <1>3 DEF Start, BuyFromBalance, Webhook, PressLink, EnterCode, PressCallback, rowVars
<1>4. CASE MonitorStep
  BY <1>0, <1>4 DEF MonitorStep, RecoverSettle, ExhaustSettle, RetryCount
<1>5. CASE Crash \/ \E u \in Slot : Lapse(u)
  BY <1>5 DEF Crash, Lapse, rowVars
<1> QED
  BY <1>1, <1>2, <1>3, <1>4, <1>5 DEF Next

\* No late webhook, rescue, recovery or lost lock puts a purchase that is
\* held, delivered or failed back in line for fulfilment.
THEOREM SettledStaysSettled == Spec => NeverRequeued
<1>1. IInv /\ [Next]_vars =>
        [\A p \in Purchase :
           status[p] \in {"pending_activation", "delivered", "failed"}
             => status'[p] \notin {"pending", "paid"}]_vars
  BY KeepsSettled
<1> QED
  BY <1>1, Inductive, PTL DEF Spec, NeverRequeued

-----------------------------------------------------------------------------
(* The history only looks on. *)

LEMMA HNextIsNext == HNext => Next /\ Remember
<1> SUFFICES ASSUME HNext PROVE Next /\ Remember
  OBVIOUS
<1> QED
  BY DEF HNext, Next, MonitorSelect, SessionStep, Start, MonitorStep

\* What the inductive invariant says stays true under the history.
LEMMA HInductive == HSpec => []IInv
<1>1. HInit => IInv
  BY Initially DEF HInit
<1>2. IInv /\ [HNext]_hvars => IInv'
  BY Invariance, HNextIsNext DEF hvars
<1> QED
  BY <1>1, <1>2, PTL DEF HSpec

\* The history variables stay within their types.
HTypeOK ==
  /\ torn \in [Audited -> Nat] /\ raced \in [Audited -> Nat]
  /\ due \in [AuditedSlot -> Nat] /\ crossed \in [AuditedSlot -> Nat]
  /\ uncompared \subseteq Audited

LEMMA SlotsAudited == Audited \subseteq Purchase /\ AuditedSlot \subseteq Slot
BY AuditedAssumption, RecipientAssumption DEF AuditedSlot

LEMMA HTypeStep ==
  ASSUME TypeOK, HTypeOK, Remember
  PROVE  HTypeOK'
<1>1. ASSUME NEW u \in AuditedSlot PROVE Left(u) \in Nat
  BY SlotsAudited DEF Left, HTypeOK, TypeOK
<1>2. due' \in [AuditedSlot -> Nat]
  BY <1>1 DEF Remember, HTypeOK
<1> QED
  BY <1>2 DEF Remember, HTypeOK

\* Of two sets of sessions that differ in s at most.
LEMMA OneMoves ==
  ASSUME NEW A, NEW B, A \subseteq Session, B \subseteq Session, NEW s \in Session,
         \A t \in Session \ {s} : t \in A <=> t \in B
  PROVE  /\ Cardinality(A) \in Nat /\ Cardinality(B) \in Nat
         /\ (s \in A <=> s \in B) => Cardinality(B) = Cardinality(A)
         /\ s \in A => Cardinality(A) >= 1
         /\ s \in A /\ s \notin B => Cardinality(B) = Cardinality(A) - 1
         /\ s \notin A /\ s \in B => Cardinality(B) = Cardinality(A) + 1
<1>1. IsFiniteSet(A) /\ IsFiniteSet(B)
  BY SessionAssumption, FS_Subset
<1>2. Cardinality(A) \in Nat /\ Cardinality(B) \in Nat
  BY <1>1, FS_CardinalityType
<1>3. (s \in A <=> s \in B) => A = B
  OBVIOUS
<1>4. s \in A => Cardinality(A) # 0
  BY <1>1, FS_EmptySet
<1>5. s \in A /\ s \notin B => Cardinality(B) = Cardinality(A) - 1
  <2>1. s \in A /\ s \notin B => B = A \ {s}
    OBVIOUS
  <2> QED
    BY <1>1, <2>1, FS_RemoveElement
<1>6. s \notin A /\ s \in B => Cardinality(B) = Cardinality(A) + 1
  <2>1. s \notin A /\ s \in B => B = A \cup {s}
    OBVIOUS
  <2> QED
    BY <1>1, <2>1, FS_AddElement
<1> QED
  BY <1>2, <1>3, <1>4, <1>5, <1>6

-----------------------------------------------------------------------------
(* How often a period is granted. *)

ArmedOn(p) == {s \in Session : Armed(s, p)}
Quiescent(p) == \A s \in Session : ~AtWork(s, p)

\* Every grant so far and every handler that is going to grant is the first, or
\* has broken off or taken the purchase up beside another.
GrantInv(p) ==
  /\ granted[p] + Cardinality(ArmedOn(p)) <= torn[p] + raced[p] + 1
  /\ Open(p) /\ Quiescent(p) => granted[p] <= torn[p] + raced[p]

\* What a step of s does to p: nothing that counts, it takes it up, it grants
\* the period, or it leaves it after the grant.
Idles(s, p) ==
  /\ granted'[p] = granted[p]
  /\ Armed(s, p)' => Armed(s, p)
  /\ Spent(s, p)' <=> Spent(s, p)
  /\ Open(p)' => Open(p) \/ Armed(s, p)
Arms(s, p) ==
  /\ granted'[p] = granted[p]
  /\ ~AtWork(s, p) /\ Armed(s, p)' /\ Open(p)
Pays(s, p) ==
  /\ granted'[p] = granted[p] + 1
  /\ Armed(s, p) /\ ~Armed(s, p)'
  /\ Spent(s, p)' \/ ~Open(p)'
Leaves(s, p) ==
  /\ granted'[p] = granted[p]
  /\ Spent(s, p) /\ ~AtWork(s, p)'

\* Another session is at work as it was.
LEMMA OthersAtWork ==
  ASSUME NEW s \in Session, Moves(s), NEW t \in Session \ {s}, NEW p \in Purchase
  PROVE  (Armed(t, p)' <=> Armed(t, p)) /\ (Spent(t, p)' <=> Spent(t, p))
BY DEF Moves, Armed, Spent

\* Nobody who is going to grant has granted.
LEMMA ArmedNotSpent ==
  ASSUME NEW s \in Session, NEW p \in Purchase, Armed(s, p)
  PROVE  ~Spent(s, p)
BY DEF Armed, Spent

LEMMA GrantStep ==
  ASSUME TypeOK, TypeOK', HTypeOK, Remember, NEW s \in Session, NEW p \in Audited, Moves(s), GrantInv(p),
         Idles(s, p) \/ Arms(s, p) \/ Pays(s, p) \/ Leaves(s, p)
  PROVE  GrantInv(p)'
<1> DEFINE A == ArmedOn(p)
           B == {t \in Session : Armed(t, p)'}
           n == Cardinality(A)
           m == Cardinality(B)
           k == torn[p] + raced[p]
           l == torn'[p] + raced'[p]
<1>0. p \in Purchase
  BY AuditedAssumption
<1>1. /\ n \in Nat /\ m \in Nat
      /\ (Armed(s, p) <=> Armed(s, p)') => m = n
      /\ Armed(s, p) => n >= 1
      /\ Armed(s, p) /\ ~Armed(s, p)' => m = n - 1
      /\ ~Armed(s, p) /\ Armed(s, p)' => m = n + 1
  <2>1. A \subseteq Session /\ B \subseteq Session /\ (s \in A <=> Armed(s, p)) /\ (s \in B <=> Armed(s, p)')
    BY DEF ArmedOn
  <2>2. \A t \in Session \ {s} : t \in A <=> t \in B
    BY <1>0, OthersAtWork DEF ArmedOn
  <2> HIDE DEF A, B
  <2> QED
    BY <2>1, <2>2, OneMoves
<1>2. ArmedOn(p)' = B
  BY DEF ArmedOn
<1>3. granted[p] \in Nat /\ granted'[p] \in Nat /\ torn[p] \in Nat /\ raced[p] \in Nat
  BY <1>0 DEF TypeOK, HTypeOK
<1>4. /\ torn'[p] = IF BrokeOff(p) THEN torn[p] + 1 ELSE torn[p]
      /\ raced'[p] = IF TookUpBeside(p) THEN raced[p] + 1 ELSE raced[p]
  BY DEF Remember
<1>5. granted[p] + n <= k + 1 /\ (Open(p) /\ Quiescent(p) => granted[p] <= k)
  BY DEF GrantInv
<1>6. k \in Nat /\ l \in Nat /\ l >= k
  BY <1>3, <1>4
<1> SUFFICES granted'[p] + m <= l + 1 /\ (Open(p)' /\ Quiescent(p)' => granted'[p] <= l)
  BY <1>2 DEF GrantInv
<1> HIDE DEF n, m, k, l
<1>7. CASE Idles(s, p)
  <2>1. m <= n /\ granted'[p] = granted[p]
    BY <1>1, <1>7 DEF Idles
  <2>2. ASSUME Open(p)', Quiescent(p)' PROVE granted[p] <= k
    <3>1. CASE Armed(s, p)
      BY <1>1, <1>3, <1>5, <1>6, <3>1
    <3>2. CASE ~Armed(s, p)
      <4>1. Open(p)
        BY <1>7, <2>2, <3>2 DEF Idles
      <4>2. Quiescent(p)
        BY <1>0, <1>7, <2>2, <3>2, OthersAtWork DEF Quiescent, AtWork, Idles
      <4> QED
        BY <1>5, <4>1, <4>2
    <3> QED
      BY <3>1, <3>2
  <2> QED
    BY <1>1, <1>3, <1>5, <1>6, <2>1, <2>2
<1>8. CASE Arms(s, p)
  <2>1. m = n + 1 /\ granted'[p] = granted[p] /\ ~Quiescent(p)'
    BY <1>1, <1>8 DEF Arms, Quiescent, AtWork
  <2>2. CASE TookUpBeside(p)
    <3>1. l >= k + 1
      BY <1>3, <1>4, <2>2 DEF k, l
    <3> QED
      BY <1>1, <1>3, <1>5, <1>6, <2>1, <3>1
  <2>3. CASE ~TookUpBeside(p)
    <3>1. \A t \in Session \ {s} : ~AtWork(t, p)
      BY <1>8, <2>3 DEF Arms, AtWork, TookUpBeside
    <3>2. Quiescent(p) /\ Open(p)
      BY <1>8, <3>1 DEF Arms, Quiescent
    <3>3. A = {}
      BY <3>2 DEF ArmedOn, Quiescent, AtWork
    <3>4. n = 0
      BY <3>3, FS_EmptySet DEF n
    <3> QED
      BY <1>1, <1>3, <1>5, <1>6, <2>1, <3>2, <3>4
  <2> QED
    BY <2>2, <2>3
<1>9. CASE Pays(s, p)
  <2>1. m = n - 1 /\ granted'[p] = granted[p] + 1
    BY <1>1, <1>9 DEF Pays
  <2>2. ~(Open(p)' /\ Quiescent(p)')
    BY <1>9 DEF Pays, Quiescent, AtWork
  <2> QED
    BY <1>1, <1>3, <1>5, <1>6, <2>1, <2>2
<1>10. CASE Leaves(s, p)
  <2>1. m = n /\ granted'[p] = granted[p]
    BY <1>0, <1>1, <1>10, ArmedNotSpent DEF Leaves, AtWork
  <2>2. ASSUME Open(p)' PROVE l >= k + 1
    <3>1. BrokeOff(p)
      BY <1>10, <2>2 DEF Leaves, AtWork, BrokeOff, Open
    <3> QED
      BY <1>3, <1>4, <3>1 DEF k, l
  <2> QED
    BY <1>1, <1>3, <1>5, <1>6, <2>1, <2>2
<1> QED
  BY <1>7, <1>8, <1>9, <1>10

-----------------------------------------------------------------------------
(* Which periods a subscription keeps. *)

ExtendingFor(u) == {s \in Session : Extending(s, u)}

\* Every period granted and not used up is there, or will come back with the
\* handlers that have read the subscription, but for one for every handler
\* that read it beside another.
DaysInv(u) ==
  /\ due[u] + Cardinality(ExtendingFor(u)) <= days[u] + crossed[u] + 1
  /\ \A s \in ExtendingFor(u) :
       due[u] + Cardinality(ExtendingFor(u)) <= ses[s].saw.days + crossed[u] + 1
  /\ Cardinality(ExtendingFor(u)) <= crossed[u] + 1
  /\ ExtendingFor(u) = {} => due[u] <= days[u] + crossed[u]

\* What a step of s does to the subscription of u: nothing but perhaps to give
\* it up, it reads it, or it writes what it read and one period more.
Spares(s, u) ==
  /\ days'[u] = days[u]
  /\ \A p \in Purchase : Recipient[p] = u => granted'[p] = granted[p]
  /\ Extending(s, u)' => Extending(s, u) /\ ses'[s].saw.days = ses[s].saw.days
Reads(s, u) ==
  /\ days'[u] = days[u]
  /\ \A p \in Purchase : Recipient[p] = u => granted'[p] = granted[p]
  /\ ~Extending(s, u) /\ Extending(s, u)' /\ ses'[s].saw.days = days[u]
Writes(s, u) ==
  /\ days'[u] = ses[s].saw.days + 1
  /\ \E p \in Purchase : Recipient[p] = u /\ granted'[p] > granted[p]
  /\ Extending(s, u) /\ ~Extending(s, u)'

LEMMA OthersExtending ==
  ASSUME NEW s \in Session, Moves(s), NEW t \in Session \ {s}, NEW u \in Slot
  PROVE  Extending(t, u)' <=> Extending(t, u)
BY DEF Moves, Extending

LEMMA DaysStep ==
  ASSUME TypeOK, TypeOK', HTypeOK, Remember, NEW s \in Session, NEW u \in AuditedSlot, Moves(s),
         DaysInv(u), Spares(s, u) \/ Reads(s, u) \/ Writes(s, u)
  PROVE  DaysInv(u)'
<1> DEFINE A == ExtendingFor(u)
           B == {t \in Session : Extending(t, u)'}
           n == Cardinality(A)
           m == Cardinality(B)
<1>0. u \in Slot
  BY SlotsAudited
<1>1. /\ n \in Nat /\ m \in Nat
      /\ (Extending(s, u) <=> Extending(s, u)') => m = n
      /\ Extending(s, u) => n >= 1
      /\ Extending(s, u) /\ ~Extending(s, u)' => m = n - 1
      /\ ~Extending(s, u) /\ Extending(s, u)' => m = n + 1
  <2>1. /\ A \subseteq Session /\ B \subseteq Session
        /\ (s \in A <=> Extending(s, u)) /\ (s \in B <=> Extending(s, u)')
    BY DEF ExtendingFor
  <2>2. \A t \in Session \ {s} : t \in A <=> t \in B
    BY <1>0, OthersExtending DEF ExtendingFor
  <2> HIDE DEF A, B
  <2> QED
    BY <2>1, <2>2, OneMoves
<1>2. ExtendingFor(u)' = B
  BY DEF ExtendingFor
<1>3. /\ days[u] \in Nat /\ days'[u] \in Nat /\ due[u] \in Nat /\ crossed[u] \in Nat
      /\ \A t \in Session : ses[t].saw.days \in Nat /\ ses'[t].saw.days \in Nat
      /\ \A p \in Purchase : granted[p] \in Nat /\ granted'[p] \in Nat
  BY <1>0 DEF TypeOK, HTypeOK, SessionState, Saw
<1>4. /\ due'[u] = IF Granting(u) THEN due[u] + 1 ELSE IF RanOut(u) THEN Left(u) ELSE due[u]
      /\ crossed'[u] = IF ReadBeside(u) THEN crossed[u] + 1 ELSE crossed[u]
  BY DEF Remember
<1>5. \A t \in Session \ {s} :
        ses'[t].saw.days = ses[t].saw.days /\ (t \in B <=> t \in A)
  BY <1>0, OthersExtending DEF Moves, ExtendingFor
<1>6. /\ due[u] + n <= days[u] + crossed[u] + 1
      /\ \A t \in A : due[u] + n <= ses[t].saw.days + crossed[u] + 1
      /\ n <= crossed[u] + 1
      /\ A = {} => due[u] <= days[u] + crossed[u]
  BY DEF DaysInv
<1>7. /\ A \subseteq Session /\ B \subseteq Session
      /\ (s \in A <=> Extending(s, u)) /\ (s \in B <=> Extending(s, u)')
  BY DEF ExtendingFor
<1>8. (B = {} <=> m = 0) /\ (A = {} <=> n = 0)
  <2>1. IsFiniteSet(A) /\ IsFiniteSet(B)
    BY <1>7, SessionAssumption, FS_Subset
  <2> QED
    BY <2>1, FS_EmptySet
<1> SUFFICES /\ due'[u] + m <= days'[u] + crossed'[u] + 1
             /\ \A t \in B : due'[u] + m <= ses'[t].saw.days + crossed'[u] + 1
             /\ m <= crossed'[u] + 1
             /\ m = 0 => due'[u] <= days'[u] + crossed'[u]
  BY <1>2, <1>8 DEF DaysInv
<1> HIDE DEF A, B, n, m
<1>9. crossed'[u] \in Nat /\ crossed'[u] >= crossed[u] /\ crossed'[u] <= crossed[u] + 1
  BY <1>3, <1>4
<1>10. CASE Spares(s, u)
  <2>1. ~Granting(u) /\ ~RanOut(u)
    BY <1>3, <1>10 DEF Spares, Granting, RanOut
  <2>2. due'[u] = due[u] /\ days'[u] = days[u]
    BY <1>4, <1>10, <2>1 DEF Spares
  <2>3. m <= n /\ (m = 0 => n = 0 \/ (n = 1 /\ Extending(s, u)))
    BY <1>1, <1>10 DEF Spares
  <2>4. \A t \in B : t \in A /\ ses'[t].saw.days = ses[t].saw.days
    BY <1>5, <1>7, <1>10 DEF Spares
  <2>5. \A t \in B : due'[u] + m <= ses'[t].saw.days + crossed'[u] + 1
    <3> SUFFICES ASSUME NEW t \in B PROVE due'[u] + m <= ses'[t].saw.days + crossed'[u] + 1
      OBVIOUS
    <3>1. due[u] + n <= ses[t].saw.days + crossed[u] + 1 /\ t \in Session
      BY <1>6, <1>7, <2>4
    <3> QED
      BY <1>1, <1>3, <1>9, <2>2, <2>3, <2>4, <3>1
  <2> QED
    BY <1>1, <1>3, <1>6, <1>8, <1>9, <2>2, <2>3, <2>5
<1>11. CASE Reads(s, u)
  <2>1. ~Granting(u) /\ ~RanOut(u)
    BY <1>3, <1>11 DEF Reads, Granting, RanOut
  <2>2. due'[u] = due[u] /\ days'[u] = days[u] /\ m = n + 1 /\ ses'[s].saw.days = days[u]
    BY <1>1, <1>4, <1>11, <2>1 DEF Reads
  <2>3. n = 0 \/ crossed'[u] = crossed[u] + 1
    <3>1. ASSUME n # 0 PROVE ReadBeside(u)
      <4>1. PICK t \in A : TRUE
        BY <1>8, <3>1
      <4>2. t \in Session \ {s} /\ Extending(t, u)
        BY <1>7, <1>11, <4>1 DEF Reads, A, ExtendingFor
      <4> QED
        BY <1>11, <4>2 DEF Reads, ReadBeside
    <3> QED
      BY <1>4, <3>1
  <2>4. ASSUME NEW t \in B PROVE due'[u] + m <= ses'[t].saw.days + crossed'[u] + 1
    <3>1. CASE t = s
      BY <1>1, <1>3, <1>6, <1>8, <1>9, <2>2, <2>3, <3>1
    <3>2. CASE t # s
      <4>1. t \in A /\ t \in Session /\ ses'[t].saw.days = ses[t].saw.days
        BY <1>5, <1>7, <3>2
      <4>2. n # 0
        BY <1>8, <4>1
      <4>3. due[u] + n <= ses[t].saw.days + crossed[u] + 1
        BY <1>6, <4>1
      <4> QED
        BY <1>1, <1>3, <1>9, <2>2, <2>3, <4>1, <4>2, <4>3
    <3> QED
      BY <3>1, <3>2
  <2> QED
    BY <1>1, <1>3, <1>6, <1>8, <1>9, <2>2, <2>3, <2>4
<1>12. CASE Writes(s, u)
  <2>1. Granting(u)
    BY <1>12 DEF Writes, Granting
  <2>2. due'[u] = due[u] + 1 /\ days'[u] = ses[s].saw.days + 1 /\ m = n - 1 /\ s \in A
    BY <1>1, <1>4, <1>7, <1>12, <2>1 DEF Writes
  <2>3. due[u] + n <= ses[s].saw.days + crossed[u] + 1
    BY <1>6, <2>2
  <2>4. ASSUME NEW t \in B PROVE due'[u] + m <= ses'[t].saw.days + crossed'[u] + 1
    <3>1. t # s
      BY <1>7, <1>12 DEF Writes
    <3>2. t \in A /\ t \in Session /\ ses'[t].saw.days = ses[t].saw.days
      BY <1>5, <1>7, <3>1
    <3>3. due[u] + n <= ses[t].saw.days + crossed[u] + 1
      BY <1>6, <3>2
    <3> QED
      BY <1>1, <1>3, <1>9, <2>2, <3>2, <3>3
  <2>5. ses[s].saw.days \in Nat
    BY <1>3
  <2> QED
    BY <1>1, <1>3, <1>6, <1>9, <2>2, <2>3, <2>4, <2>5
<1> QED
  BY <1>10, <1>11, <1>12

-----------------------------------------------------------------------------
(* What each handler's step is to its purchase and to its recipient. *)

\* A subscription that does not run has no days, and so has been read.
SlotInv(u) == subStatus[u] # "active" => days[u] = 0
SawInv(s) == ses[s].pc = "decide" /\ ~(ses[s].saw.exists /\ ses[s].saw.active) => ses[s].saw.days = 0
ReadInv == (\A u \in Slot : SlotInv(u)) /\ \A s \in Session : SawInv(s)

\* A step of s that touches the row and the recipient of p only.
Touches(s, p) ==
  /\ Moves(s) /\ ses[s].p \in {p, None} /\ ses'[s].p \in {p, None}
  /\ \A q \in Purchase \ {p} : status'[q] = status[q] /\ granted'[q] = granted[q]
  /\ \A u \in Slot \ {Recipient[p]} : days'[u] = days[u]
ForPurchase(s, p) == Idles(s, p) \/ Arms(s, p) \/ Pays(s, p) \/ Leaves(s, p)
ForSlot(s, u) == Spares(s, u) \/ Reads(s, u) \/ Writes(s, u)
Acts(s, p) == Touches(s, p) /\ ForPurchase(s, p) /\ ForSlot(s, Recipient[p])

LEMMA ActsOnOne ==
  ASSUME NEW s \in Session, NEW p \in Purchase, Acts(s, p)
  PROVE  /\ \A q \in Purchase : ForPurchase(s, q)
         /\ \A u \in Slot : ForSlot(s, u)
<1>1. ASSUME NEW q \in Purchase, q # p PROVE Idles(s, q)
  <2>1. ses[s].p # q /\ ses'[s].p # q /\ status'[q] = status[q] /\ granted'[q] = granted[q]
    BY <1>1, NoneAssumption DEF Acts, Touches
  <2> QED
    BY <2>1 DEF Idles, Armed, Spent, Open
<1>2. ASSUME NEW u \in Slot, u # Recipient[p] PROVE Spares(s, u)
  <2>1. ~Extending(s, u)'
    BY <1>2, NoneAssumption DEF Acts, Touches, Extending
  <2>2. days'[u] = days[u] /\ \A q \in Purchase : Recipient[q] = u => granted'[q] = granted[q]
    BY <1>2 DEF Acts, Touches
  <2> QED
    BY <2>1, <2>2 DEF Spares
<1> QED
  BY <1>1, <1>2 DEF ForPurchase, ForSlot, Acts

\* A step that leaves its session at nobody's work.
LEMMA ActsAtRest ==
  ASSUME NEW s \in Session, NEW p \in Purchase, ses[s].p \in {p, None}, Moves(s), ses'[s].p \in {p, None},
         ~AtWork(s, p)', ~Extending(s, Recipient[p])',
         \A q \in Purchase \ {p} : status'[q] = status[q],
         UNCHANGED granted, UNCHANGED days, Open(p)' => Open(p) \/ Armed(s, p)
  PROVE  Acts(s, p)
<1>1. Touches(s, p)
  BY DEF Touches
<1>2. ForPurchase(s, p)
  BY DEF ForPurchase, Idles, Leaves, AtWork
<1>3. ForSlot(s, Recipient[p])
  BY DEF ForSlot, Spares
<1> QED
  BY <1>1, <1>2, <1>3 DEF Acts

LEMMA EndsIdle ==
  ASSUME TypeOK, NEW s \in Session, End(s)
  PROVE  Moves(s) /\ ses'[s] = Idle
BY EndEffect DEF End, TypeOK

LEMMA IdleRests ==
  ASSUME NEW s \in Session, NEW p \in Purchase, NEW u \in Slot, ses'[s] = Idle
  PROVE  ses'[s].p = None /\ ~AtWork(s, p)' /\ ~Extending(s, u)'
BY NoneAssumption DEF Idle, AtWork, Armed, Spent, Extending

\* The handlers that end without a grant.
LEMMA ActsAndEnds ==
  ASSUME IInv, NEW s \in Session, End(s), UNCHANGED granted, UNCHANGED days,
         NEW p \in Purchase, ses[s].p = p,
         \A q \in Purchase \ {p} : status'[q] = status[q], Open(p)' => Open(p) \/ Armed(s, p)
  PROVE  Acts(s, p)
<1>1. TypeOK /\ Recipient[p] \in Slot
  BY RecipientAssumption DEF IInv
<1>2. Moves(s) /\ ses'[s] = Idle
  BY <1>1, EndsIdle
<1> QED
  BY <1>1, <1>2, IdleRests, ActsAtRest

LEMMA EndingActs ==
  ASSUME IInv, NEW s \in Session, NEW p \in Purchase, ses[s].p = p, End(s),
         \/ MarkPaid(s) \/ ClaimMismatch(s) \/ ClaimSkip(s) \/ ClaimCodeOnly(s) \/ Rescue(s)
         \/ FulfilLock(s) \/ FulfilDelisted(s) \/ FulfilHold(s) \/ FulfilDeliver(s)
         \/ ActivateLock(s)
         \/ s = Monitor /\ (RecoverSettle \/ ExhaustSettle)
  PROVE  Acts(s, p)
<1>1. status \in [Purchase -> Status]
  BY DEF IInv, TypeOK
<1>2. UNCHANGED granted /\ UNCHANGED days
  BY DEF MarkPaid, ClaimMismatch, ClaimSkip, ClaimCodeOnly, Rescue, FulfilLock, FulfilDelisted,
     FulfilHold, FulfilDeliver, ActivateLock, RecoverSettle, ExhaustSettle, subVars, ghosts
<1>3. \A q \in Purchase \ {p} : status'[q] = status[q]
  BY <1>1 DEF MarkPaid, ClaimMismatch, ClaimSkip, ClaimCodeOnly, Rescue, FulfilLock,
     FulfilDelisted, FulfilHold, FulfilDeliver, ActivateLock, RecoverSettle, ExhaustSettle, rowVars
<1>4. Open(p)' => Open(p) \/ Armed(s, p)
  <2>1. CASE MarkPaid(s) \/ FulfilHold(s)
    BY <2>1 DEF MarkPaid, FulfilHold, Armed
  <2>2. CASE ClaimMismatch(s) \/ FulfilDelisted(s) \/ FulfilDeliver(s)
    BY <1>1, <2>2 DEF ClaimMismatch, FulfilDelisted, FulfilDeliver, Open
  <2>3. CASE ClaimSkip(s) \/ FulfilLock(s) \/ ActivateLock(s)
    BY <2>3 DEF ClaimSkip, FulfilLock, ActivateLock, rowVars, Open
  <2>4. CASE ClaimCodeOnly(s) \/ Rescue(s)
    BY <1>1, <2>4 DEF ClaimCodeOnly, Settled, Rescue, Rescuable, Open
  <2>5. CASE s = Monitor /\ (RecoverSettle \/ ExhaustSettle)
    BY <1>1, <2>5 DEF RecoverSettle, ExhaustSettle, Open
  <2> QED
    BY <2>1, <2>2, <2>3, <2>4, <2>5
<1> QED
  BY <1>2, <1>3, <1>4, ActsAndEnds

\* A handler that goes on with what it remembers.
LEMMA GoesOn ==
  ASSUME TypeOK, NEW s \in Session, NEW c \in PC, Goto(s, c)
  PROVE  /\ Moves(s) /\ ses'[s].p = ses[s].p /\ ses'[s].kind = ses[s].kind
         /\ ses'[s].mem = ses[s].mem /\ ses'[s].owes = ses[s].owes
         /\ ses'[s].saw = ses[s].saw /\ ses'[s].pc = c
BY DEF TypeOK, Goto, Moves, SessionState

LEMMA GoingActs ==
  ASSUME IInv, NEW s \in Session, NEW p \in Purchase, ses[s].p = p,
         \/ MarkPaid(s) /\ Goto(s, "fulfil")
         \/ ClaimPaid(s)
         \/ FulfilLock(s) /\ Goto(s, "read") /\ Fulfillable(s)
         \/ ActivateLock(s) /\ Goto(s, "extend") /\ Activatable(s)
         \/ PanelDown(s)
         \/ s = Monitor /\ RetryCount
  PROVE  Acts(s, p)
<1>1. status \in [Purchase -> Status] /\ TypeOK /\ SessionInv(s) /\ Recipient[p] \in Slot
  BY RecipientAssumption DEF IInv, TypeOK
<1>2. UNCHANGED granted /\ UNCHANGED days /\ \A q \in Purchase \ {p} : status'[q] = status[q]
  BY <1>1 DEF MarkPaid, ClaimPaid, FulfilLock, ActivateLock, PanelDown, RetryCount, rowVars,
     subVars, ghosts
<1>3. CASE MarkPaid(s) /\ Goto(s, "fulfil")
  <2>1. /\ Moves(s) /\ ses'[s].p = p /\ ses'[s].kind = "balance" /\ ses'[s].pc = "fulfil"
    BY <1>1, <1>3, GoesOn DEF MarkPaid, SessionInv, Marking, PC
  <2>2. Armed(s, p) /\ Armed(s, p)' /\ ~Spent(s, p) /\ ~Spent(s, p)' /\ ~Extending(s, Recipient[p])'
    BY <1>3, <2>1 DEF MarkPaid, Armed, Spent, Extending
  <2> QED
    BY <1>2, <2>1, <2>2 DEF Acts, Touches, ForPurchase, Idles, ForSlot, Spares
<1>4. CASE ClaimPaid(s)
  <2>1. Moves(s) /\ ses'[s].p = p /\ ses'[s].pc = "read" /\ ses[s].pc = "claim" /\ Open(p)
    BY <1>1, <1>4, GoesOn DEF ClaimPaid, Settled, Open, PC
  <2>2. ~AtWork(s, p) /\ Armed(s, p)' /\ ~Extending(s, Recipient[p])'
    BY <2>1 DEF AtWork, Armed, Spent, Extending
  <2> QED
    BY <1>2, <2>1, <2>2 DEF Acts, Touches, ForPurchase, Arms, ForSlot, Spares
<1>5. CASE FulfilLock(s) /\ Goto(s, "read") /\ Fulfillable(s)
  <2>1. /\ Moves(s) /\ ses'[s].p = p /\ ses'[s].pc = "read" /\ ses[s].pc = "fulfil"
        /\ ses[s].kind # "balance" => Open(p)
        /\ status' = status
    BY <1>1, <1>5, GoesOn DEF FulfilLock, Fulfillable, Open, PC, rowVars
  <2>2. /\ ses[s].kind = "balance" => Armed(s, p)
        /\ ses[s].kind # "balance" => ~AtWork(s, p)
        /\ ~Spent(s, p) /\ ~Spent(s, p)' /\ Armed(s, p)' /\ ~Extending(s, Recipient[p])'
    BY <2>1 DEF AtWork, Armed, Spent, Extending
  <2>3. ForPurchase(s, p)
    BY <1>2, <2>1, <2>2 DEF ForPurchase, Idles, Arms, Open
  <2> QED
    BY <1>2, <2>1, <2>2, <2>3 DEF Acts, Touches, ForSlot, Spares
<1>6. CASE ActivateLock(s) /\ Goto(s, "extend") /\ Activatable(s)
  <2>1. /\ Moves(s) /\ ses'[s].p = p /\ ses'[s].pc = "extend" /\ ses[s].pc = "activate"
        /\ status' = status
    BY <1>1, <1>6, GoesOn DEF ActivateLock, PC, rowVars
  <2>2. ~Spent(s, p) /\ ~Spent(s, p)' /\ Armed(s, p)' /\ ~Extending(s, Recipient[p])'
    BY <2>1 DEF Armed, Spent, Extending
  <2>3. Armed(s, p) \/ (~AtWork(s, p) /\ Open(p))
    <3>1. CASE ses[s].kind = "callback"
      BY <1>6, <2>1, <3>1 DEF Activatable, Loaded, Armed
    <3>2. CASE ses[s].kind # "callback"
      BY <1>6, <2>1, <3>2 DEF Activatable, Loaded, Armed, AtWork, Spent, Open
    <3> QED
      BY <3>1, <3>2
  <2>4. ForPurchase(s, p)
    BY <1>2, <2>1, <2>2, <2>3 DEF ForPurchase, Idles, Arms, Open
  <2> QED
    BY <1>2, <2>1, <2>2, <2>4 DEF Acts, Touches, ForSlot, Spares
<1>7. CASE PanelDown(s)
  <2>1. /\ Moves(s) /\ ses'[s].p = p /\ ses'[s].pc = "finish" /\ ses[s].pc = "panel"
        /\ ses'[s].owes /\ ses'[s].saw = ses[s].saw /\ status' = status
    BY <1>1, <1>7, GoesOn DEF PanelDown, PC, rowVars, SessionInv, Owing
  <2>2. /\ Armed(s, p) /\ ~Spent(s, p) /\ ~Spent(s, p)'
        /\ Extending(s, Recipient[p])
    BY <2>1 DEF Armed, Spent, Extending
  <2> QED
    BY <1>2, <2>1, <2>2 DEF Acts, Touches, ForPurchase, Idles, ForSlot, Spares
<1>8. CASE s = Monitor /\ RetryCount
  <2>1. ses[s].pc = "count" /\ ses[s].kind \in {"retryPaid", "retryHeld"}
    BY <1>1, <1>8 DEF RetryCount, SessionInv, Counting
  <2>2. PICK c \in {"fulfil", "activate"} : Goto(s, c)
    BY <1>8 DEF RetryCount
  <2>3. Moves(s) /\ ses'[s].p = p /\ ses'[s].pc = c /\ ses'[s].kind = ses[s].kind /\ status' = status
    BY <1>1, <1>8, <2>2, GoesOn DEF RetryCount, PC
  <2>4. ~AtWork(s, p)' /\ ~Extending(s, Recipient[p])'
    BY <2>1, <2>3 DEF AtWork, Armed, Spent, Extending
  <2> QED
    BY <1>2, <2>3, <2>4, ActsAtRest DEF Open
<1> QED
  BY <1>3, <1>4, <1>5, <1>6, <1>7, <1>8

\* The handlers that read the subscription.
LEMMA ReadingActs ==
  ASSUME IInv, NEW s \in Session, NEW p \in Purchase, ses[s].p = p,
         FulfilRead(s) \/ ActivateExtend(s)
  PROVE  Acts(s, p) /\ ses'[s].saw = Seen(Recipient[p])
<1>1. /\ status \in [Purchase -> Status] /\ TypeOK /\ Recipient[p] \in Slot
      /\ ses[s] \in SessionState /\ Seen(Recipient[p]) \in Saw
  BY RecipientAssumption DEF IInv, TypeOK, Seen, Saw
<1>2. /\ UNCHANGED granted /\ UNCHANGED days /\ \A q \in Purchase \ {p} : status'[q] = status[q]
  BY <1>1 DEF FulfilRead, ActivateExtend, FlushPaid, FlushHeld, subVars, ghosts
<1>3. /\ Moves(s) /\ ses'[s].p = p /\ ses'[s].saw = Seen(Recipient[p])
      /\ ses'[s].pc = "decide" \/ (ses'[s].pc = "panel" /\ ses'[s].owes)
  <2>1. CASE FulfilRead(s)
    <3> DEFINE x == [ses[s] EXCEPT !.pc = "decide", !.saw = Seen(Recipient[ses[s].p])]
    <3>1. x \in SessionState /\ x.p = p /\ x.pc = "decide" /\ x.saw = Seen(Recipient[p])
      BY <1>1 DEF SessionState, PC
    <3>2. ses' = [ses EXCEPT ![s] = x]
      BY <1>1, <2>1 DEF FulfilRead, TypeOK
    <3> HIDE DEF x
    <3> QED
      BY <1>1, <3>1, <3>2 DEF TypeOK, Moves
  <2>2. CASE ActivateExtend(s)
    <3> DEFINE x == [ses[s] EXCEPT !.pc = "panel", !.saw = Seen(Recipient[ses[s].p]), !.owes = TRUE]
    <3>1. /\ x \in SessionState /\ x.p = p /\ x.pc = "panel" /\ x.saw = Seen(Recipient[p])
          /\ x.owes
      BY <1>1 DEF SessionState, PC
    <3>2. ses' = [ses EXCEPT ![s] = x]
      BY <1>1, <2>2 DEF ActivateExtend, TypeOK
    <3> HIDE DEF x
    <3> QED
      BY <1>1, <3>1, <3>2 DEF TypeOK, Moves
  <2> QED
    BY <2>1, <2>2
<1>4. ses[s].pc \in {"read", "extend"}
  BY DEF FulfilRead, ActivateExtend
<1>5. /\ Armed(s, p) /\ Armed(s, p)' /\ ~Spent(s, p) /\ ~Spent(s, p)'
      /\ ~Extending(s, Recipient[p]) /\ Extending(s, Recipient[p])'
  BY <1>3, <1>4 DEF Armed, Spent, Extending
<1>6. Seen(Recipient[p]).days = days[Recipient[p]]
  BY DEF Seen
<1> QED
  BY <1>2, <1>3, <1>5, <1>6 DEF Acts, Touches, ForPurchase, Idles, ForSlot, Reads

\* The handlers that commit the period.
LEMMA GrantsToOne ==
  ASSUME TypeOK, NEW p \in Purchase, NEW n \in Nat, Grant(p, n)
  PROVE  /\ days'[Recipient[p]] = n /\ granted'[p] = granted[p] + 1
         /\ subStatus'[Recipient[p]] = "active"
         /\ \A q \in Purchase \ {p} : granted'[q] = granted[q]
         /\ \A u \in Slot \ {Recipient[p]} : days'[u] = days[u] /\ subStatus'[u] = subStatus[u]
<1>1. Recipient[p] \in Slot
  BY RecipientAssumption
<1> QED
  BY <1>1 DEF TypeOK, Grant

LEMMA GrantingActs ==
  ASSUME IInv, ReadInv, NEW s \in Session, NEW p \in Purchase, ses[s].p = p,
         FulfilGrant(s) \/ PanelCommits(s) \/ (ActivateDeliver(s) /\ ses[s].owes)
  PROVE  /\ Acts(s, p) /\ ses'[s].pc # "decide"
         /\ \E n \in Nat : Grant(p, n)
<1>1. /\ status \in [Purchase -> Status] /\ TypeOK /\ Recipient[p] \in Slot /\ SessionInv(s)
      /\ ses[s] \in SessionState /\ ses[s].saw.days \in Nat /\ granted[p] \in Nat
  BY RecipientAssumption DEF IInv, TypeOK, SessionState, Saw
<1>2. \A q \in Purchase \ {p} : status'[q] = status[q]
  BY <1>1 DEF FulfilGrant, PanelCommits, ActivateDeliver, FlushPaid, FlushHeld
<1>3. /\ Grant(p, ses[s].saw.days + 1) /\ ses[s].saw.days + 1 \in Nat
      /\ Armed(s, p) /\ ~Spent(s, p) /\ Extending(s, Recipient[p])
  <2>1. CASE FulfilGrant(s)
    <3>1. ses[s].saw.days = 0
      BY <2>1 DEF FulfilGrant, MustHold, ReadInv, SawInv
    <3> QED
      BY <2>1, <3>1 DEF FulfilGrant, Armed, Spent, Extending
  <2>2. CASE PanelCommits(s)
    BY <1>1, <2>2 DEF PanelCommits, NewDays, Armed, Spent, Extending
  <2>3. CASE ActivateDeliver(s) /\ ses[s].owes
    BY <1>1, <2>3 DEF ActivateDeliver, CommitOwed, NewDays, Armed, Spent, Extending
  <2> QED
    BY <2>1, <2>2, <2>3
<1>4. /\ Moves(s) /\ ses'[s].p \in {p, None} /\ ses'[s].pc # "decide"
      /\ ~Armed(s, p)' /\ ~Extending(s, Recipient[p])'
      /\ Spent(s, p)' \/ ~Open(p)'
  <2>1. CASE FulfilGrant(s)
    <3>1. Moves(s) /\ ses'[s].p = p /\ ses'[s].pc = "deliver"
      BY <1>1, <2>1, GoesOn DEF FulfilGrant, PC
    <3> QED
      BY <3>1 DEF Armed, Spent, Extending
  <2>2. CASE PanelCommits(s)
    <3> DEFINE x == [ses[s] EXCEPT !.pc = "finish", !.owes = FALSE]
    <3>1. x \in SessionState /\ x.p = p /\ x.pc = "finish" /\ x.owes = FALSE
      BY <1>1 DEF SessionState, PC
    <3>2. ses' = [ses EXCEPT ![s] = x]
      BY <1>1, <2>2 DEF PanelCommits, TypeOK
    <3> HIDE DEF x
    <3>3. Moves(s) /\ ses'[s].p = p /\ ses'[s].pc = "finish" /\ ses'[s].owes = FALSE
      BY <1>1, <3>1, <3>2 DEF TypeOK, Moves
    <3> QED
      BY <3>3 DEF Armed, Spent, Extending
  <2>3. CASE ActivateDeliver(s) /\ ses[s].owes
    <3>1. Moves(s) /\ ses'[s] = Idle
      BY <1>1, <2>3, EndsIdle DEF ActivateDeliver
    <3>2. ~Open(p)'
      BY <1>1, <2>3 DEF ActivateDeliver, Open
    <3>3. ses'[s].pc # "decide"
      BY <3>1 DEF Idle
    <3> QED
      BY <1>1, <3>1, <3>2, <3>3, IdleRests DEF AtWork
  <2> QED
    BY <2>1, <2>2, <2>3
<1>5. /\ days'[Recipient[p]] = ses[s].saw.days + 1 /\ granted'[p] = granted[p] + 1
      /\ \A q \in Purchase \ {p} : granted'[q] = granted[q]
      /\ \A u \in Slot \ {Recipient[p]} : days'[u] = days[u]
  BY <1>1, <1>3, GrantsToOne
<1>6. granted'[p] > granted[p]
  BY <1>1, <1>5
<1>7. Touches(s, p)
  BY <1>2, <1>4, <1>5 DEF Touches
<1>8. ForPurchase(s, p)
  BY <1>3, <1>4, <1>5 DEF ForPurchase, Pays
<1>9. ForSlot(s, Recipient[p])
  BY <1>3, <1>4, <1>5, <1>6 DEF ForSlot, Writes
<1> QED
  BY <1>3, <1>4, <1>7, <1>8, <1>9 DEF Acts

\* DELIVERED after the panel's commit.
LEMMA DeliveringActs ==
  ASSUME IInv, NEW s \in Session, NEW p \in Purchase, ses[s].p = p, ActivateDeliver(s), ~ses[s].owes
  PROVE  Acts(s, p)
<1>1. status \in [Purchase -> Status]
  BY DEF IInv, TypeOK
<1>2. /\ End(s) /\ UNCHANGED granted /\ UNCHANGED days
      /\ \A q \in Purchase \ {p} : status'[q] = status[q]
      /\ ~Open(p)'
  BY <1>1 DEF ActivateDeliver, CommitOwed, subVars, Open
<1> QED
  BY <1>2, ActsAndEnds

LEMMA SessionActs ==
  ASSUME IInv, ReadInv, NEW s \in Session, SessionStep(s) \/ (s = Monitor /\ MonitorStep)
  PROVE  ses[s].p \in Purchase /\ Acts(s, ses[s].p)
<1>1. ses[s].pc # "idle"
  BY DEF SessionStep, MarkPaid, ClaimMismatch, ClaimSkip, ClaimCodeOnly, ClaimPaid, Rescue,
         FulfilLock, FulfilDelisted, FulfilRead, FulfilHold, FulfilGrant, FulfilDeliver,
         ActivateLock, ActivateExtend, PanelCommits, PanelDown, ActivateDeliver, MonitorStep,
         RecoverSettle, ExhaustSettle, RetryCount
<1>2. PICK p \in Purchase : p = ses[s].p
  BY <1>1, Knows
<1>3. CASE ClaimMismatch(s) \/ ClaimSkip(s) \/ ClaimCodeOnly(s) \/ Rescue(s) \/ FulfilDelisted(s)
           \/ FulfilHold(s) \/ FulfilDeliver(s)
           \/ (s = Monitor /\ (RecoverSettle \/ ExhaustSettle))
  <2>1. End(s)
    BY <1>3 DEF ClaimMismatch, ClaimSkip, ClaimCodeOnly, Rescue, FulfilDelisted, FulfilHold,
       FulfilDeliver, RecoverSettle, ExhaustSettle
  <2> QED
    BY <1>2, <1>3, <2>1, EndingActs
<1>4. CASE MarkPaid(s)
  BY <1>2, <1>4, EndingActs, GoingActs DEF MarkPaid
<1>5. CASE FulfilLock(s)
  BY <1>2, <1>5, EndingActs, GoingActs DEF FulfilLock
<1>6. CASE ActivateLock(s)
  BY <1>2, <1>6, EndingActs, GoingActs DEF ActivateLock
<1>7. CASE ClaimPaid(s) \/ PanelDown(s) \/ (s = Monitor /\ RetryCount)
  BY <1>2, <1>7, GoingActs
<1>8. CASE FulfilRead(s) \/ ActivateExtend(s)
  BY <1>2, <1>8, ReadingActs
<1>9. CASE FulfilGrant(s) \/ PanelCommits(s) \/ ActivateDeliver(s)
  BY <1>2, <1>9, GrantingActs, DeliveringActs
<1> QED
  BY <1>2, <1>3, <1>4, <1>5, <1>6, <1>7, <1>8, <1>9 DEF SessionStep, MonitorStep

\* An exception: only a webhook goes on, to rescue.
LEMMA FailActs ==
  ASSUME IInv, NEW s \in Session, Fail(s)
  PROVE  ses[s].p \in Purchase /\ Acts(s, ses[s].p) /\ ses'[s].pc # "decide"
<1>1. PICK p \in Purchase : p = ses[s].p
  BY Knows DEF Fail
<1>2. /\ TypeOK /\ status' = status /\ granted' = granted /\ days' = days
      /\ Recipient[p] \in Slot
  BY RecipientAssumption DEF IInv, Fail, rowVars, subVars, ghosts
<1>0. Open(p)' <=> Open(p)
  BY <1>2 DEF Open
<1>3. CASE End(s)
  <2>1. Moves(s) /\ ses'[s] = Idle
    BY <1>2, <1>3, EndsIdle
  <2>2. ses'[s].pc # "decide"
    BY <2>1 DEF Idle
  <2>3. Acts(s, p)
    BY <1>0, <1>1, <1>2, <1>3, ActsAndEnds
  <2> QED
    BY <1>1, <2>2, <2>3
<1>4. CASE ~End(s)
  <2> DEFINE x == [Idle EXCEPT !.kind = "webhook", !.p = ses[s].p, !.pc = "rescue"]
  <2>1. x \in SessionState /\ x.p = p /\ x.pc = "rescue" /\ x.kind = "webhook"
    BY <1>1, IdleType DEF SessionState, Kind, PC, Idle
  <2>2. ses' = [ses EXCEPT ![s] = x]
    BY <1>4 DEF Fail
  <2> HIDE DEF x
  <2>3. Moves(s) /\ ses'[s] = x
    BY <1>2, <2>1, <2>2 DEF TypeOK, Moves
  <2>4. ~AtWork(s, p)' /\ ~Extending(s, Recipient[p])'
    BY <2>1, <2>3 DEF AtWork, Armed, Spent, Extending
  <2>5. Acts(s, p)
    BY <1>0, <1>1, <1>2, <2>1, <2>3, <2>4, ActsAtRest
  <2> QED
    BY <1>1, <2>1, <2>3, <2>5
<1> QED
  BY <1>3, <1>4

\* The beginnings: a balance gift and a callback may be at work at once.
LEMMA StartActs ==
  ASSUME IInv, NEW s \in Session, NEW p \in Purchase,
         Start(s, p) \/ (s = Monitor /\ MonitorSelect(p))
  PROVE  Acts(s, p) /\ ses'[s].pc # "decide"
<1>1. /\ TypeOK /\ granted' = granted /\ days' = days /\ ses[s] = Idle
      /\ Recipient[p] \in Slot
  BY RecipientAssumption DEF IInv, Start, BuyFromBalance, Webhook, PressLink, EnterCode, PressCallback,
     MonitorSelect, RecoverSelect, RetryPaidSelect, RetryHeldSelect, ExhaustSelect, Begin,
     subVars, ghosts
<1>2. ses[s].p = None /\ ~AtWork(s, p) /\ ~Spent(s, p) /\ ~Extending(s, Recipient[p])
  BY <1>1, NoneAssumption DEF Idle, AtWork, Armed, Spent, Extending
<1>3. CASE BuyFromBalance(s, p)
  <2>0. "balance" \in Kind /\ "mark" \in PC
    BY DEF Kind, PC
  <2>1. Moves(s) /\ ses'[s].p = p /\ ses'[s].pc = "mark"
    BY <1>1, <1>3, <2>0, BeginEffect DEF BuyFromBalance
  <2>3. status[p] = "absent" /\ \A q \in Purchase \ {p} : status'[q] = status[q]
    BY <1>1, <1>3 DEF BuyFromBalance, TypeOK
  <2>2. Armed(s, p)' /\ ~Extending(s, Recipient[p])' /\ Open(p)
    BY <2>1, <2>3 DEF Armed, Extending, Open
  <2> QED
    BY <1>1, <1>2, <2>1, <2>2, <2>3 DEF Acts, Touches, ForPurchase, Arms, ForSlot, Spares
<1>4. CASE PressCallback(s, p)
  <2> DEFINE x == [Idle EXCEPT !.kind = "callback", !.p = p, !.pc = "activate", !.mem = status[p]]
  <2>1. /\ x \in SessionState /\ x.p = p /\ x.pc = "activate" /\ x.mem = status[p]
        /\ x.kind = "callback"
    BY <1>1, IdleType DEF SessionState, Kind, PersonKind, PC, TypeOK, Idle
  <2>2. ses' = [ses EXCEPT ![s] = x] /\ status' = status
    BY <1>4 DEF PressCallback, rowVars
  <2> HIDE DEF x
  <2>3. Moves(s) /\ ses'[s] = x
    BY <1>1, <2>1, <2>2 DEF TypeOK, Moves
  <2>4. /\ ~Spent(s, p)' /\ ~Extending(s, Recipient[p])'
        /\ Armed(s, p)' => Open(p)
    BY <2>1, <2>3 DEF Armed, Spent, Extending, Open
  <2>5. ForPurchase(s, p)
    BY <1>1, <1>2, <2>2, <2>4 DEF ForPurchase, Idles, Arms, Open
  <2> QED
    BY <1>1, <1>2, <2>1, <2>2, <2>3, <2>4, <2>5 DEF Acts, Touches, ForSlot, Spares
<1>5. CASE \E k \in Kind, c \in {"claim", "activate", "settle", "count"} :
             Begin(s, k, p, c) /\ k # "callback" /\ k # "balance" /\ status' = status
  <2>1. PICK k \in Kind, c \in {"claim", "activate", "settle", "count"} :
             Begin(s, k, p, c) /\ k # "callback" /\ k # "balance" /\ status' = status
    BY <1>5
  <2>2. c \in PC
    BY DEF PC
  <2>3. Moves(s) /\ ses'[s].p = p /\ ses'[s].pc = c /\ ses'[s].kind = k
    BY <1>1, <2>1, <2>2, BeginEffect
  <2>4. ~AtWork(s, p)' /\ ~Extending(s, Recipient[p])'
    BY <2>1, <2>3 DEF AtWork, Armed, Spent, Extending
  <2> QED
    BY <1>1, <1>2, <2>1, <2>3, <2>4, ActsAtRest DEF Open
<1> QED
  BY <1>3, <1>4, <1>5
  DEF Start, Webhook, PressLink, EnterCode, MonitorSelect, RecoverSelect, RetryPaidSelect,
      RetryHeldSelect, ExhaustSelect, Kind, PersonKind, MonitorKind, rowVars

-----------------------------------------------------------------------------
(* The bounds are kept. *)

HInv ==
  /\ HTypeOK /\ ReadInv
  /\ \A p \in Audited : GrantInv(p)
  /\ \A u \in AuditedSlot : DaysInv(u)

LEMMA ActingKeeps ==
  ASSUME IInv, IInv', HInv, Remember, ReadInv', NEW s \in Session, Moves(s),
         \A p \in Purchase : ForPurchase(s, p), \A u \in Slot : ForSlot(s, u)
  PROVE  HInv'
<1>1. TypeOK /\ TypeOK' /\ HTypeOK'
  BY HTypeStep DEF IInv, HInv
<1>2. ASSUME NEW p \in Audited PROVE GrantInv(p)'
  BY <1>1, GrantStep, SlotsAudited DEF HInv, ForPurchase
<1>3. ASSUME NEW u \in AuditedSlot PROVE DaysInv(u)'
  BY <1>1, DaysStep, SlotsAudited DEF HInv, ForSlot
<1> QED
  BY <1>1, <1>2, <1>3 DEF HInv

\* A handler that does not read leaves what was read as it was.
LEMMA ReadKept ==
  ASSUME ReadInv, NEW s \in Session, Moves(s), ses'[s].pc # "decide", UNCHANGED subVars
  PROVE  ReadInv'
<1>1. \A u \in Slot : SlotInv(u)'
  BY DEF ReadInv, SlotInv, subVars
<1>2. \A t \in Session : SawInv(t)'
  BY DEF ReadInv, SawInv, Moves
<1> QED
  BY <1>1, <1>2 DEF ReadInv

LEMMA ReadSession ==
  ASSUME IInv, IInv', ReadInv, NEW s \in Session, SessionStep(s) \/ (s = Monitor /\ MonitorStep)
  PROVE  ReadInv'
<1>1. PICK p \in Purchase : p = ses[s].p
  BY SessionActs
<1>2. TypeOK /\ TypeOK' /\ Moves(s) /\ Recipient[p] \in Slot
  BY <1>1, SessionActs, RecipientAssumption DEF IInv, Acts, Touches
<1>3. CASE FulfilRead(s) \/ ActivateExtend(s)
  <2>1. ses'[s].saw = Seen(Recipient[p])
    BY <1>1, <1>3, ReadingActs
  <2>2. \A u \in Slot : days'[u] = days[u] /\ (subStatus'[u] = subStatus[u] \/ days[u] = 0)
    BY <1>1, <1>2, <1>3 DEF FulfilRead, ActivateExtend, TypeOK, Lapsed, subVars
  <2>3. \A u \in Slot : SlotInv(u)'
    BY <2>2 DEF ReadInv, SlotInv
  <2>4. SawInv(s)'
    <3>1. SlotInv(Recipient[p]) /\ days[Recipient[p]] \in Nat
      BY <1>2 DEF ReadInv, TypeOK
    <3>2. ~(Seen(Recipient[p]).exists /\ Seen(Recipient[p]).active) => Seen(Recipient[p]).days = 0
      <4>1. Seen(Recipient[p]).exists <=> subStatus[Recipient[p]] # "none"
        BY Zenon DEF Seen
      <4>2. Seen(Recipient[p]).active <=> (subStatus[Recipient[p]] = "active" /\ days[Recipient[p]] > 0)
        BY Zenon DEF Seen
      <4>3. Seen(Recipient[p]).days = days[Recipient[p]]
        BY Zenon DEF Seen
      <4> QED
        BY <3>1, <4>1, <4>2, <4>3 DEF SlotInv
    <3> QED
      BY <2>1, <3>2 DEF SawInv
  <2>5. \A t \in Session : SawInv(t)'
    BY <1>2, <2>4 DEF ReadInv, SawInv, Moves
  <2> QED
    BY <2>3, <2>5 DEF ReadInv
<1>4. CASE FulfilGrant(s) \/ PanelCommits(s) \/ (ActivateDeliver(s) /\ ses[s].owes)
  <2>1. ses'[s].pc # "decide" /\ \E n \in Nat : Grant(p, n)
    BY <1>1, <1>4, GrantingActs
  <2>2. /\ subStatus'[Recipient[p]] = "active"
        /\ \A u \in Slot \ {Recipient[p]} : days'[u] = days[u] /\ subStatus'[u] = subStatus[u]
    BY <1>2, <2>1, GrantsToOne
  <2>3. \A u \in Slot : SlotInv(u)'
    BY <2>2 DEF ReadInv, SlotInv
  <2>4. \A t \in Session : SawInv(t)'
    BY <1>2, <2>1 DEF ReadInv, SawInv, Moves
  <2> QED
    BY <2>3, <2>4 DEF ReadInv
<1>5. CASE /\ ~FulfilRead(s) /\ ~ActivateExtend(s) /\ ~FulfilGrant(s) /\ ~PanelCommits(s)
           /\ ~(ActivateDeliver(s) /\ ses[s].owes)
  <2>1. UNCHANGED subVars
    BY <1>5
    DEF SessionStep, MarkPaid, ClaimMismatch, ClaimSkip, ClaimCodeOnly, ClaimPaid, Rescue,
        FulfilLock, FulfilDelisted, FulfilHold, FulfilDeliver, ActivateLock, PanelDown,
        ActivateDeliver, CommitOwed, MonitorStep, RecoverSettle, ExhaustSettle, RetryCount
  <2>2. End(s) \/ \E c \in PC \ {"decide"} : Goto(s, c)
    BY <1>5
    DEF SessionStep, MarkPaid, ClaimMismatch, ClaimSkip, ClaimCodeOnly, ClaimPaid, Rescue,
        FulfilLock, FulfilDelisted, FulfilHold, FulfilDeliver, ActivateLock, PanelDown,
        ActivateDeliver, MonitorStep, RecoverSettle, ExhaustSettle, RetryCount, PC
  <2>3. ses'[s].pc # "decide"
    BY <1>2, <2>2, EndEffect, GoesOn
  <2> QED
    BY <1>2, <2>1, <2>3, ReadKept
<1> QED
  BY <1>3, <1>4, <1>5

LEMMA SessionKeeps ==
  ASSUME IInv, IInv', HInv, Remember, NEW s \in Session,
         SessionStep(s) \/ (s = Monitor /\ MonitorStep) \/ Fail(s)
  PROVE  HInv'
<1>0. ReadInv
  BY DEF HInv
<1>1. ses[s].p \in Purchase /\ Acts(s, ses[s].p)
  BY <1>0, SessionActs, FailActs
<1>2. ReadInv'
  <2>1. CASE Fail(s)
    BY <1>0, <1>1, <2>1, FailActs, ReadKept DEF Fail, Acts, Touches
  <2> QED
    BY <1>0, <2>1, ReadSession
<1> QED
  BY <1>1, <1>2, ActsOnOne, ActingKeeps DEF Acts, Touches

LEMMA StartKeeps ==
  ASSUME IInv, IInv', HInv, Remember, NEW s \in Session, NEW p \in Purchase,
         Start(s, p) \/ (s = Monitor /\ MonitorSelect(p))
  PROVE  HInv'
<1>1. Acts(s, p) /\ ses'[s].pc # "decide"
  BY StartActs
<1>2. UNCHANGED subVars
  BY DEF Start, BuyFromBalance, Webhook, PressLink, EnterCode, PressCallback, MonitorSelect,
         RecoverSelect, RetryPaidSelect, RetryHeldSelect, ExhaustSelect
<1>3. ReadInv'
  BY <1>1, <1>2, ReadKept DEF HInv, Acts, Touches
<1> QED
  BY <1>1, <1>3, ActsOnOne, ActingKeeps DEF Acts, Touches

\* What happens to the rows while no handler moves.
LEMMA NobodyActs ==
  ASSUME UNCHANGED <<ses, granted>>, NEW s \in Session
  PROVE  /\ Moves(s) <=> ses' \in [Session -> SessionState]
         /\ \A p \in Purchase : (Open(p)' => Open(p)) => Idles(s, p)
         /\ \A u \in Slot : days'[u] = days[u] => Spares(s, u)
BY DEF Moves, Idles, Armed, Spent, Spares, Extending

LEMMA RowsKeep ==
  ASSUME IInv, IInv', HInv, Remember, NEW p \in Purchase,
         CreatePurchase(p) \/ GrowStale(p) \/ GrowOld(p)
  PROVE  HInv'
<1>1. UNCHANGED <<ses, granted>> /\ UNCHANGED subVars /\ Monitor \in Session
  BY MonitorAssumption DEF CreatePurchase, GrowStale, GrowOld, ghosts
<1>2. Moves(Monitor)
  BY <1>1, NobodyActs DEF IInv, TypeOK
<1>3. \A q \in Purchase : ForPurchase(Monitor, q)
  <2>1. \A q \in Purchase : Open(q)' => Open(q)
    BY DEF CreatePurchase, GrowStale, GrowOld, Open, IInv, TypeOK
  <2> QED
    BY <1>1, <2>1, NobodyActs DEF ForPurchase
<1>4. \A u \in Slot : ForSlot(Monitor, u)
  BY <1>1, NobodyActs DEF ForSlot, subVars
<1>5. ReadInv'
  <2>1. \A u \in Slot : SlotInv(u)'
    BY <1>1 DEF HInv, ReadInv, SlotInv, subVars
  <2>2. \A t \in Session : SawInv(t)'
    BY <1>1 DEF HInv, ReadInv, SawInv
  <2> QED
    BY <2>1, <2>2 DEF ReadInv
<1> QED
  BY <1>1, <1>2, <1>3, <1>4, <1>5, ActingKeeps

LEMMA SizeOf ==
  ASSUME NEW u \in Slot
  PROVE  /\ IsFiniteSet(ExtendingFor(u)) /\ Cardinality(ExtendingFor(u)) \in Nat
         /\ Cardinality(ExtendingFor(u)) = 0 <=> ExtendingFor(u) = {}
<1>1. ExtendingFor(u) \subseteq Session
  BY DEF ExtendingFor
<1>2. IsFiniteSet(ExtendingFor(u))
  BY <1>1, SessionAssumption, FS_Subset
<1> QED
  BY <1>2, FS_CardinalityType, FS_EmptySet

\* The periods that have run out are due no longer.
LEMMA LapseKeeps ==
  ASSUME IInv, IInv', HInv, Remember, NEW v \in Slot, Lapse(v)
  PROVE  HInv'
<1>1. /\ UNCHANGED <<ses, granted>> /\ UNCHANGED status /\ UNCHANGED subStatus /\ Monitor \in Session
      /\ TypeOK /\ TypeOK' /\ HTypeOK /\ HTypeOK'
  BY MonitorAssumption, HTypeStep DEF Lapse, rowVars, ghosts, IInv, HInv
<1>2. days[v] > 0 /\ days'[v] = 0 /\ \A u \in Slot \ {v} : days'[u] = days[u]
  BY <1>1 DEF Lapse, TypeOK
<1>3. Moves(Monitor)
  BY <1>1, NobodyActs DEF TypeOK
<1>4. ASSUME NEW p \in Audited PROVE GrantInv(p)'
  <2>1. Idles(Monitor, p)
    BY <1>1, NobodyActs, SlotsAudited DEF Open
  <2> QED
    BY <1>1, <1>3, <2>1, GrantStep DEF HInv
<1>5. ASSUME NEW u \in AuditedSlot, u # v PROVE DaysInv(u)'
  <2>1. Spares(Monitor, u)
    BY <1>1, <1>2, <1>5, NobodyActs, SlotsAudited
  <2> QED
    BY <1>1, <1>3, <2>1, DaysStep DEF HInv
<1>6. ASSUME v \in AuditedSlot PROVE DaysInv(v)'
  <2> DEFINE E == ExtendingFor(v)
             n == Cardinality(E)
  <2>1. n \in Nat /\ (n = 0 <=> E = {})
    BY SizeOf
  <2>2. ExtendingFor(v)' = E
    BY <1>1 DEF ExtendingFor, Extending
  <2>3. /\ due[v] + n <= days[v] + crossed[v] + 1
        /\ n <= crossed[v] + 1
        /\ E = {} => due[v] <= days[v] + crossed[v]
    BY <1>6 DEF HInv, DaysInv
  <2>4. /\ days[v] \in Nat /\ due[v] \in Nat /\ crossed[v] \in Nat
        /\ \A t \in Session : ses[t].saw.days \in Nat
    BY <1>1, <1>6 DEF TypeOK, HTypeOK, SessionState, Saw
  <2>5. due'[v] = Left(v) /\ crossed'[v] = crossed[v]
    <3>1. ~Granting(v) /\ RanOut(v)
      BY <1>1, <1>2 DEF Granting, RanOut, TypeOK
    <3>2. ~ReadBeside(v)
      BY <1>1 DEF ReadBeside, Extending
    <3> QED
      BY <1>6, <3>1, <3>2 DEF Remember
  <2> HIDE DEF n
  <2>6. due'[v] + n <= crossed[v] + 1 /\ (n = 0 => due'[v] <= crossed[v]) /\ due'[v] \in Nat
    BY <2>1, <2>3, <2>4, <2>5 DEF Left
  <2>7. \A t \in E : due'[v] + n <= ses[t].saw.days + crossed[v] + 1
    <3> SUFFICES ASSUME NEW t \in E PROVE due'[v] + n <= ses[t].saw.days + crossed[v] + 1
      OBVIOUS
    <3>1. ses[t].saw.days \in Nat
      BY <2>4 DEF ExtendingFor
    <3> QED
      BY <2>1, <2>4, <2>6, <3>1
  <2> QED
    BY <1>1, <1>2, <2>1, <2>2, <2>4, <2>5, <2>6, <2>7 DEF DaysInv, n
<1>7. ReadInv'
  <2>1. \A u \in Slot : SlotInv(u)'
    BY <1>1, <1>2 DEF HInv, ReadInv, SlotInv
  <2>2. \A t \in Session : SawInv(t)'
    BY <1>1 DEF HInv, ReadInv, SawInv
  <2> QED
    BY <2>1, <2>2 DEF ReadInv
<1> QED
  BY <1>1, <1>4, <1>5, <1>6, <1>7 DEF HInv

\* A crash leaves nobody at work; who had granted has broken off.
LEMMA CrashKeeps ==
  ASSUME IInv, IInv', HInv, Remember, Crash
  PROVE  HInv'
<1>1. /\ UNCHANGED <<status, granted>> /\ UNCHANGED subVars /\ \A s \in Session : ses'[s] = Idle
      /\ TypeOK /\ TypeOK' /\ HTypeOK /\ HTypeOK'
  BY HTypeStep DEF Crash, rowVars, ghosts, IInv, HInv
<1>2. ASSUME NEW s \in Session, NEW u \in Slot PROVE ~Extending(s, u)'
  <2>1. ses'[s].pc = "idle"
    BY <1>1 DEF Idle
  <2> QED
    BY <2>1 DEF Extending
<1>3. \A s \in Session, p \in Purchase : ~AtWork(s, p)'
  <2> SUFFICES ASSUME NEW s \in Session, NEW p \in Purchase PROVE ~AtWork(s, p)'
    OBVIOUS
  <2>1. ses'[s].pc = "idle"
    BY <1>1 DEF Idle
  <2> QED
    BY <2>1 DEF AtWork, Armed, Spent
<1>4. ASSUME NEW p \in Audited PROVE GrantInv(p)'
  <2>0. p \in Purchase
    BY SlotsAudited
  <2> DEFINE n == Cardinality(ArmedOn(p))
  <2>1. ArmedOn(p)' = {} /\ Cardinality(ArmedOn(p)') = 0
    BY <1>3, <2>0, FS_EmptySet DEF ArmedOn, AtWork
  <2>2. n \in Nat /\ (n = 0 => ArmedOn(p) = {})
    <3>1. ArmedOn(p) \subseteq Session
      BY DEF ArmedOn
    <3>2. IsFiniteSet(ArmedOn(p))
      BY <3>1, SessionAssumption, FS_Subset
    <3> QED
      BY <3>2, FS_CardinalityType, FS_EmptySet
  <2>3. /\ granted[p] + n <= torn[p] + raced[p] + 1
        /\ Open(p) /\ Quiescent(p) => granted[p] <= torn[p] + raced[p]
    BY DEF HInv, GrantInv
  <2>4. /\ torn'[p] = IF BrokeOff(p) THEN torn[p] + 1 ELSE torn[p]
        /\ raced'[p] >= raced[p] /\ granted'[p] = granted[p] /\ (Open(p)' <=> Open(p))
        /\ granted[p] \in Nat /\ torn[p] \in Nat /\ raced[p] \in Nat /\ raced'[p] \in Nat
    BY <1>1, <2>0 DEF Remember, HTypeOK, TypeOK, Open
  <2>5. Open(p) /\ ~Quiescent(p) => n # 0 \/ BrokeOff(p)
    <3> SUFFICES ASSUME Open(p), NEW s \in Session, AtWork(s, p), n = 0 PROVE BrokeOff(p)
      BY DEF Quiescent
    <3>1. Spent(s, p)
      BY <2>2 DEF AtWork, ArmedOn
    <3> QED
      BY <1>1, <1>3, <2>0, <3>1 DEF BrokeOff, AtWork, Open
  <2> HIDE DEF n
  <2>6. granted'[p] <= torn'[p] + raced'[p] + 1 /\ (Open(p)' => granted'[p] <= torn'[p] + raced'[p])
    BY <2>2, <2>3, <2>4, <2>5
  <2>7. granted'[p] + 0 = granted'[p]
    BY <2>4
  <2> QED
    BY <2>1, <2>6, <2>7 DEF GrantInv
<1>5. ASSUME NEW u \in AuditedSlot PROVE DaysInv(u)'
  <2>0. u \in Slot
    BY SlotsAudited
  <2> DEFINE n == Cardinality(ExtendingFor(u))
  <2>1. ExtendingFor(u)' = {} /\ Cardinality(ExtendingFor(u)') = 0
    BY <1>2, <2>0, FS_EmptySet DEF ExtendingFor
  <2>2. n \in Nat /\ (n = 0 => ExtendingFor(u) = {})
    BY <2>0, SizeOf
  <2>3. /\ due[u] + n <= days[u] + crossed[u] + 1
        /\ ExtendingFor(u) = {} => due[u] <= days[u] + crossed[u]
    BY DEF HInv, DaysInv
  <2>4. /\ days[u] \in Nat /\ due[u] \in Nat /\ crossed[u] \in Nat /\ days'[u] = days[u]
        /\ crossed'[u] >= crossed[u] /\ crossed'[u] \in Nat
    BY <1>1, <2>0 DEF Remember, HTypeOK, TypeOK, subVars
  <2>5. due'[u] = due[u]
    <3>1. ~Granting(u) /\ ~RanOut(u)
      BY <1>1, <2>0, <2>4 DEF Granting, RanOut, TypeOK, subVars
    <3> QED
      BY <3>1 DEF Remember
  <2> HIDE DEF n
  <2>6. due'[u] <= days'[u] + crossed'[u] /\ due'[u] + 0 <= days'[u] + crossed'[u] + 1
        /\ 0 <= crossed'[u] + 1
    BY <2>2, <2>3, <2>4, <2>5
  <2> QED
    BY <2>1, <2>6 DEF DaysInv
<1>6. ReadInv'
  <2>1. \A u \in Slot : SlotInv(u)'
    BY <1>1 DEF HInv, ReadInv, SlotInv, subVars
  <2>2. \A t \in Session : SawInv(t)'
    BY <1>1 DEF SawInv, Idle
  <2> QED
    BY <2>1, <2>2 DEF ReadInv
<1> QED
  BY <1>1, <1>4, <1>5, <1>6 DEF HInv

LEMMA HInitially == HInit => HInv
<1> SUFFICES ASSUME HInit PROVE HInv
  OBVIOUS
<1>1. /\ Init /\ TypeOK /\ (\A s \in Session : ses[s].pc = "idle")
      /\ torn = [p \in Audited |-> 0] /\ raced = [p \in Audited |-> 0]
      /\ due = [u \in AuditedSlot |-> days[u]] /\ crossed = [u \in AuditedSlot |-> 0]
      /\ uncompared = {}
  BY Initially DEF HInit, Init, Idle, IInv
<1>2. HTypeOK
  BY <1>1, SlotsAudited DEF HTypeOK, TypeOK
<1>3. ReadInv
  <2>1. \A u \in Slot : SlotInv(u)
    BY <1>1 DEF Init, SlotInv
  <2>2. \A s \in Session : SawInv(s)
    BY <1>1 DEF SawInv
  <2> QED
    BY <2>1, <2>2 DEF ReadInv
<1>4. ASSUME NEW p \in Audited PROVE GrantInv(p)
  <2>1. ArmedOn(p) = {} /\ Cardinality(ArmedOn(p)) = 0
    BY <1>1, FS_EmptySet DEF ArmedOn, Armed
  <2>2. granted[p] = 0 /\ torn[p] = 0 /\ raced[p] = 0
    BY <1>1, SlotsAudited DEF Init
  <2> QED
    BY <2>1, <2>2 DEF GrantInv
<1>5. ASSUME NEW u \in AuditedSlot PROVE DaysInv(u)
  <2>1. ExtendingFor(u) = {} /\ Cardinality(ExtendingFor(u)) = 0
    BY <1>1, FS_EmptySet DEF ExtendingFor, Extending
  <2>2. due[u] = days[u] /\ crossed[u] = 0 /\ days[u] \in Nat
    BY <1>1, SlotsAudited DEF TypeOK
  <2> QED
    BY <2>1, <2>2 DEF DaysInv
<1> QED
  BY <1>2, <1>3, <1>4, <1>5 DEF HInv

LEMMA HInvariance == IInv /\ IInv' /\ HInv /\ [HNext]_hvars => HInv'
<1> SUFFICES ASSUME IInv, IInv', HInv, [HNext]_hvars PROVE HInv'
  OBVIOUS
<1>1. CASE UNCHANGED hvars
  BY <1>1 DEF hvars, vars, rowVars, subVars, ghosts, history, HInv, HTypeOK, ReadInv, SlotInv,
     SawInv, GrantInv, ArmedOn, Quiescent, Open, AtWork, Armed, Spent, DaysInv, ExtendingFor,
     Extending
<1>2. CASE Next /\ Remember
  <2>1. ASSUME NEW p \in Purchase,
               CreatePurchase(p) \/ MonitorSelect(p) \/ GrowStale(p) \/ GrowOld(p)
        PROVE  HInv'
    BY <1>2, <2>1, RowsKeep, StartKeeps, MonitorAssumption
  <2>2. ASSUME NEW s \in Session, SessionStep(s) \/ Fail(s)
        PROVE  HInv'
    BY <1>2, <2>2, SessionKeeps
  <2>3. ASSUME NEW s \in Session, NEW p \in Purchase, Start(s, p)
        PROVE  HInv'
    BY <1>2, <2>3, StartKeeps
  <2>4. CASE MonitorStep
    BY <1>2, <2>4, SessionKeeps, MonitorAssumption
  <2>5. CASE Crash
    BY <1>2, <2>5, CrashKeeps
  <2>6. ASSUME NEW u \in Slot, Lapse(u) PROVE HInv'
    BY <1>2, <2>6, LapseKeeps
  <2> QED
    BY <1>2, <2>1, <2>2, <2>3, <2>4, <2>5, <2>6 DEF Next
<1> QED
  BY <1>1, <1>2, HNextIsNext

LEMMA HistoryInv == HSpec => [](IInv /\ HInv)
<1> QED
  BY HInitially, HInvariance, HInductive, PTL DEF HSpec

\* However the handlers overlap, fail and die with the process, one payment
\* puts one period on the subscription and one more at most for every handler
\* that broke off between its grant and DELIVERED and every one that took the
\* purchase up beside another (fulfill_purchase, activate_purchase).
THEOREM GrantsAccounted == HSpec => []GrantsAreAccountedFor
<1>1. IInv /\ HInv => GrantsAreAccountedFor
  <2> SUFFICES ASSUME IInv, HInv, NEW p \in Audited PROVE granted[p] <= 1 + torn[p] + raced[p]
    BY DEF GrantsAreAccountedFor
  <2>1. ArmedOn(p) \subseteq Session /\ p \in Purchase
    BY SlotsAudited DEF ArmedOn
  <2>2. IsFiniteSet(ArmedOn(p))
    BY <2>1, SessionAssumption, FS_Subset
  <2>3. Cardinality(ArmedOn(p)) \in Nat
    BY <2>2, FS_CardinalityType
  <2>4. granted[p] \in Nat /\ torn[p] \in Nat /\ raced[p] \in Nat
    BY <2>1 DEF IInv, TypeOK, HInv, HTypeOK
  <2>5. granted[p] + Cardinality(ArmedOn(p)) <= torn[p] + raced[p] + 1
    BY DEF HInv, GrantInv
  <2> QED
    BY <2>3, <2>4, <2>5
<1> QED
  BY <1>1, HistoryInv, PTL

\* What may still be taken up has had no period yet, but for the same two
\* exceptions: the code's "let fulfill_purchase do atomic commit".
THEOREM OpenUngranted == HSpec => []OpenIsUngranted
<1>1. IInv /\ HInv => OpenIsUngranted
  BY DEF HInv, GrantInv, Quiescent, OpenIsUngranted
<1> QED
  BY <1>1, HistoryInv, PTL

\* However activations and fulfilments for one recipient overlap, fail and
\* lapse, no granted period is missing but one for every handler that read the
\* subscription beside another (extend_subscription, create_paid_subscription).
THEOREM PeriodsAreKept == HSpec => []NoPeriodLost
<1>1. IInv /\ HInv => NoPeriodLost
  <2> SUFFICES ASSUME IInv, HInv, NEW u \in AuditedSlot PROVE due[u] <= days[u] + crossed[u]
    BY DEF NoPeriodLost
  <2> DEFINE n == Cardinality(ExtendingFor(u))
  <2>1. n \in Nat /\ (n = 0 => ExtendingFor(u) = {})
    BY SizeOf, SlotsAudited
  <2>2. days[u] \in Nat /\ due[u] \in Nat /\ crossed[u] \in Nat
    BY SlotsAudited DEF IInv, TypeOK, HInv, HTypeOK
  <2>3. /\ due[u] + n <= days[u] + crossed[u] + 1
        /\ ExtendingFor(u) = {} => due[u] <= days[u] + crossed[u]
    BY DEF HInv, DaysInv
  <2> HIDE DEF n
  <2> QED
    BY <2>1, <2>2, <2>3
<1> QED
  BY <1>1, HistoryInv, PTL

-----------------------------------------------------------------------------
(* The amount that was paid. *)

\* As long as no webhook of it has failed, a purchase paid with a wrong amount
\* is at most pending, and whoever works on it does no more than look.
Untouched == {"absent", "pending", "failed"}
AmountInv(p) ==
  /\ status[p] \in Untouched
  /\ \A s \in Session : ses[s].p = p =>
       ses[s].pc \in {"idle", "claim", "settle", "activate"} /\ ses[s].mem \in Untouched

LEMMA AmountStep ==
  ASSUME NEW p \in Purchase, AmountInv(p), NEW s \in Session, Moves(s), status'[p] \in Untouched,
         ses'[s].p = p =>
           ses'[s].pc \in {"idle", "claim", "settle", "activate"} /\ ses'[s].mem \in Untouched
  PROVE  AmountInv(p)'
BY DEF AmountInv, Moves

\* A step that leaves the row to itself, or does not know it.
LEMMA AmountAside ==
  ASSUME NEW p \in Purchase, AmountInv(p), NEW s \in Session, NEW q \in Purchase, Touches(s, q), q # p
  PROVE  AmountInv(p)'
<1>1. ses'[s].p # p /\ status'[p] = status[p] /\ Moves(s)
  BY NoneAssumption DEF Touches
<1> QED
  BY <1>1, AmountStep DEF AmountInv

LEMMA AmountSession ==
  ASSUME IInv, ReadInv, NEW p \in Mismatched, AmountInv(p), NEW s \in Session,
         SessionStep(s) \/ (s = Monitor /\ MonitorStep)
  PROVE  AmountInv(p)'
<1>1. PICK q \in Purchase : q = ses[s].p
  BY SessionActs
<1>2. /\ TypeOK /\ Touches(s, q) /\ Moves(s) /\ p \in Purchase
  BY <1>1, SessionActs, GiftAssumption DEF IInv, Acts, Touches
<1>3. CASE q # p
  BY <1>2, <1>3, AmountAside
<1>4. CASE q = p
  <2>1. /\ status[p] \in Untouched /\ ses[s].mem \in Untouched /\ ses[s].p = p
        /\ ses[s].pc \in {"idle", "claim", "settle", "activate"}
    BY <1>1, <1>4 DEF AmountInv
  <2>2. ClaimMismatch(s) \/ ActivateLock(s) \/ (s = Monitor /\ (RecoverSettle \/ ExhaustSettle))
    BY <2>1
    DEF SessionStep, MarkPaid, ClaimSkip, ClaimCodeOnly, ClaimPaid, Rescue, FulfilLock,
        FulfilDelisted, FulfilRead, FulfilHold, FulfilGrant, FulfilDeliver, ActivateExtend,
        PanelCommits, PanelDown, ActivateDeliver, MonitorStep, RetryCount
  <2>3. ~Activatable(s)
    BY <2>1 DEF Activatable, Loaded, Untouched
  <2>4. End(s) /\ status'[p] \in Untouched
    BY <1>2, <2>1, <2>2, <2>3
    DEF ClaimMismatch, ActivateLock, RecoverSettle, Recovered, ExhaustSettle, rowVars, TypeOK,
        Untouched
  <2>5. ses'[s].pc = "idle" /\ ses'[s].mem = "absent"
    BY <1>2, <2>4, EndsIdle DEF Idle
  <2> QED
    BY <1>2, <2>4, <2>5, AmountStep DEF Untouched
<1> QED
  BY <1>3, <1>4

LEMMA AmountStart ==
  ASSUME IInv, NEW w \in Mismatched, AmountInv(w), NEW s \in Session, NEW p \in Purchase,
         Start(s, p) \/ (s = Monitor /\ MonitorSelect(p))
  PROVE  AmountInv(w)'
<1>1. Touches(s, p) /\ Moves(s) /\ TypeOK /\ w \in Purchase /\ status[w] \in Untouched
  BY StartActs, GiftAssumption DEF Acts, Touches, IInv, AmountInv
<1>2. CASE p # w
  BY <1>1, <1>2, AmountAside
<1>3. CASE p = w
  <2>1. status' = status
    BY <1>3, GiftAssumption
    DEF Start, BuyFromBalance, Webhook, PressLink, EnterCode, PressCallback, MonitorSelect,
        RecoverSelect, RetryPaidSelect, RetryHeldSelect, ExhaustSelect, rowVars
  <2>2. CASE PressCallback(s, p)
    <3> DEFINE x == [Idle EXCEPT !.kind = "callback", !.p = p, !.pc = "activate", !.mem = status[p]]
    <3>1. x \in SessionState /\ x.pc = "activate" /\ x.mem = status[p]
      BY <1>1, IdleType DEF SessionState, Kind, PersonKind, PC, TypeOK, Idle
    <3>2. ses' = [ses EXCEPT ![s] = x]
      BY <2>2 DEF PressCallback
    <3> HIDE DEF x
    <3>3. ses'[s] = x
      BY <1>1, <3>2 DEF TypeOK
    <3> QED
      BY <1>1, <1>3, <2>1, <3>1, <3>3, AmountStep
  <2>3. CASE ~PressCallback(s, p)
    <3>1. \E k \in Kind, c \in {"claim", "activate", "settle"} : Begin(s, k, p, c)
      BY <1>1, <1>3, <2>3, GiftAssumption
      DEF Start, BuyFromBalance, Webhook, PressLink, EnterCode, MonitorSelect, RecoverSelect,
          RetryPaidSelect, RetryHeldSelect, ExhaustSelect, Kind, PersonKind, MonitorKind, Untouched
    <3>2. ASSUME NEW k \in Kind, NEW c \in PC, Begin(s, k, p, c)
          PROVE  ses'[s].pc = c /\ ses'[s].mem = "absent"
      BY <1>1, <3>2, BeginEffect, ZenonT(30)
    <3>3. {"claim", "activate", "settle"} \subseteq PC
      BY DEF PC
    <3>4. ses'[s].pc \in {"claim", "activate", "settle"} /\ ses'[s].mem = "absent"
      BY <3>1, <3>2, <3>3
    <3> QED
      BY <1>1, <2>1, <3>4, AmountStep DEF Untouched
  <2> QED
    BY <2>2, <2>3
<1> QED
  BY <1>2, <1>3

\* An exception is harmless as well, unless it makes a webhook rescue the row.
LEMMA AmountFail ==
  ASSUME IInv, NEW p \in Mismatched, AmountInv(p), NEW s \in Session, Fail(s),
         ~(ses'[s].p = p /\ ses'[s].pc = "rescue")
  PROVE  AmountInv(p)'
<1>1. PICK q \in Purchase : q = ses[s].p
  BY FailActs
<1>2. /\ Touches(s, q) /\ Moves(s) /\ TypeOK /\ p \in Purchase /\ status'[p] \in Untouched
  BY <1>1, FailActs, GiftAssumption DEF Acts, Touches, IInv, AmountInv, Fail, rowVars
<1>3. CASE End(s)
  <2>1. ses'[s].pc = "idle" /\ ses'[s].mem = "absent"
    BY <1>2, <1>3, EndsIdle DEF Idle
  <2> QED
    BY <1>2, <2>1, AmountStep DEF Untouched
<1>4. CASE ~End(s)
  <2> DEFINE x == [Idle EXCEPT !.kind = "webhook", !.p = ses[s].p, !.pc = "rescue"]
  <2>1. x.p = q /\ x.pc = "rescue"
    BY <1>1 DEF Idle
  <2>2. ses' = [ses EXCEPT ![s] = x]
    BY <1>4 DEF Fail
  <2> HIDE DEF x
  <2>3. ses'[s] = x
    BY <1>2, <2>2 DEF TypeOK
  <2>4. q # p
    BY <2>1, <2>3
  <2> QED
    BY <1>2, <2>4, AmountAside
<1> QED
  BY <1>3, <1>4

LEMMA AmountNext ==
  ASSUME IInv, ReadInv, NEW p \in Mismatched, AmountInv(p), Next,
         \A s \in Session : ~(ses'[s].p = p /\ ses'[s].pc = "rescue")
  PROVE  AmountInv(p)'
<1>0. TypeOK /\ p \in Purchase
  BY GiftAssumption DEF IInv
<1>1. ASSUME NEW q \in Purchase, CreatePurchase(q) PROVE AmountInv(p)'
  BY <1>0, <1>1 DEF CreatePurchase, AmountInv, Untouched, TypeOK
<1>2. ASSUME UNCHANGED <<status, ses>> PROVE AmountInv(p)'
  BY <1>2 DEF AmountInv
<1>3. ASSUME NEW q \in Purchase, GrowStale(q) \/ GrowOld(q) PROVE AmountInv(p)'
  BY <1>2, <1>3 DEF GrowStale, GrowOld
<1>4. ASSUME NEW s \in Session, SessionStep(s) \/ Fail(s) PROVE AmountInv(p)'
  BY <1>4, AmountSession, AmountFail
<1>5. ASSUME NEW s \in Session, NEW q \in Purchase, Start(s, q) \/ (s = Monitor /\ MonitorSelect(q))
      PROVE  AmountInv(p)'
  BY <1>5, AmountStart
<1>6. CASE Crash
  <2>1. status' = status /\ \A s \in Session : ses'[s] = Idle
    BY <1>6 DEF Crash, rowVars
  <2> QED
    BY <2>1 DEF AmountInv, Idle, Untouched
<1>7. ASSUME NEW u \in Slot, Lapse(u) PROVE AmountInv(p)'
  BY <1>2, <1>7 DEF Lapse, rowVars
<1>8. CASE MonitorStep
  BY <1>8, AmountSession, MonitorAssumption
<1> QED
  BY <1>1, <1>3, <1>4, <1>5, <1>6, <1>7, <1>8, MonitorAssumption DEF Next

Compared == \A p \in Mismatched \cap Audited : p \notin uncompared => AmountInv(p)

LEMMA ComparedNext == IInv /\ HInv /\ Compared /\ [HNext]_hvars => Compared'
<1> SUFFICES ASSUME IInv, HInv, Compared, [HNext]_hvars PROVE Compared'
  OBVIOUS
<1>1. CASE UNCHANGED hvars
  BY <1>1 DEF hvars, vars, rowVars, history, Compared, AmountInv
<1>2. CASE Next /\ Remember
  <2> SUFFICES ASSUME NEW p \in Mismatched \cap Audited, p \notin uncompared' PROVE AmountInv(p)'
    BY DEF Compared
  <2>1. p \notin uncompared /\ \A s \in Session : ~(ses'[s].p = p /\ ses'[s].pc = "rescue")
    BY <1>2 DEF Remember
  <2> QED
    BY <1>2, <2>1, AmountNext DEF Compared, HInv
<1> QED
  BY <1>1, <1>2, HNextIsNext

\* However the handlers overlap, fail and restart, a purchase paid with another
\* amount than its own is never delivered, unless a webhook of it failed before
\* it compared the two (try_fulfill_guest_purchase,
\* _check_and_recover_pending_purchase).
THEOREM AmountIsConfirmed == HSpec => []AmountConfirmed
<1>1. HInit => Compared
  BY GiftAssumption DEF HInit, Init, Compared, AmountInv, Untouched, Idle
<1>2. Compared => AmountConfirmed
  BY DEF Compared, AmountInv, AmountConfirmed, Untouched
<1> QED
  BY <1>1, <1>2, ComparedNext, HistoryInv, PTL DEF HSpec
=============================================================================
