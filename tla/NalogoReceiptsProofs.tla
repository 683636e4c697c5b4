------------------------ MODULE NalogoReceiptsProofs ------------------------
(***************************************************************************)
(* For any payments, handlers, workers and administrators: the queue holds *)
(* a payment's receipt once, a second receipt takes a request in doubt,    *)
(* and a receipt asked for is made out, in somebody's hands, or given up.  *)
(*                                                                         *)
(* The inductive invariant says what a process knows where it stands       *)
(* (ProcessInv), who may have a payment's item and what its key stands for *)
(* (QueueInv, AccountInv), and who may have a request under way            *)
(* (DoubtInv).  Each part has a lemma that lists what a step must leave    *)
(* alone to keep it, and one lemma that goes through the actions.          *)
(***************************************************************************)
EXTENDS NalogoReceipts, SequenceTheorems, FiniteSetTheorems, TLAPS

\* Where each kind of process can be.
Role(q, c) ==
  /\ q \in Handler => c \in {"idle", "look", "auth", "mark", "file", "save",
                             "enqueue", "claim", "push"}
  /\ q \in Worker => c \in {"idle", "pop", "look", "auth", "mark", "file",
                            "discard", "done", "requeue"}
  /\ q \in Admin => c \in {"idle", "look", "auth", "mark", "file",
                           "verify", "clear", "refill"}
Named(q) ==
  /\ At(q, "idle") => proc[q] = Idle
  /\ At(q, "pop") => Pay(q) = None
  /\ proc[q].pc \notin {"idle", "pop"} => Pay(q) \in Payment
\* What is put back into the queue has attempts left.
TriesLeft(q) ==
  q \in Worker /\ proc[q].pc \in {"look", "auth", "file", "requeue"} => proc[q].n < MaxAttempts
MadeOut(q) == proc[q].pc \in {"mark", "done", "save", "verify"} => issued[Pay(q)] > 0
ProcessInv(q) == Role(q, proc[q].pc) /\ Named(q) /\ TriesLeft(q) /\ MadeOut(q)

\* A payment's item is in one place, and its key is set as long.
Single(p) ==
  /\ \A i, j \in Waiting(p) : i = j
  /\ \A q, r \in InHand(p) : q = r
  /\ Waiting(p) = {} \/ InHand(p) = {}
  /\ Waiting(p) # {} \/ InHand(p) # {} => p \in queued
QueueInv(p) == p \notin unkeyed => Single(p)

\* Without doubt one request at most is under way, and a receipt made out has
\* its created key, or a process that is about to write it.
Requesting(p) == {q \in Process : Pay(q) = p /\ proc[q].pc \in {"auth", "mark"}}
DoubtInv(p) ==
  p \notin doubt =>
     /\ \A q, r \in Requesting(p) : q = r
     /\ issued[p] <= 1
     /\ issued[p] = 1 => p \in created \/ \E q \in Process : Pay(q) = p /\ At(q, "mark")
     /\ \A q \in Process : Pay(q) = p /\ At(q, "auth") => issued[p] = 0

\* A key that outlives its item is that of a receipt made out or given up: a
\* handler that finds the key set loses nothing by leaving.
KeyStandsFor(p) ==
  p \in queued => Waiting(p) # {} \/ InHand(p) # {} \/ p \in dropped \/ issued[p] > 0
Somewhere(p) ==
  asked[p] > 0 /\ issued[p] = 0 =>
    \/ Waiting(p) # {} \/ p \in pending \cup dropped
    \/ \E q \in Process : p \in Carried(q)
AccountInv(p) == (p \in created => issued[p] > 0) /\ KeyStandsFor(p) /\ Somewhere(p)

IInv ==
  /\ TypeOK
  /\ \A q \in Process : ProcessInv(q)
  /\ \A p \in Payment : QueueInv(p) /\ DoubtInv(p) /\ AccountInv(p)

-----------------------------------------------------------------------------
(* What a step does to its process. *)

Only(q) ==
  /\ proc' \in [Process -> ProcessState]
  /\ \A r \in Process \ {q} : proc'[r] = proc[r]

LEMMA IdleType == Idle \in ProcessState
BY BoundAssumption DEF Idle, ProcessState, PC

LEMMA GotoEffect ==
  ASSUME TypeOK, NEW q \in Process, NEW c \in PC, Goto(q, c)
  PROVE  /\ Only(q) /\ proc'[q].pc = c
         /\ c \notin {"idle", "pop"} => /\ proc'[q].p = proc[q].p
                                        /\ proc'[q].n = proc[q].n
                                        /\ proc'[q].rest = proc[q].rest
         /\ c = "idle" => proc'[q] = Idle
         /\ c = "pop" => proc'[q].p = None
<1> DEFINE x == [(IF c \in {"idle", "pop"} THEN Idle ELSE proc[q]) EXCEPT !.pc = c]
<1>1. proc' = [proc EXCEPT ![q] = x] /\ proc[q] \in ProcessState
  BY DEF Goto, TypeOK
<1>2. CASE c \in {"idle", "pop"}
  <2>1. x = [Idle EXCEPT !.pc = c] /\ x \in ProcessState /\ x.pc = c /\ x.p = None
    BY <1>2, IdleType DEF ProcessState, Idle
  <2>2. c = "idle" => x = Idle
    BY <2>1 DEF Idle
  <2> HIDE DEF x
  <2> QED
    BY <1>1, <1>2, <2>1, <2>2 DEF Only, TypeOK
<1>3. CASE c \notin {"idle", "pop"}
  <2>1. /\ x \in ProcessState /\ x.pc = c
        /\ x.p = proc[q].p /\ x.n = proc[q].n /\ x.rest = proc[q].rest
    BY <1>1, <1>3 DEF ProcessState
  <2> HIDE DEF x
  <2> QED
    BY <1>1, <1>3, <2>1 DEF Only, TypeOK
<1> QED
  BY <1>2, <1>3

LEMMA CallEffect ==
  ASSUME TypeOK, NEW q \in Process, NEW c \in PC, NEW p \in Payment, NEW n \in 0..MaxAttempts,
         Call(q, c, p, n)
  PROVE  /\ Only(q) /\ proc'[q].pc = c
         /\ proc'[q].p = p /\ proc'[q].n = n /\ proc'[q].rest = {}
<1> DEFINE x == [pc |-> c, p |-> p, n |-> n, rest |-> {}]
<1>1. x \in ProcessState /\ x.pc = c /\ x.p = p /\ x.n = n /\ x.rest = {}
  BY DEF ProcessState
<1>2. proc' = [proc EXCEPT ![q] = x]
  BY DEF Call
<1> HIDE DEF x
<1> QED
  BY <1>1, <1>2 DEF Only, TypeOK

LEMMA RewriteEffect ==
  ASSUME TypeOK, NEW q \in Process, NEW p \in Payment, Rewrite(q, p)
  PROVE  /\ Only(q) /\ proc'[q].pc = "clear"
         /\ proc'[q].p = p /\ proc'[q].n = 0 /\ proc'[q].rest = pending \ {p}
<1> DEFINE x == [pc |-> "clear", p |-> p, n |-> 0, rest |-> pending \ {p}]
<1>1. x \in ProcessState /\ x.pc = "clear" /\ x.p = p /\ x.n = 0 /\ x.rest = pending \ {p}
  BY BoundAssumption DEF ProcessState, PC, TypeOK
<1>2. proc' = [proc EXCEPT ![q] = x]
  BY DEF Rewrite
<1> HIDE DEF x
<1> QED
  BY <1>1, <1>2 DEF Only, TypeOK

LEMMA RefillEffect ==
  ASSUME TypeOK, NEW q \in Process, NEW p \in Payment,
         proc' = [proc EXCEPT ![q].rest = @ \ {p}]
  PROVE  /\ Only(q) /\ proc'[q].pc = proc[q].pc /\ proc'[q].p = proc[q].p
         /\ proc'[q].n = proc[q].n /\ proc'[q].rest = proc[q].rest \ {p}
<1> DEFINE x == [proc[q] EXCEPT !.rest = @ \ {p}]
<1>1. proc' = [proc EXCEPT ![q] = x] /\ proc[q] \in ProcessState
  BY DEF TypeOK
<1>2. /\ x \in ProcessState /\ x.pc = proc[q].pc /\ x.p = proc[q].p
      /\ x.n = proc[q].n /\ x.rest = proc[q].rest \ {p}
  BY <1>1 DEF ProcessState
<1> HIDE DEF x
<1> QED
  BY <1>1, <1>2 DEF Only, TypeOK

LEMMA UseEffect ==
  ASSUME TypeOK, NEW what \in {"faults", "presses"}, NEW max, Use(what, max)
  PROVE  used' \in [{"faults", "presses"} -> Nat]
BY DEF TypeOK, Use

\* What every step of a process starts from.
LEMMA Knows ==
  ASSUME IInv, NEW q \in Process
  PROVE  /\ TypeOK /\ ProcessInv(q) /\ proc[q] \in ProcessState
         /\ proc[q].pc \notin {"idle", "pop"} => proc[q].p \in Payment
         /\ (q \in Handler /\ q \notin Worker /\ q \notin Admin)
            \/ (q \notin Handler /\ q \in Worker /\ q \notin Admin)
            \/ (q \notin Handler /\ q \notin Worker /\ q \in Admin)
         /\ WithReceipt(q) \in PC \ {"idle", "pop", "push"}
         /\ WithoutReceipt(q) \in {"idle", "requeue"}
<1>1. TypeOK /\ ProcessInv(q) /\ proc[q] \in ProcessState
  BY DEF IInv, TypeOK
<1>2. proc[q].pc \notin {"idle", "pop"} => proc[q].p \in Payment
  BY <1>1 DEF ProcessInv, Named, Pay
<1>3. \/ q \in Handler /\ q \notin Worker /\ q \notin Admin
      \/ q \notin Handler /\ q \in Worker /\ q \notin Admin
      \/ q \notin Handler /\ q \notin Worker /\ q \in Admin
  BY ProcessAssumption DEF Process
<1>4. WithReceipt(q) \in PC \ {"idle", "pop", "push"} /\ WithoutReceipt(q) \in {"idle", "requeue"}
  BY <1>3 DEF WithReceipt, WithoutReceipt, PC
<1> QED
  BY <1>1, <1>2, <1>3, <1>4

LEMMA HeadOfQueue ==
  ASSUME TypeOK, queue # <<>>
  PROVE  /\ Head(queue).p \in Payment /\ Head(queue).n \in 0..MaxAttempts
         /\ Tail(queue) \in Seq([p : Payment, n : 0..MaxAttempts])
<1> DEFINE S == [p : Payment, n : 0..MaxAttempts]
<1>1. queue \in Seq(S)
  BY DEF TypeOK
<1> HIDE DEF S
<1>2. Head(queue) \in S /\ Tail(queue) \in Seq(S)
  BY <1>1, HeadTailProperties
<1> QED
  BY <1>2 DEF S

-----------------------------------------------------------------------------
(* Types, and what a process knows where it stands. *)

\* Where a step of create_receipt, of the queue or of a button leads, and that
\* it leaves the other processes alone.
LEMMA StepMoves ==
  ASSUME IInv, NEW q \in Process, Step(q) \/ Outage(q) \/ AnswerLost(q)
  PROVE  Only(q)
<1> USE Knows
<1>1. CASE Look(q) \/ LoginFails(q) \/ Issue(q) \/ Refuse(q) \/ TimeOut(q) \/ Mark(q) \/ File(q)
  <2>1. \E c \in PC : Goto(q, c)
    BY <1>1 DEF Look, LoginFails, Issue, Refuse, TimeOut, Mark, File, PC
  <2> QED
    BY <2>1, GotoEffect
<1>2. CASE Save(q) \/ LookAgain(q) \/ Claim(q) \/ Push(q) \/ Finish(q) \/ Discard(q) \/ Done(q)
           \/ Requeue(q) \/ Clear(q)
  <2>1. \E c \in PC : Goto(q, c)
    BY <1>2 DEF Save, LookAgain, Claim, Push, Finish, Discard, Done, Requeue, Clear, PC
  <2> QED
    BY <2>1, GotoEffect
<1>3. CASE Pop(q)
  <2>1. \E c \in PC : Call(q, c, Head(queue).p, Head(queue).n) /\ queue # <<>>
    BY <1>3 DEF Pop, PC
  <2> QED
    BY <2>1, HeadOfQueue, CallEffect
<1>4. CASE Verify(q)
  <2>1. Pay(q) \in Payment /\ "idle" \in PC
    BY <1>4 DEF Verify, At, Pay, PC
  <2> QED
    BY <1>4, <2>1, GotoEffect, RewriteEffect DEF Verify
<1>5. CASE Refill(q)
  <2>1. \A p \in proc[q].rest : p \in Payment
    BY DEF ProcessState
  <2>2. "idle" \in PC
    BY DEF PC
  <2> QED
    BY <1>5, <2>1, <2>2, GotoEffect, RefillEffect DEF Refill
<1>6. CASE Outage(q)
  <2>1. AfterOutage(q) \in PC
    BY DEF AfterOutage, PC
  <2> QED
    BY <1>6, <2>1, GotoEffect DEF Outage
<1>7. CASE AnswerLost(q)
  BY <1>7, GotoEffect DEF AnswerLost, PC
<1> QED
  BY <1>1, <1>2, <1>3, <1>4, <1>5, <1>6, <1>7 DEF Step

\* Items are put back with one attempt more, of which there is one left.
LEMMA Appended ==
  ASSUME TypeOK, NEW p \in Payment, NEW n \in 0..MaxAttempts,
         queue' = Append(queue, [p |-> p, n |-> n])
  PROVE  queue' \in Seq([p : Payment, n : 0..MaxAttempts])
<1> DEFINE S == [p : Payment, n : 0..MaxAttempts]
           x == [p |-> p, n |-> n]
<1>1. queue \in Seq(S) /\ x \in S
  BY DEF TypeOK
<1> HIDE DEF S, x
<1>2. Append(queue, x) \in Seq(S)
  BY <1>1, AppendProperties
<1> QED
  BY <1>2 DEF S, x

LEMMA Typing ==
  ASSUME IInv, [Next]_vars
  PROVE  TypeOK'
<1>0. TypeOK /\ 0 \in 0..MaxAttempts
  BY BoundAssumption DEF IInv
<1>1. ASSUME NEW q \in Process, Step(q) \/ Outage(q) \/ AnswerLost(q)
      PROVE  TypeOK'
  <2>1. Only(q) /\ ProcessInv(q) /\ proc[q] \in ProcessState
    BY <1>1, StepMoves, Knows
  <2>2. proc[q].pc \notin {"idle", "pop"} => Pay(q) \in Payment
    BY Knows DEF Pay
  <2>3. CASE Look(q) \/ LoginFails(q) \/ Issue(q) \/ TimeOut(q) \/ Mark(q) \/ File(q)
    BY <1>0, <2>1, <2>2, <2>3, UseEffect
       DEF Look, LoginFails, Issue, TimeOut, Mark, File, Only, TypeOK, At, redis
  <2>11. CASE Refuse(q)
    <3>1. PICK made \in {0, 1} : issued' = [issued EXCEPT ![Pay(q)] = @ + made]
      BY <2>11 DEF Refuse
    <3>2. /\ doubt' \subseteq doubt \cup {Pay(q)} /\ dropped' \subseteq dropped \cup {Pay(q)}
          /\ Pay(q) \in Payment
      BY <2>2, <2>11 DEF Refuse, At
    <3>3. issued' \in [Payment -> Nat]
      BY <1>0, <3>1, <3>2 DEF TypeOK
    <3>4. used' \in [{"faults", "presses"} -> Nat]
      BY <1>0, <2>11, UseEffect DEF Refuse
    <3> QED
      BY <1>0, <2>1, <2>11, <3>2, <3>3, <3>4 DEF Refuse, Only, TypeOK, redis
  <2>4. CASE Save(q) \/ LookAgain(q) \/ Claim(q) \/ Finish(q) \/ Discard(q) \/ Done(q)
    BY <1>0, <2>1, <2>2, <2>4
       DEF Save, LookAgain, Claim, Finish, Discard, Done, Unqueue, Only, TypeOK, At, redis
  <2>5. CASE Push(q)
    <3>1. queue' \in Seq([p : Payment, n : 0..MaxAttempts])
      BY <1>0, <2>2, <2>5, Appended DEF Push, At
    <3> QED
      BY <1>0, <2>1, <2>5, <3>1 DEF Push, Only, TypeOK
  <2>6. CASE Requeue(q)
    <3>1. Pay(q) \in Payment /\ proc[q].n \in 0..MaxAttempts /\ proc[q].n < MaxAttempts
      BY <2>1, <2>2, <2>6, Knows DEF Requeue, At, ProcessInv, Role, TriesLeft, ProcessState
    <3>2. proc[q].n + 1 \in 0..MaxAttempts
      BY <3>1, BoundAssumption
    <3>3. queue' \in Seq([p : Payment, n : 0..MaxAttempts])
      BY <1>0, <2>6, <3>1, <3>2, Appended DEF Requeue
    <3> QED
      BY <1>0, <2>1, <2>6, <3>3 DEF Requeue, Only, TypeOK
  <2>7. CASE Pop(q)
    BY <1>0, <2>1, <2>7, HeadOfQueue DEF Pop, Only, TypeOK
  <2>8. CASE Verify(q) \/ Clear(q) \/ Refill(q)
    <3>1. \A p \in proc[q].rest : p \in Payment
      BY <2>1 DEF ProcessState
    <3> QED
      BY <1>0, <2>1, <2>2, <2>8, <3>1 DEF Verify, Clear, Refill, Only, TypeOK, At
  <2>9. CASE Outage(q)
    <3>1. queued' \subseteq queued /\ doubt' \subseteq doubt \cup {Pay(q)}
          /\ dropped' \subseteq dropped \cup {Pay(q)}
      BY <2>9 DEF Outage
    <3>2. doubt' \subseteq Payment /\ dropped' \subseteq Payment
      <4>1. At(q, "pop") => UNCHANGED <<doubt, dropped>>
        BY <2>9 DEF Outage, LosesReceipt, At
      <4>2. ~At(q, "idle")
        BY <2>9 DEF Outage, At
      <4> QED
        BY <1>0, <2>2, <3>1, <4>1, <4>2 DEF TypeOK, At
    <3>3. used' \in [{"faults", "presses"} -> Nat]
      BY <1>0, <2>9, UseEffect DEF Outage
    <3> QED
      BY <1>0, <2>1, <2>9, <3>1, <3>2, <3>3 DEF Outage, Only, TypeOK
  <2>10. CASE AnswerLost(q)
    <3>1. used' \in [{"faults", "presses"} -> Nat]
      BY <1>0, <2>10, UseEffect DEF AnswerLost
    <3>2. /\ queue' \in Seq([p : Payment, n : 0..MaxAttempts])
          /\ queued' \subseteq Payment /\ unkeyed' \subseteq Payment /\ dropped' \subseteq Payment
      <4>1. CASE At(q, "claim") /\ queue' = queue
        BY <1>0, <2>2, <2>10, <4>1 DEF AnswerLost, TypeOK, At
      <4>2. CASE At(q, "push")
        <5>1. /\ Pay(q) \in Payment /\ queue' = Append(queue, [p |-> Pay(q), n |-> 0])
              /\ queued' \subseteq queued /\ unkeyed' \subseteq unkeyed \cup queued
              /\ dropped' = dropped
          BY <2>2, <2>10, <4>2 DEF AnswerLost, At
        <5>2. queue' \in Seq([p : Payment, n : 0..MaxAttempts])
          BY <1>0, <5>1, Appended
        <5> QED
          BY <1>0, <5>1, <5>2 DEF TypeOK
      <4>3. CASE At(q, "pop") /\ queue # <<>>
        BY <1>0, <2>10, <4>3, HeadOfQueue DEF AnswerLost, TypeOK, At
      <4> QED
        BY <2>10, <4>1, <4>2, <4>3 DEF AnswerLost
    <3> QED
      BY <1>0, <2>1, <2>10, <3>1, <3>2 DEF AnswerLost, Only, TypeOK
  <2> QED
    BY <1>1, <2>3, <2>4, <2>5, <2>6, <2>7, <2>8, <2>9, <2>10, <2>11
       DEF Step
<1>2. ASSUME NEW h \in Handler, NEW p \in Payment, Ask(h, p)
      PROVE  TypeOK'
  <2>1. Only(h)
    BY <1>0, <1>2, CallEffect DEF Ask, Process, PC
  <2>2. /\ asked \in [Payment -> 0..2] /\ asked' = [asked EXCEPT ![p] = @ + 1]
        /\ asked[p] < 1 \/ asked[p] < 2
    <3>1. asked[p] < (IF p \in Twice THEN 2 ELSE 1)
      BY <1>2 DEF Ask
    <3>2. CASE p \in Twice
      BY <1>0, <1>2, <3>1, <3>2 DEF Ask, TypeOK
    <3>3. CASE p \notin Twice
      BY <1>0, <1>2, <3>1, <3>3 DEF Ask, TypeOK
    <3> QED
      BY <3>2, <3>3
  <2>3. asked[p] + 1 \in 0..2
    BY <2>2
  <2>4. asked' \in [Payment -> 0..2]
    BY <2>2, <2>3
  <2> QED
    BY <1>0, <1>2, <2>1, <2>4 DEF Ask, Only, TypeOK, redis
<1>3. ASSUME NEW w \in Worker, Begin(w)
      PROVE  TypeOK'
  <2>1. Only(w)
    BY <1>0, <1>3, GotoEffect DEF Begin, Process, PC
  <2>2. used' \in [{"faults", "presses"} -> Nat]
    BY <1>0, <1>3, UseEffect DEF Begin, TypeOK
  <2> QED
    BY <1>0, <1>3, <2>1, <2>2 DEF Begin, Only, TypeOK, redis
<1>4. ASSUME NEW a \in Admin, NEW p \in Payment, PressVerified(a, p) \/ PressRetry(a, p)
      PROVE  TypeOK'
  <2>1. Only(a)
    BY <1>0, <1>4, CallEffect, RewriteEffect DEF PressVerified, PressRetry, Process, PC
  <2>2. used' \in [{"faults", "presses"} -> Nat]
    BY <1>0, <1>4, UseEffect DEF PressVerified, PressRetry, Press
  <2> QED
    BY <1>0, <1>4, <2>1, <2>2 DEF PressVerified, PressRetry, Only, TypeOK, redis
<1>5. ASSUME NEW a \in Admin, ClearAll(a)
      PROVE  TypeOK'
  <2>1. used' \in [{"faults", "presses"} -> Nat]
    BY <1>0, <1>5, UseEffect DEF ClearAll
  <2> QED
    BY <1>0, <1>5, <2>1 DEF ClearAll, TypeOK
<1>6. CASE Restart
  <2>1. used' \in [{"faults", "presses"} -> Nat]
    BY <1>0, <1>6, UseEffect DEF Restart
  <2>2. \A q \in Process : Carried(q) \subseteq Payment
    BY Knows DEF Carried, At, Pay, ProcessState
  <2>3. \A q \in Process : At(q, "mark") => Pay(q) \in Payment
    BY Knows DEF At, Pay
  <2>4. doubt' \subseteq Payment /\ dropped' \subseteq Payment
    BY <1>0, <1>6, <2>2, <2>3 DEF Restart, TypeOK
  <2> QED
    BY <1>0, <1>6, <2>1, <2>4, IdleType DEF Restart, TypeOK, redis
<1>7. CASE UNCHANGED vars
  BY <1>0, <1>7 DEF TypeOK, vars, redis
<1> QED
  BY <1>1, <1>2, <1>3, <1>4, <1>5, <1>6, <1>7 DEF Next

\* Receipts are never taken back: what the other processes know stays true.
LEMMA KnowledgeFrame ==
  ASSUME IInv, NEW q \in Process, Only(q), ProcessInv(q)',
         \A p \in Payment : issued'[p] >= issued[p] /\ issued'[p] \in Nat
  PROVE  \A r \in Process : ProcessInv(r)'
<1>1. ASSUME NEW r \in Process, r # q
      PROVE  ProcessInv(r)'
  <2>1. proc'[r] = proc[r] /\ ProcessInv(r)
    BY <1>1, Knows DEF Only
  <2>2. MadeOut(r)'
    <3>1. SUFFICES ASSUME proc[r].pc \in {"mark", "done", "save", "verify"}
                   PROVE  issued'[Pay(r)] > 0
      BY <2>1 DEF MadeOut, Pay
    <3>2. Pay(r) \in Payment /\ issued[Pay(r)] \in Nat /\ issued[Pay(r)] > 0
      BY <2>1, <3>1, Knows DEF ProcessInv, MadeOut, Pay, TypeOK
    <3> QED
      BY <3>2
  <2> QED
    BY <2>1, <2>2 DEF ProcessInv, Role, Named, TriesLeft, At, Pay
<1> QED
  BY <1>1

LEMMA IdleKnows ==
  ASSUME NEW q \in Process, proc'[q] = Idle
  PROVE  ProcessInv(q)'
BY DEF ProcessInv, Role, Named, TriesLeft, MadeOut, At, Pay, Idle

\* A step that leaves, or stays with its payment and does not reach for a
\* receipt that was not made out.
Turn(q, c) ==
  \/ c = "idle"
  \/ c = "pop" /\ q \in Worker
  \/ /\ proc[q].pc \notin {"idle", "pop"} /\ c \notin {"idle", "pop"} /\ Role(q, c)
     /\ c \in {"look", "auth", "file", "requeue"} /\ q \in Worker =>
          proc[q].pc \in {"look", "auth", "file", "requeue"}
     /\ c \in {"mark", "done", "save", "verify"} => issued'[Pay(q)] > 0

LEMMA TurnKnows ==
  ASSUME IInv, NEW q \in Process, NEW c \in PC, Goto(q, c), Turn(q, c)
  PROVE  ProcessInv(q)'
<1>1. CASE c = "idle"
  BY <1>1, Knows, GotoEffect, IdleKnows
<1>2. CASE c = "pop" /\ q \in Worker
  <2>1. proc'[q].pc = "pop" /\ proc'[q].p = None /\ q \notin Handler /\ q \notin Admin
    BY <1>2, Knows, GotoEffect
  <2> QED
    BY <2>1 DEF ProcessInv, Role, Named, TriesLeft, MadeOut, At, Pay
<1>3. CASE c \notin {"idle", "pop"}
  <2>1. /\ proc'[q].pc = c /\ proc'[q].p = proc[q].p /\ proc'[q].n = proc[q].n
        /\ ProcessInv(q) /\ proc[q].pc \notin {"idle", "pop"} /\ Role(q, c)
    BY <1>3, Knows, GotoEffect DEF Turn
  <2> QED
    BY <1>3, <2>1 DEF ProcessInv, Named, TriesLeft, MadeOut, Turn, At, Pay, Role
<1> QED
  BY <1>1, <1>2, <1>3 DEF Turn

LEMMA Knowing ==
  ASSUME IInv, [Next]_vars
  PROVE  \A q \in Process : ProcessInv(q)'
<1>0. TypeOK /\ TypeOK' /\ \A q \in Process : ProcessInv(q)
  BY Typing DEF IInv
<1>1. ASSUME NEW q \in Process, Step(q) \/ Outage(q) \/ AnswerLost(q)
      PROVE  \A r \in Process : ProcessInv(r)'
  <2>1. Only(q) /\ ProcessInv(q) /\ proc[q] \in ProcessState
    BY <1>1, StepMoves, Knows
  <2>2. proc[q].pc \notin {"idle", "pop"} => Pay(q) \in Payment
    BY Knows DEF Pay
  <2>3. /\ Role(q, proc[q].pc)
        /\ \/ q \in Handler /\ q \notin Worker /\ q \notin Admin
           \/ q \notin Handler /\ q \in Worker /\ q \notin Admin
           \/ q \notin Handler /\ q \notin Worker /\ q \in Admin
    BY <2>1, Knows DEF ProcessInv
  <2>4. \A p \in Payment : issued[p] \in Nat /\ (p \in created => issued[p] > 0)
    BY DEF IInv, TypeOK, AccountInv
  <2>5. \A p \in Payment : issued'[p] >= issued[p] /\ issued'[p] \in Nat
    <3>1. UNCHANGED issued \/ Issue(q) \/ TimeOut(q) \/ Refuse(q)
      BY <1>1 DEF Step, Outage, AnswerLost, Look, LoginFails, Mark, File, Save, LookAgain, Claim, Push,
                  Finish, Pop, Discard, Done, Requeue, Verify, Clear, Refill
    <3>2. UNCHANGED issued \/ \E made \in {0, 1} : issued' = [issued EXCEPT ![Pay(q)] = @ + made]
      BY <3>1 DEF Issue, TimeOut, Refuse
    <3>3. issued \in [Payment -> Nat]
      BY <1>0 DEF TypeOK
    <3> QED
      BY <3>2, <3>3
  <2>6. SUFFICES ProcessInv(q)'
    BY <2>1, <2>5, KnowledgeFrame
  <2>7. MadeOut(q) /\ (proc[q].pc \in {"mark", "done", "save", "verify"} => issued'[Pay(q)] > 0)
    BY <2>1, <2>2, <2>4, <2>5 DEF ProcessInv, MadeOut
  <2>8. CASE Look(q) \/ Mark(q)
    <3>1. Pay(q) \in Payment /\ (Look(q) => At(q, "look")) /\ (Mark(q) => At(q, "mark"))
      BY <2>2, <2>8 DEF Look, Mark, At
    <3>2. CASE Mark(q) \/ Pay(q) \in created
      <4>1. Goto(q, WithReceipt(q)) /\ WithReceipt(q) \in {"done", "save", "verify"}
        BY <2>3, <2>8, <3>2 DEF Look, Mark, WithReceipt
      <4>2. issued'[Pay(q)] > 0
        BY <2>4, <2>5, <2>7, <2>8, <3>1, <3>2 DEF At
      <4> QED
        BY <2>3, <2>8, <3>1, <4>1, <4>2, TurnKnows DEF Turn, Role, WithReceipt, PC, At
    <3>3. CASE Look(q) /\ Pay(q) \notin created
      <4>1. Goto(q, "auth") /\ "auth" \in PC /\ Turn(q, "auth")
        BY <2>3, <3>1, <3>3 DEF Look, PC, Turn, Role, At
      <4> QED
        BY <4>1, TurnKnows
    <3> QED
      BY <2>8, <3>2, <3>3
  <2>9. CASE LoginFails(q) \/ Refuse(q) \/ TimeOut(q) \/ File(q)
    <3>1. PICK c \in {"enqueue", "idle", "requeue", "file"} :
            Goto(q, c) /\ (c = "enqueue" => q \in Handler) /\ (c = "requeue" => q \in Worker)
      BY <2>3, <2>9 DEF LoginFails, Refuse, TimeOut, File, WithoutReceipt
    <3>2. proc[q].pc \in {"auth", "file"}
      BY <2>9 DEF LoginFails, Refuse, TimeOut, File, At
    <3> QED
      BY <2>3, <3>1, <3>2, TurnKnows DEF Turn, Role, PC
  <2>10. CASE Issue(q)
    <3>1. At(q, "auth") /\ Goto(q, "mark") /\ issued' = [issued EXCEPT ![Pay(q)] = @ + 1]
      BY <2>10 DEF Issue
    <3>2. issued \in [Payment -> Nat] /\ Pay(q) \in Payment
      BY <1>0, <2>2, <3>1 DEF TypeOK, At
    <3>3. issued'[Pay(q)] > 0
      BY <3>1, <3>2
    <3> QED
      BY <2>3, <3>1, <3>3, TurnKnows DEF Turn, Role, PC, At
  <2>11. CASE Save(q) \/ LookAgain(q) \/ Claim(q) \/ Push(q) \/ Finish(q) \/ Requeue(q)
    <3>1. PICK c \in {"idle", "claim", "push"} :
            Goto(q, c) /\ (c # "idle" => proc[q].pc \in {"enqueue", "claim"})
      BY <2>11 DEF Save, LookAgain, Claim, Push, Finish, Requeue, At
    <3> QED
      BY <2>3, <3>1, TurnKnows DEF Turn, Role, PC
  <2>12. CASE Discard(q) \/ Done(q) \/ Clear(q)
    <3>1. PICK c \in {"pop", "refill"} :
            Goto(q, c) /\ (c = "pop" => proc[q].pc \in {"discard", "done"})
                       /\ (c = "refill" => proc[q].pc = "clear")
      BY <2>12 DEF Discard, Done, Clear, At
    <3> QED
      BY <2>3, <3>1, TurnKnows DEF Turn, Role, PC
  <2>13. CASE Pop(q)
    <3>1. PICK c \in {"look", "discard"} :
            /\ Call(q, c, Head(queue).p, Head(queue).n)
            /\ c = "look" => Head(queue).n < MaxAttempts
      BY <2>13, <1>0, HeadOfQueue, BoundAssumption DEF Pop
    <3>2. At(q, "pop") /\ q \in Worker
      BY <2>3, <2>13 DEF Pop, At, Role
    <3>3. /\ proc'[q].pc = c /\ proc'[q].p = Head(queue).p /\ proc'[q].n = Head(queue).n
          /\ Head(queue).p \in Payment
      BY <1>0, <2>13, <3>1, HeadOfQueue, CallEffect DEF Pop, PC
    <3> QED
      BY <2>3, <3>1, <3>2, <3>3 DEF ProcessInv, Role, Named, TriesLeft, MadeOut, At, Pay
  <2>14. CASE Verify(q)
    <3>1. CASE Goto(q, "idle")
      BY <3>1, TurnKnows DEF Turn, PC
    <3>2. CASE Rewrite(q, Pay(q))
      <4>1. At(q, "verify") /\ q \in Admin /\ Pay(q) \in Payment
        BY <2>2, <2>3, <2>14 DEF Verify, At, Role
      <4>2. proc'[q].pc = "clear" /\ proc'[q].p = Pay(q)
        BY <1>0, <3>2, <4>1, RewriteEffect
      <4> QED
        BY <2>3, <4>1, <4>2 DEF ProcessInv, Role, Named, TriesLeft, MadeOut, At, Pay
    <3> QED
      BY <2>14, <3>1, <3>2 DEF Verify
  <2>15. CASE Refill(q)
    <3>1. CASE Goto(q, "idle")
      BY <3>1, TurnKnows DEF Turn, PC
    <3>2. CASE \E p \in proc[q].rest : proc' = [proc EXCEPT ![q].rest = @ \ {p}]
      <4>1. At(q, "refill") /\ \A p \in proc[q].rest : p \in Payment
        BY <2>1, <2>15 DEF Refill, ProcessState
      <4>2. proc'[q].pc = proc[q].pc /\ proc'[q].p = proc[q].p
        BY <1>0, <3>2, <4>1, RefillEffect
      <4> QED
        BY <2>1, <2>3, <4>1, <4>2 DEF ProcessInv, Role, Named, TriesLeft, MadeOut, At, Pay
    <3> QED
      BY <2>15, <3>1, <3>2 DEF Refill
  <2>16. CASE Outage(q)
    <3>1. Goto(q, AfterOutage(q)) /\ proc[q].pc \notin {"idle", "auth", "save", "refill"}
      BY <2>16 DEF Outage
    <3>2. Turn(q, AfterOutage(q)) /\ AfterOutage(q) \in PC
      BY <2>3, <2>7, <3>1 DEF AfterOutage, At, Turn, Role, WithReceipt, WithoutReceipt, PC
    <3> QED
      BY <3>1, <3>2, TurnKnows
  <2>17. CASE AnswerLost(q)
    BY <2>17, TurnKnows DEF AnswerLost, Turn, PC
  <2> QED
    BY <1>1, <2>8, <2>9, <2>10, <2>11, <2>12, <2>13, <2>14, <2>15, <2>16, <2>17 DEF Step
<1>2. ASSUME NEW h \in Handler, NEW p \in Payment, Ask(h, p)
      PROVE  \A r \in Process : ProcessInv(r)'
  <2>1. h \in Process /\ h \notin Worker /\ h \notin Admin /\ 0 \in 0..MaxAttempts
    BY ProcessAssumption, BoundAssumption DEF Process
  <2>2. Only(h) /\ proc'[h].pc = "look" /\ proc'[h].p = p
    BY <1>0, <1>2, <2>1, CallEffect DEF Ask, PC
  <2>3. ProcessInv(h)'
    BY <2>1, <2>2 DEF ProcessInv, Role, Named, TriesLeft, MadeOut, At, Pay
  <2>4. \A x \in Payment : issued'[x] >= issued[x] /\ issued'[x] \in Nat
    BY <1>0, <1>2 DEF Ask, TypeOK
  <2> QED
    BY <2>1, <2>2, <2>3, <2>4, KnowledgeFrame
<1>3. ASSUME NEW w \in Worker, Begin(w)
      PROVE  \A r \in Process : ProcessInv(r)'
  <2>1. w \in Process /\ "pop" \in PC /\ Goto(w, "pop")
    BY <1>3 DEF Process, PC, Begin
  <2>2. Only(w) /\ ProcessInv(w)'
    BY <1>0, <2>1, GotoEffect, TurnKnows DEF Turn
  <2>3. \A x \in Payment : issued'[x] >= issued[x] /\ issued'[x] \in Nat
    BY <1>0, <1>3 DEF Begin, TypeOK
  <2> QED
    BY <2>1, <2>2, <2>3, KnowledgeFrame
<1>4. ASSUME NEW a \in Admin, NEW p \in Payment, PressVerified(a, p) \/ PressRetry(a, p)
      PROVE  \A r \in Process : ProcessInv(r)'
  <2>1. a \in Process /\ a \notin Worker /\ a \notin Handler /\ 0 \in 0..MaxAttempts
    BY ProcessAssumption, BoundAssumption DEF Process
  <2>2. Only(a) /\ proc'[a].pc \in {"look", "clear"} /\ proc'[a].p = p
    BY <1>0, <1>4, <2>1, CallEffect, RewriteEffect DEF PressVerified, PressRetry, PC
  <2>3. ProcessInv(a)'
    BY <2>1, <2>2, ProcessAssumption DEF ProcessInv, Role, Named, TriesLeft, MadeOut, At, Pay
  <2>4. \A x \in Payment : issued'[x] >= issued[x] /\ issued'[x] \in Nat
    BY <1>0, <1>4 DEF PressVerified, PressRetry, TypeOK
  <2> QED
    BY <2>1, <2>2, <2>3, <2>4, KnowledgeFrame
<1>5. CASE UNCHANGED <<proc, issued>>
  BY <1>0, <1>5 DEF ProcessInv, Role, Named, TriesLeft, MadeOut, At, Pay
<1>6. CASE Restart
  <2>1. \A q \in Process : proc'[q] = Idle
    BY <1>6 DEF Restart
  <2> QED
    BY <2>1, IdleKnows
<1> QED
  BY <1>1, <1>2, <1>3, <1>4, <1>5, <1>6 DEF Next, ClearAll, vars

-----------------------------------------------------------------------------
(* The queue and its keys. *)

\* An item more, at the end.
LEMMA WaitingAfterAppend ==
  ASSUME TypeOK, NEW x \in Payment \cup {None}, NEW n, NEW p \in Payment,
         queue' = Append(queue, [p |-> x, n |-> n])
  PROVE  /\ p # x => Waiting(p)' = Waiting(p)
         /\ p = x => Waiting(p)' = Waiting(p) \cup {Len(queue) + 1}
<1> DEFINE S == [p : Payment, n : 0..MaxAttempts]
           e == [p |-> x, n |-> n]
<1>1. queue \in Seq(S) /\ e.p = x
  BY DEF TypeOK
<1> HIDE DEF S, e
<1>2. queue' = Append(queue, e)
  BY DEF e
<1>3. /\ DOMAIN queue = 1..Len(queue) /\ Len(queue) \in Nat
      /\ DOMAIN queue' = 1..(Len(queue) + 1)
      /\ \A i \in 1..Len(queue) : queue'[i] = queue[i]
      /\ queue'[Len(queue) + 1] = e
  BY <1>1, <1>2
<1>4. \A i : i \in 1..(Len(queue) + 1) <=> i \in 1..Len(queue) \/ i = Len(queue) + 1
  BY <1>3
<1> QED
  BY <1>1, <1>3, <1>4 DEF Waiting

\* The first item less: the others move up.
LEMMA WaitingAfterPop ==
  ASSUME TypeOK, queue # <<>>, queue' = Tail(queue), NEW p \in Payment
  PROVE  /\ p = Head(queue).p => 1 \in Waiting(p)
         /\ \A i \in Waiting(p)' : i \in Nat /\ i > 0 /\ i + 1 \in Waiting(p)
         /\ \A i \in Waiting(p) : (i = 1 /\ p = Head(queue).p) \/ i - 1 \in Waiting(p)'
<1> DEFINE S == [p : Payment, n : 0..MaxAttempts]
<1>1. queue \in Seq(S)
  BY DEF TypeOK
<1> HIDE DEF S
<1>2. /\ DOMAIN queue = 1..Len(queue) /\ Len(queue) \in Nat /\ Len(queue) > 0
      /\ DOMAIN queue' = 1..(Len(queue) - 1) /\ Head(queue) = queue[1]
      /\ \A i \in 1..(Len(queue) - 1) : queue'[i] = queue[i + 1]
  BY <1>1, EmptySeq, HeadTailProperties
<1> QED
  BY <1>2 DEF Waiting

\* Nobody who had no item in hand gets one: whoever drops his frees its payment.
LEMMA QueueFrame ==
  ASSUME IInv, UNCHANGED <<queue, queued, unkeyed>>,
         \A p \in Payment : InHand(p)' \subseteq InHand(p)
  PROVE  \A p \in Payment : QueueInv(p)'
BY DEF IInv, QueueInv, Single, Waiting

\* A process holds no item but in the hands of a worker and on the way to lpush.
LEMMA HandKept ==
  ASSUME IInv, NEW q \in Process, Only(q), proc'[q].pc # "push",
         q \in Worker /\ proc'[q].pc # "idle" =>
           proc'[q].p = None \/ (proc'[q].p = proc[q].p /\ proc[q].pc # "idle")
  PROVE  \A p \in Payment : InHand(p)' \subseteq InHand(p)
BY PaymentAssumption DEF InHand, Only, At, Pay

LEMMA HandLeft ==
  ASSUME IInv, NEW q \in Process, Only(q), proc'[q].pc \in {"idle", "pop"}, ProcessInv(q)'
  PROVE  \A p \in Payment : InHand(p)' = InHand(p) \ {q}
BY PaymentAssumption DEF InHand, Only, At, Pay, ProcessInv, Named

LEMMA HandFrame ==
  ASSUME IInv, NEW q \in Process, NEW c \in PC \ {"push"}, Goto(q, c),
         ~At(q, "idle") \/ c = "pop"
  PROVE  \A p \in Payment : InHand(p)' \subseteq InHand(p)
<1>1. /\ TypeOK /\ Only(q) /\ proc'[q].pc = c /\ (c \notin {"idle", "pop"} => proc'[q].p = proc[q].p)
      /\ (c = "pop" => proc'[q].p = None)
  BY Knows, GotoEffect
<1>2. /\ proc'[q].pc # "push"
      /\ q \in Worker /\ proc'[q].pc # "idle" =>
           proc'[q].p = None \/ (proc'[q].p = proc[q].p /\ proc[q].pc # "idle")
  BY <1>1 DEF At
<1> QED
  BY <1>1, <1>2, HandKept

\* An item is taken from the queue and no payment but its own gets into a hand.
LEMMA FewerWaiting ==
  ASSUME IInv, queue # <<>>, queue' = Tail(queue), UNCHANGED <<queued, unkeyed>>,
         NEW p \in Payment, InHand(p)' \subseteq InHand(p)
  PROVE  QueueInv(p)'
<1>1. /\ \A i \in Waiting(p)' : i \in Nat /\ i > 0 /\ i + 1 \in Waiting(p)
      /\ QueueInv(p)
  BY WaitingAfterPop DEF IInv
<1>2. SUFFICES ASSUME Single(p) PROVE Single(p)'
  BY <1>1 DEF QueueInv
<1>3. \A i, j \in Waiting(p)' : i = j
  BY <1>1, <1>2 DEF Single
<1> QED
  BY <1>1, <1>2, <1>3 DEF Single

LEMMA QueueStep ==
  ASSUME IInv, [Next]_vars
  PROVE  \A p \in Payment : QueueInv(p)'
<1>0. TypeOK /\ (\A q \in Process : ProcessInv(q)) /\ (\A q \in Process : ProcessInv(q)')
      /\ \A p \in Payment : QueueInv(p)
  BY Knowing DEF IInv
<1>1. ASSUME NEW q \in Process, Step(q) \/ Outage(q) \/ AnswerLost(q)
      PROVE  \A p \in Payment : QueueInv(p)'
  <2>1. Only(q) /\ ProcessInv(q) /\ ProcessInv(q)' /\ proc[q] \in ProcessState
    BY <1>0, <1>1, StepMoves, Knows
  <2>2. proc[q].pc \notin {"idle", "pop"} => Pay(q) \in Payment
    BY Knows DEF Pay
  <2>3. /\ Role(q, proc[q].pc)
        /\ \/ q \in Handler /\ q \notin Worker /\ q \notin Admin
           \/ q \notin Handler /\ q \in Worker /\ q \notin Admin
           \/ q \notin Handler /\ q \notin Worker /\ q \in Admin
    BY <2>1, Knows DEF ProcessInv
  <2>4. CASE Look(q) \/ LoginFails(q) \/ Issue(q) \/ Refuse(q) \/ TimeOut(q) \/ Mark(q) \/ File(q)
    <3>1. \E c \in PC \ {"push"} : Goto(q, c)
      BY <2>4, Knows DEF Look, LoginFails, Issue, Refuse, TimeOut, Mark, File, PC
    <3>2. ~At(q, "idle") /\ UNCHANGED <<queue, queued, unkeyed>>
      BY <2>4 DEF Look, LoginFails, Issue, Refuse, TimeOut, Mark, File, At, redis
    <3> QED
      BY <3>1, <3>2, HandFrame, QueueFrame
  <2>5. CASE Save(q) \/ LookAgain(q) \/ Finish(q) \/ Clear(q)
    <3>1. \E c \in PC \ {"push"} : Goto(q, c)
      BY <2>5 DEF Save, LookAgain, Finish, Clear, PC
    <3>2. ~At(q, "idle") /\ UNCHANGED <<queue, queued, unkeyed>>
      BY <2>5 DEF Save, LookAgain, Finish, Clear, At, redis
    <3> QED
      BY <3>1, <3>2, HandFrame, QueueFrame
  <2>6. CASE Verify(q) \/ Refill(q)
    <3>1. q \notin Worker /\ proc'[q].pc # "push" /\ UNCHANGED <<queue, queued, unkeyed>>
      <4>1. q \in Admin
        BY <2>3, <2>6 DEF Verify, Refill, At, Role
      <4> QED
        BY <2>1, <2>3, <2>6, <4>1 DEF Verify, Refill, ProcessInv, Role
    <3> QED
      BY <2>1, <3>1, HandKept, QueueFrame
  <2>7. CASE Claim(q)
    <3>1. At(q, "claim") /\ q \in Handler /\ Pay(q) \in Payment /\ UNCHANGED <<queue, unkeyed>>
          /\ queued' = queued \cup {Pay(q)}
      BY <2>2, <2>3, <2>7 DEF Claim, At, Role
    <3>2. CASE Pay(q) \in queued
      <4>1. Goto(q, "idle") /\ queued' = queued /\ "idle" \in PC \ {"push"}
        BY <2>7, <3>1, <3>2 DEF Claim, PC
      <4> QED
        BY <3>1, <4>1, HandFrame, QueueFrame DEF At
    <3>3. CASE Pay(q) \notin queued
      <4>1. PICK x \in Payment : x = Pay(q)
        BY <3>1
      <4>2. proc'[q].pc = "push" /\ proc'[q].p = x
        BY <1>0, <2>7, <3>3, <4>1, GotoEffect DEF Claim, PC, Pay
      <4>3. x \notin unkeyed => Waiting(x) = {} /\ InHand(x) = {}
        BY <1>0, <3>1, <3>3, <4>1 DEF QueueInv, Single
      <4>4. /\ InHand(x)' = InHand(x) \cup {q}
            /\ \A p \in Payment \ {x} : InHand(p)' \subseteq InHand(p)
        BY <2>1, <3>1, <4>2 DEF InHand, Only, At, Pay
      <4>5. \A p \in Payment : Waiting(p)' = Waiting(p)
        BY <3>1 DEF Waiting
      <4> QED
        BY <1>0, <3>1, <4>1, <4>3, <4>4, <4>5 DEF QueueInv, Single
    <3> QED
      BY <3>2, <3>3
  <2>8. CASE Push(q) \/ Requeue(q)
    <3>1. PICK x \in Payment :
            /\ x = Pay(q) /\ q \in InHand(x) /\ UNCHANGED <<queued, unkeyed>> /\ Goto(q, "idle")
            /\ \E n : queue' = Append(queue, [p |-> x, n |-> n])
      BY <2>2, <2>3, <2>8 DEF Push, Requeue, InHand, At, Role
    <3>2. \A p \in Payment : InHand(p)' = InHand(p) \ {q}
      BY <1>0, <2>1, <3>1, GotoEffect, HandLeft DEF PC
    <3>3. /\ Waiting(x)' = Waiting(x) \cup {Len(queue) + 1}
          /\ \A p \in Payment \ {x} : Waiting(p)' = Waiting(p)
      BY <1>0, <3>1, WaitingAfterAppend
    <3>4. x \notin unkeyed => Waiting(x) = {} /\ InHand(x) = {q} /\ x \in queued
      BY <1>0, <3>1 DEF QueueInv, Single
    <3>5. QueueInv(x)'
      BY <3>1, <3>2, <3>3, <3>4 DEF QueueInv, Single
    <3>6. \A p \in Payment \ {x} : QueueInv(p)'
      BY <1>0, <3>1, <3>2, <3>3 DEF QueueInv, Single
    <3> QED
      BY <3>5, <3>6
  <2>9. CASE Pop(q)
    <3>1. PICK x \in Payment :
            /\ x = Head(queue).p /\ q \in Worker
            /\ queue # <<>> /\ queue' = Tail(queue) /\ UNCHANGED <<queued, unkeyed>>
      BY <1>0, <2>3, <2>9, HeadOfQueue DEF Pop, At, Role
    <3>2. proc'[q].p = x /\ proc'[q].pc \in {"look", "discard"} /\ proc[q].p = None
      BY <1>0, <2>1, <2>9, <3>1, HeadOfQueue, CallEffect DEF Pop, PC, ProcessInv, Named, At, Pay
    <3>3. InHand(x)' = InHand(x) \cup {q} /\ \A p \in Payment \ {x} : InHand(p)' = InHand(p)
      BY <2>1, <3>1, <3>2, PaymentAssumption DEF InHand, Only, At, Pay
    <3>4. x \notin unkeyed => InHand(x) = {} /\ x \in queued /\ Waiting(x)' = {}
      BY <1>0, <3>1, WaitingAfterPop DEF QueueInv, Single
    <3>5. QueueInv(x)'
      BY <3>1, <3>3, <3>4 DEF QueueInv, Single
    <3>6. \A p \in Payment \ {x} : QueueInv(p)'
      BY <1>0, <3>1, <3>3, FewerWaiting
    <3> QED
      BY <3>5, <3>6
  <2>10. CASE Discard(q) \/ Done(q)
    <3>1. PICK x \in Payment :
            /\ x = Pay(q) /\ q \in InHand(x) /\ UNCHANGED <<queue, unkeyed>> /\ Goto(q, "pop")
            /\ queued' = queued \ {x}
      BY <2>2, <2>3, <2>10 DEF Discard, Done, Unqueue, InHand, At, Role
    <3>2. \A p \in Payment : InHand(p)' = InHand(p) \ {q}
      BY <1>0, <2>1, <3>1, GotoEffect, HandLeft DEF PC
    <3>3. x \notin unkeyed => Waiting(x) = {} /\ InHand(x) = {q}
      BY <1>0, <3>1 DEF QueueInv, Single
    <3>4. \A p \in Payment : Waiting(p)' = Waiting(p)
      BY <3>1 DEF Waiting
    <3> QED
      BY <1>0, <3>1, <3>2, <3>3, <3>4 DEF QueueInv, Single
  <2>11. CASE Outage(q)
    <3>1. /\ Goto(q, AfterOutage(q)) /\ AfterOutage(q) \in PC \ {"push"} /\ ~At(q, "idle")
          /\ UNCHANGED <<queue, unkeyed>>
      BY <2>3, <2>11, Knows DEF Outage, AfterOutage, At, PC
    <3>2. \A p \in Payment : InHand(p)' \subseteq InHand(p)
      BY <3>1, HandFrame
    <3>3. CASE ~At(q, "push")
      BY <2>11, <3>1, <3>2, <3>3, QueueFrame DEF Outage
    <3>4. CASE At(q, "push")
      <4>1. PICK x \in Payment :
              /\ x = Pay(q) /\ q \in InHand(x) /\ queued \ {x} \subseteq queued'
              /\ AfterOutage(q) = "idle"
        BY <2>2, <2>11, <3>4 DEF Outage, InHand, At, AfterOutage
      <4>2. \A p \in Payment : InHand(p)' = InHand(p) \ {q}
        BY <1>0, <2>1, <3>1, <4>1, GotoEffect, HandLeft DEF PC
      <4>3. x \notin unkeyed => Waiting(x) = {} /\ InHand(x) = {q}
        BY <1>0, <4>1 DEF QueueInv, Single
      <4>4. \A p \in Payment : Waiting(p)' = Waiting(p)
        BY <3>1 DEF Waiting
      <4> QED
        BY <1>0, <3>1, <4>1, <4>2, <4>3, <4>4 DEF QueueInv, Single
    <3> QED
      BY <3>3, <3>4
  <2>12. CASE AnswerLost(q)
    <3>1. Goto(q, "idle") /\ (At(q, "claim") \/ At(q, "push") \/ At(q, "pop"))
      BY <2>12 DEF AnswerLost
    <3>2. \A p \in Payment : InHand(p)' = InHand(p) \ {q}
      BY <1>0, <2>1, <3>1, GotoEffect, HandLeft DEF PC
    <3>3. CASE At(q, "claim")
      BY <1>0, <2>12, <3>2, <3>3 DEF AnswerLost, QueueInv, Single, Waiting, At
    <3>4. CASE At(q, "push")
      <4>1. PICK x \in Payment :
              /\ x = Pay(q) /\ q \in InHand(x) /\ queue' = Append(queue, [p |-> x, n |-> 0])
              /\ queued \ {x} \subseteq queued' /\ (x \in queued' \/ x \notin queued \/ x \in unkeyed')
              /\ unkeyed \subseteq unkeyed'
        BY <2>2, <2>12, <3>4 DEF AnswerLost, InHand, At
      <4>2. /\ Waiting(x)' = Waiting(x) \cup {Len(queue) + 1}
            /\ \A p \in Payment \ {x} : Waiting(p)' = Waiting(p)
        BY <1>0, <4>1, WaitingAfterAppend
      <4>3. x \notin unkeyed => Waiting(x) = {} /\ InHand(x) = {q} /\ x \in queued
        BY <1>0, <4>1 DEF QueueInv, Single
      <4>4. QueueInv(x)'
        BY <3>2, <4>1, <4>2, <4>3 DEF QueueInv, Single
      <4>5. \A p \in Payment \ {x} : QueueInv(p)'
        BY <1>0, <3>2, <4>1, <4>2 DEF QueueInv, Single
      <4> QED
        BY <4>4, <4>5
    <3>5. CASE At(q, "pop")
      <4>1. /\ queue # <<>> /\ queue' = Tail(queue) /\ UNCHANGED <<queued, unkeyed>>
            /\ \A p \in Payment : InHand(p)' = InHand(p) \ {q}
        BY <2>12, <3>2, <3>5 DEF AnswerLost, At
      <4> QED
        BY <1>0, <4>1, FewerWaiting
    <3> QED
      BY <3>1, <3>3, <3>4, <3>5
  <2> QED
    BY <1>1, <2>4, <2>5, <2>6, <2>7, <2>8, <2>9, <2>10, <2>11, <2>12 DEF Step
<1>2. ASSUME NEW h \in Handler, NEW p \in Payment, Ask(h, p)
      PROVE  \A x \in Payment : QueueInv(x)'
  <2>1. h \in Process /\ h \notin Worker /\ 0 \in 0..MaxAttempts
    BY ProcessAssumption, BoundAssumption DEF Process
  <2>2. Only(h) /\ proc'[h].pc = "look" /\ UNCHANGED <<queue, queued, unkeyed>>
    BY <1>0, <1>2, <2>1, CallEffect DEF Ask, PC, redis
  <2> QED
    BY <2>1, <2>2, HandKept, QueueFrame
<1>3. ASSUME NEW w \in Worker, Begin(w)
      PROVE  \A p \in Payment : QueueInv(p)'
  <2>1. w \in Process /\ "pop" \in PC \ {"push"} /\ Goto(w, "pop") /\ UNCHANGED <<queue, queued, unkeyed>>
    BY <1>3 DEF Process, PC, Begin, redis
  <2> QED
    BY <2>1, HandFrame, QueueFrame
<1>4. ASSUME NEW a \in Admin, NEW p \in Payment, PressVerified(a, p) \/ PressRetry(a, p)
      PROVE  \A x \in Payment : QueueInv(x)'
  <2>1. a \in Process /\ a \notin Worker /\ 0 \in 0..MaxAttempts
    BY ProcessAssumption, BoundAssumption DEF Process
  <2>2. Only(a) /\ proc'[a].pc \in {"look", "clear"} /\ UNCHANGED <<queue, queued, unkeyed>>
    BY <1>0, <1>4, <2>1, CallEffect, RewriteEffect DEF PressVerified, PressRetry, PC, redis
  <2> QED
    BY <2>1, <2>2, HandKept, QueueFrame
<1>5. CASE UNCHANGED <<proc, queue, queued, unkeyed>>
  BY <1>0, <1>5 DEF QueueInv, Single, Waiting, InHand, At, Pay
<1>6. CASE Restart
  <2>1. (\A p \in Payment : InHand(p)' = {}) /\ UNCHANGED <<queue, queued, unkeyed>>
    BY <1>6 DEF Restart, InHand, At, Idle, redis
  <2> QED
    BY <2>1, QueueFrame
<1> QED
  BY <1>1, <1>2, <1>3, <1>4, <1>5, <1>6 DEF Next, ClearAll, vars, redis

-----------------------------------------------------------------------------
(* Receipts made out twice. *)

\* A step that neither sends a request nor ends one.
LEMMA DoubtFrame ==
  ASSUME IInv, NEW q \in Process, Only(q), proc[q].pc # "mark",
         proc'[q].pc \notin {"auth", "mark"},
         UNCHANGED issued, created \subseteq created', doubt \subseteq doubt'
  PROVE  \A p \in Payment : DoubtInv(p)'
<1>1. ASSUME NEW p \in Payment, p \notin doubt'
      PROVE  DoubtInv(p)'
  <2>1. DoubtInv(p) /\ p \notin doubt
    BY <1>1 DEF IInv
  <2>2. \A r \in Process : proc'[r].pc \in {"auth", "mark"} => proc'[r] = proc[r]
    BY DEF Only
  <2>3. \A r \in Process : proc[r].pc = "mark" => proc'[r] = proc[r]
    BY DEF Only
  <2>4. Requesting(p)' \subseteq Requesting(p)
    BY <2>2 DEF Requesting, Pay
  <2> QED
    BY <2>1, <2>2, <2>3, <2>4 DEF DoubtInv, Pay, At
<1> QED
  BY <1>1 DEF DoubtInv

\* A request begins: the created key is not there, and nobody else's request
\* is under way, or the payment is in doubt from here on.
LEMMA RequestBegins ==
  ASSUME IInv, NEW q \in Process, Only(q), proc[q].pc \notin {"auth", "mark"},
         proc'[q].pc = "auth", proc'[q].p = Pay(q), Pay(q) \in Payment,
         UNCHANGED <<issued, created>>, doubt \subseteq doubt',
         (Pay(q) \notin created /\ ~UnderWay(Pay(q))) \/ Pay(q) \in doubt'
  PROVE  \A p \in Payment : DoubtInv(p)'
<1>1. ASSUME NEW p \in Payment, p \notin doubt'
      PROVE  DoubtInv(p)'
  <2>1. DoubtInv(p) /\ p \notin doubt /\ issued[p] \in Nat
    BY <1>1 DEF IInv, TypeOK
  <2>2. \A r \in Process \ {q} : proc'[r] = proc[r]
    BY DEF Only
  <2>3. CASE p = Pay(q)
    <3>1. p \notin created /\ \A r \in Process : Pay(r) = p => proc[r].pc \notin {"auth", "mark"}
      BY <1>1, <2>3 DEF UnderWay
    <3>2. issued[p] = 0
      BY <2>1, <3>1 DEF DoubtInv, At
    <3>3. Requesting(p)' \subseteq {q}
      BY <2>2, <3>1 DEF Requesting, Pay
    <3> QED
      BY <3>2, <3>3 DEF DoubtInv
  <2>4. CASE p # Pay(q)
    <3>1. \A r \in Process : proc'[r].p = p /\ proc'[r].pc \in {"auth", "mark"} => proc'[r] = proc[r]
      BY <2>2, <2>4
    <3>2. \A r \in Process : proc[r].pc = "mark" => proc'[r] = proc[r]
      BY <2>2
    <3>3. Requesting(p)' \subseteq Requesting(p)
      BY <3>1 DEF Requesting, Pay
    <3> QED
      BY <2>1, <3>1, <3>2, <3>3 DEF DoubtInv, Pay, At
  <2> QED
    BY <2>3, <2>4
<1> QED
  BY <1>1 DEF DoubtInv

LEMMA DoubtStep ==
  ASSUME IInv, [Next]_vars
  PROVE  \A p \in Payment : DoubtInv(p)'
<1>0. TypeOK /\ (\A q \in Process : ProcessInv(q)) /\ (\A q \in Process : ProcessInv(q)')
      /\ \A p \in Payment : DoubtInv(p)
  BY Knowing DEF IInv
<1>1. ASSUME NEW q \in Process, Step(q) \/ Outage(q) \/ AnswerLost(q)
      PROVE  \A p \in Payment : DoubtInv(p)'
  <2>1. Only(q) /\ ProcessInv(q) /\ ProcessInv(q)' /\ proc[q] \in ProcessState
    BY <1>0, <1>1, StepMoves, Knows
  <2>2. proc[q].pc \notin {"idle", "pop"} => Pay(q) \in Payment
    BY Knows DEF Pay
  <2>3. \A r \in Process \ {q} : proc'[r] = proc[r]
    BY <2>1 DEF Only
  <2>4. CASE Look(q)
    <3>1. /\ At(q, "look") /\ Pay(q) \in Payment
          /\ UNCHANGED <<issued, created>> /\ doubt \subseteq doubt'
      BY <2>2, <2>4 DEF Look, At, redis
    <3>2. CASE Pay(q) \in created
      <4>1. Goto(q, WithReceipt(q)) /\ WithReceipt(q) \in PC \ {"idle", "pop"}
            /\ WithReceipt(q) \in {"save", "done", "verify"}
        BY <2>4, <3>2, Knows DEF Look, WithReceipt
      <4> QED
        BY <1>0, <2>1, <3>1, <4>1, GotoEffect, DoubtFrame DEF At
    <3>3. CASE Pay(q) \notin created
      <4>1. Goto(q, "auth") /\ "auth" \in PC
        BY <2>4, <3>3 DEF Look, PC
      <4>2. proc'[q].pc = "auth" /\ proc'[q].p = Pay(q)
        BY <1>0, <4>1, GotoEffect DEF Pay
      <4>3. (Pay(q) \notin created /\ ~UnderWay(Pay(q))) \/ Pay(q) \in doubt'
        BY <2>4, <3>3 DEF Look
      <4> QED
        BY <2>1, <3>1, <4>2, <4>3, RequestBegins DEF At
    <3> QED
      BY <3>2, <3>3
  <2>5. CASE Issue(q)
    <3>1. PICK x \in Payment : /\ x = Pay(q) /\ At(q, "auth") /\ Goto(q, "mark")
                               /\ issued' = [issued EXCEPT ![x] = @ + 1]
                               /\ UNCHANGED <<created, doubt>>
      BY <2>2, <2>5 DEF Issue, At, redis
    <3>2. proc'[q].pc = "mark" /\ proc'[q].p = x
      BY <1>0, <3>1, GotoEffect DEF PC, Pay
    <3>3. DoubtInv(x)'
      <4>1. SUFFICES ASSUME x \notin doubt PROVE DoubtInv(x)'
        BY <3>1 DEF DoubtInv
      <4>2. issued[x] = 0 /\ issued'[x] = 1 /\ \A r, t \in Requesting(x) : r = t
        BY <1>0, <3>1, <4>1 DEF DoubtInv, At, Pay, TypeOK
      <4>3. \A r \in Process : proc'[r].p = x /\ proc'[r].pc \in {"auth", "mark"} => r = q
        BY <2>3, <3>1, <4>2 DEF Requesting, Pay, At
      <4> QED
        BY <3>2, <4>2, <4>3 DEF DoubtInv, Requesting, Pay, At
    <3>4. ASSUME NEW p \in Payment \ {x}
          PROVE  DoubtInv(p)'
      <4>1. issued'[p] = issued[p] /\ DoubtInv(p)
        BY <1>0, <3>1 DEF TypeOK
      <4>2. \A r \in Process : proc'[r].p = p \/ proc[r].p = p => proc'[r] = proc[r]
        BY <2>3, <3>1, <3>2 DEF Pay
      <4> QED
        BY <3>1, <4>1, <4>2 DEF DoubtInv, Requesting, Pay, At
    <3> QED
      BY <3>3, <3>4
  <2>6. CASE TimeOut(q) \/ (Refuse(q) /\ Pay(q) \in doubt')
    <3>1. PICK x \in Payment, made \in {0, 1}, c \in {"file", "idle", "requeue"} :
            /\ x = Pay(q) /\ At(q, "auth") /\ Goto(q, c)
            /\ issued' = [issued EXCEPT ![x] = @ + made]
            /\ created' = created /\ doubt \subseteq doubt' /\ x \in doubt'
      <4>1. CASE TimeOut(q)
        BY <2>2, <4>1 DEF TimeOut, At, redis
      <4>2. CASE Refuse(q) /\ Pay(q) \in doubt'
        BY <2>2, <4>2, Knows DEF Refuse, At, redis
      <4> QED
        BY <2>6, <4>1, <4>2
    <3>2. proc'[q].pc \notin {"auth", "mark"} /\ (proc'[q].p = x \/ proc'[q].pc = "idle")
      BY <1>0, <3>1, GotoEffect DEF PC, Pay
    <3>3. ASSUME NEW p \in Payment \ {x}
          PROVE  DoubtInv(p)'
      <4>1. issued'[p] = issued[p] /\ DoubtInv(p)
        BY <1>0, <3>1 DEF TypeOK
      <4>2. \A r \in Process : proc'[r].pc \in {"auth", "mark"} \/ proc[r].p = p => proc'[r] = proc[r]
        BY <2>3, <3>1, <3>2 DEF Pay
      <4>3. Requesting(p)' \subseteq Requesting(p)
        BY <4>2 DEF Requesting, Pay
      <4> QED
        BY <3>1, <4>1, <4>2, <4>3 DEF DoubtInv, Requesting, Pay, At
    <3> QED
      BY <3>1, <3>3 DEF DoubtInv
  <2>7. CASE Mark(q)
    <3>1. PICK x \in Payment : /\ x = Pay(q) /\ At(q, "mark") /\ Goto(q, WithReceipt(q))
                               /\ created' = created \cup {x} /\ UNCHANGED <<issued, doubt>>
      BY <2>2, <2>7 DEF Mark, At
    <3>2. proc'[q].pc \notin {"auth", "mark"} /\ proc'[q].p = x
      BY <1>0, <3>1, Knows, GotoEffect DEF Pay, WithReceipt
    <3>3. ASSUME NEW p \in Payment
          PROVE  DoubtInv(p)'
      <4>1. \A r \in Process : proc'[r].pc \in {"auth", "mark"} => proc'[r] = proc[r]
        BY <2>3, <3>2
      <4>2. \A r \in Process : proc[r].pc = "mark" => p = x \/ proc[r].p # p \/ proc'[r] = proc[r]
        BY <2>3, <3>1 DEF Pay
      <4>3. DoubtInv(p) /\ Requesting(p)' \subseteq Requesting(p)
        BY <1>0, <4>1 DEF Requesting, Pay
      <4> QED
        BY <3>1, <4>1, <4>2, <4>3 DEF DoubtInv, Pay, At
    <3> QED
      BY <3>3
  <2>8. CASE Outage(q)
    <3>1. /\ Goto(q, AfterOutage(q)) /\ AfterOutage(q) \in PC /\ doubt \subseteq doubt'
          /\ UNCHANGED <<issued, created>>
      BY <2>8, Knows DEF Outage, AfterOutage, PC
    <3>2. proc'[q].pc = AfterOutage(q)
      BY <1>0, <3>1, GotoEffect
    <3>3. CASE At(q, "look")
      <4>1. AfterOutage(q) = "auth" /\ Pay(q) \in Payment
        BY <2>2, <3>3 DEF AfterOutage, At
      <4>2. proc'[q].p = Pay(q)
        BY <1>0, <3>1, <4>1, GotoEffect DEF Pay
      <4>3. (Pay(q) \notin created /\ ~UnderWay(Pay(q))) \/ Pay(q) \in doubt'
        BY <2>8, <3>3 DEF Outage
      <4> QED
        BY <2>1, <3>1, <3>2, <3>3, <4>1, <4>2, <4>3, RequestBegins DEF At
    <3>4. CASE At(q, "mark")
      <4>1. Pay(q) \in doubt' /\ AfterOutage(q) \in {"save", "done", "verify"}
        BY <2>8, <3>4 DEF Outage, AfterOutage, WithReceipt, At
      <4>2. ASSUME NEW p \in Payment, p \notin doubt'
            PROVE  DoubtInv(p)'
        <5>1. \A r \in Process : proc'[r].pc \in {"auth", "mark"} => proc'[r] = proc[r]
          BY <2>3, <3>2, <4>1
        <5>2. \A r \in Process : proc[r].pc = "mark" => proc[r].p # p \/ proc'[r] = proc[r]
          BY <2>3, <4>1, <4>2 DEF Pay
        <5>3. p \notin doubt /\ DoubtInv(p) /\ Requesting(p)' \subseteq Requesting(p)
          BY <1>0, <3>1, <4>2, <5>1 DEF Requesting, Pay
        <5> QED
          BY <3>1, <5>1, <5>2, <5>3 DEF DoubtInv, Pay, At
      <4> QED
        BY <4>2 DEF DoubtInv
    <3>5. CASE ~At(q, "look") /\ ~At(q, "mark")
      <4>1. AfterOutage(q) \notin {"auth", "mark"} /\ proc[q].pc # "mark"
        BY <3>5 DEF AfterOutage, At, WithoutReceipt
      <4> QED
        BY <2>1, <3>1, <3>2, <4>1, DoubtFrame
    <3> QED
      BY <3>3, <3>4, <3>5
  <2>9. CASE LoginFails(q) \/ (Refuse(q) /\ Pay(q) \notin doubt') \/ File(q) \/ Save(q)
             \/ LookAgain(q) \/ Claim(q) \/ Push(q) \/ Finish(q) \/ Discard(q) \/ Done(q) \/ Requeue(q)
    <3>1. \E c \in PC \ {"auth", "mark"} : Goto(q, c)
      BY <2>9, Knows DEF LoginFails, Refuse, File, Save, LookAgain, Claim, Push, Finish, Discard,
                         Done, Requeue, PC, WithoutReceipt
    <3>2. /\ proc[q].pc # "mark" /\ UNCHANGED issued /\ created \subseteq created'
          /\ doubt \subseteq doubt'
      <4>1. CASE Refuse(q) /\ Pay(q) \notin doubt'
        <5>1. issued' = [issued EXCEPT ![Pay(q)] = @ + 0] /\ At(q, "auth")
          BY <4>1 DEF Refuse
        <5>2. issued' = issued
          BY <1>0, <2>2, <5>1 DEF TypeOK, At
        <5> QED
          BY <4>1, <5>2 DEF Refuse, At, redis
      <4>2. CASE LoginFails(q) \/ File(q) \/ Save(q) \/ LookAgain(q) \/ Claim(q) \/ Push(q)
                 \/ Finish(q) \/ Discard(q) \/ Done(q) \/ Requeue(q)
        BY <4>2 DEF LoginFails, File, Save, LookAgain, Claim, Push, Finish, Discard,
                          Done, Requeue, At, redis
      <4> QED
        BY <2>9, <4>1, <4>2
    <3> QED
      BY <1>0, <3>1, <3>2, GotoEffect, DoubtFrame
  <2>10. CASE Pop(q) \/ Verify(q) \/ Clear(q) \/ Refill(q)
    <3>1. /\ proc[q].pc \notin {"auth", "mark"} /\ UNCHANGED <<issued, doubt>>
          /\ created \subseteq created'
      BY <2>10 DEF Pop, Verify, Clear, Refill, At
    <3>2. proc'[q].pc \notin {"auth", "mark"}
      <4>1. CASE Pop(q)
        <5>1. \E c \in {"look", "discard"} : Call(q, c, Head(queue).p, Head(queue).n) /\ queue # <<>>
          BY <4>1 DEF Pop
        <5> QED
          BY <1>0, <5>1, HeadOfQueue, CallEffect DEF PC
      <4>2. CASE Verify(q)
        <5>1. Pay(q) \in Payment
          BY <2>2, <4>2 DEF Verify, At
        <5> QED
          BY <1>0, <4>2, <5>1, GotoEffect, RewriteEffect DEF Verify, PC
      <4>3. CASE Clear(q)
        BY <1>0, <4>3, GotoEffect DEF Clear, PC
      <4>4. CASE Refill(q)
        <5>1. At(q, "refill") /\ \A p \in proc[q].rest : p \in Payment
          BY <2>1, <4>4 DEF Refill, ProcessState
        <5> QED
          BY <1>0, <4>4, <5>1, GotoEffect, RefillEffect DEF Refill, PC, At
      <4> QED
        BY <2>10, <4>1, <4>2, <4>3, <4>4
    <3> QED
      BY <2>1, <3>1, <3>2, DoubtFrame
  <2>11. CASE AnswerLost(q)
    <3>1. Goto(q, "idle") /\ proc[q].pc # "mark" /\ UNCHANGED <<issued, created, doubt>>
      BY <2>11 DEF AnswerLost, At
    <3>2. proc'[q].pc = "idle"
      BY <1>0, <3>1, GotoEffect DEF PC
    <3> QED
      BY <2>1, <3>1, <3>2, DoubtFrame
  <2> QED
    BY <1>1, <2>4, <2>5, <2>6, <2>7, <2>8, <2>9, <2>10, <2>11 DEF Step
<1>2. ASSUME NEW h \in Handler, NEW p \in Payment, Ask(h, p)
      PROVE  \A x \in Payment : DoubtInv(x)'
  <2>1. h \in Process /\ 0 \in 0..MaxAttempts
    BY BoundAssumption DEF Process
  <2>2. Only(h) /\ proc'[h].pc = "look" /\ proc[h].pc = "idle"
    BY <1>0, <1>2, <2>1, CallEffect DEF Ask, PC, Idle
  <2>3. UNCHANGED <<issued, created, doubt>>
    BY <1>2 DEF Ask, redis
  <2> QED
    BY <2>1, <2>2, <2>3, DoubtFrame
<1>3. ASSUME NEW w \in Worker, Begin(w)
      PROVE  \A p \in Payment : DoubtInv(p)'
  <2>1. w \in Process /\ "pop" \in PC /\ Goto(w, "pop") /\ UNCHANGED <<issued, created, doubt>>
        /\ proc[w].pc = "idle"
    BY <1>3 DEF Process, PC, Begin, redis, Idle
  <2> QED
    BY <1>0, <2>1, GotoEffect, DoubtFrame
<1>4. ASSUME NEW a \in Admin, NEW p \in Payment, PressVerified(a, p) \/ PressRetry(a, p)
      PROVE  \A x \in Payment : DoubtInv(x)'
  <2>1. a \in Process /\ 0 \in 0..MaxAttempts
    BY BoundAssumption DEF Process
  <2>2. Only(a) /\ proc'[a].pc \in {"look", "clear"}
    BY <1>0, <1>4, <2>1, CallEffect, RewriteEffect DEF PressVerified, PressRetry, PC
  <2>3. UNCHANGED <<issued, created, doubt>> /\ proc[a].pc = "idle"
    BY <1>4 DEF PressVerified, PressRetry, Press, redis, Idle
  <2> QED
    BY <2>1, <2>2, <2>3, DoubtFrame
<1>5. CASE UNCHANGED <<proc, issued, created, doubt>>
  BY <1>0, <1>5 DEF DoubtInv, Requesting, At, Pay
<1>6. CASE Restart
  <2>1. ASSUME NEW p \in Payment, p \notin doubt'
        PROVE  DoubtInv(p)'
    <3>1. p \notin doubt /\ DoubtInv(p) /\ UNCHANGED <<issued, created>>
          /\ \A q \in Process : At(q, "mark") => Pay(q) # p
      BY <1>0, <1>6, <2>1 DEF Restart, redis
    <3>2. \A q \in Process : proc'[q].pc = "idle"
      BY <1>6 DEF Restart, Idle
    <3> QED
      BY <3>1, <3>2 DEF DoubtInv, Requesting, At
  <2> QED
    BY <2>1 DEF DoubtInv
<1> QED
  BY <1>1, <1>2, <1>3, <1>4, <1>5, <1>6 DEF Next, ClearAll, vars, redis

-----------------------------------------------------------------------------
(* Receipts that were asked for. *)

Settled(p) == issued[p] > 0 \/ p \in dropped

\* A step of q keeps the account of p if what the lists or q had of p is
\* afterwards in a list, in q's hands, or settled.
LEMMA AccountFrame ==
  ASSUME IInv, TypeOK', NEW q \in Process, Only(q), NEW p \in Payment, asked'[p] = asked[p],
         Settled(p) => Settled(p)',
         p \in created' => issued'[p] > 0,
         Waiting(p) # {} => Waiting(p)' # {} \/ (p \in Carried(q)' /\ q \in InHand(p)'),
         p \in pending => p \in pending' \/ Settled(p)' \/ p \in Carried(q)',
         p \in Carried(q) => \/ p \in Carried(q)' \/ Settled(p)' \/ p \in pending' \/ Waiting(p)' # {}
                            \/ \E r \in Process \ {q} : p \in Carried(r),
         q \in InHand(p) => q \in InHand(p)' \/ Settled(p)' \/ p \notin queued' \/ Waiting(p)' # {},
         p \in queued' => p \in queued \/ q \in InHand(p)'
  PROVE  AccountInv(p)'
<1>1. AccountInv(p) /\ \A r \in Process \ {q} : proc'[r] = proc[r]
  BY DEF IInv, Only
<1>2. \A r \in Process \ {q} : Carried(r)' = Carried(r) /\ (r \in InHand(p)' <=> r \in InHand(p))
  BY <1>1 DEF Carried, InHand, At, Pay
<1>3. InHand(p) \subseteq Process
  BY DEF InHand
<1>4. KeyStandsFor(p)'
  BY <1>1, <1>2, <1>3 DEF AccountInv, KeyStandsFor, Settled
<1>5. Somewhere(p)'
  <2>1. SUFFICES ASSUME asked'[p] > 0, ~Settled(p)'
                 PROVE  Waiting(p)' # {} \/ p \in pending' \/ \E r \in Process : p \in Carried(r)'
    <3>1. issued'[p] = 0 \/ issued'[p] > 0
      BY DEF TypeOK
    <3> QED
      BY <3>1 DEF Somewhere, Settled
  <2>2. issued[p] = 0 /\ p \notin dropped
    BY <2>1 DEF IInv, TypeOK, Settled
  <2>3. Waiting(p) # {} \/ p \in pending \/ \E r \in Process : p \in Carried(r)
    BY <1>1, <2>1, <2>2 DEF AccountInv, Somewhere
  <2> QED
    BY <1>2, <2>1, <2>3
<1> QED
  BY <1>4, <1>5 DEF AccountInv

LEMMA AccountStep ==
  ASSUME IInv, [Next]_vars, NEW p \in Payment
  PROVE  AccountInv(p)'
<1>0. /\ TypeOK /\ TypeOK' /\ (\A q \in Process : ProcessInv(q)) /\ (\A q \in Process : ProcessInv(q)')
      /\ AccountInv(p) /\ QueueInv(p) /\ issued[p] \in Nat /\ issued'[p] \in Nat
  BY Knowing, Typing DEF IInv, TypeOK
<1>1. ASSUME NEW q \in Process, Step(q) \/ Outage(q) \/ AnswerLost(q)
      PROVE  AccountInv(p)'
  <2>1. Only(q) /\ ProcessInv(q) /\ ProcessInv(q)' /\ proc[q] \in ProcessState
    BY <1>0, <1>1, StepMoves, Knows
  <2>2. proc[q].pc \notin {"idle", "pop"} => Pay(q) \in Payment
    BY Knows DEF Pay
  <2>3. /\ Role(q, proc[q].pc)
        /\ \/ q \in Handler /\ q \notin Worker /\ q \notin Admin
           \/ q \notin Handler /\ q \in Worker /\ q \notin Admin
           \/ q \notin Handler /\ q \notin Worker /\ q \in Admin
    BY <2>1, Knows DEF ProcessInv
  <2>4. MadeOut(q) /\ (p \in created => issued[p] > 0)
    BY <1>0, <2>1 DEF ProcessInv, AccountInv
  <2>5. CASE Look(q)
    <3>1. /\ At(q, "look") /\ UNCHANGED <<issued, redis, asked, dropped>>
      BY <2>5 DEF Look
    <3>2. CASE Pay(q) \in created
      <4>1. proc'[q].pc = WithReceipt(q) /\ proc'[q].p = Pay(q)
        BY <1>0, <2>5, <3>2, Knows, GotoEffect DEF Look, Pay
      <4> QED
        BY <1>0, <2>1, <2>3, <2>4, <3>1, <3>2, <4>1, AccountFrame
           DEF Settled, Waiting, Carried, InHand, WithReceipt, At, Pay, redis
    <3>3. CASE Pay(q) \notin created
      <4>1. proc'[q].pc = "auth" /\ proc'[q].p = Pay(q)
        BY <1>0, <2>5, <3>3, GotoEffect DEF Look, PC, Pay
      <4> QED
        BY <1>0, <2>1, <2>3, <2>4, <3>1, <4>1, AccountFrame
           DEF Settled, Waiting, Carried, InHand, At, Pay, redis
    <3> QED
      BY <3>2, <3>3
  <2>6. CASE LoginFails(q) \/ Refuse(q) \/ File(q)
    <3>0. issued'[p] >= issued[p]
      <4>1. CASE Refuse(q)
        <5>1. PICK made \in {0, 1} : issued' = [issued EXCEPT ![Pay(q)] = @ + made]
          BY <4>1 DEF Refuse
        <5> QED
          BY <1>0, <5>1 DEF TypeOK
      <4>2. CASE ~Refuse(q)
        BY <1>0, <2>6, <4>2 DEF LoginFails, File
      <4> QED
        BY <4>1, <4>2
    <3>1. /\ proc[q].pc \in {"auth", "file"} /\ UNCHANGED <<created, queued, queue, asked>>
          /\ pending \subseteq pending' /\ dropped \subseteq dropped'
          /\ q \in Handler => \/ proc'[q].pc = "enqueue" /\ proc'[q].p = Pay(q)
                              \/ Pay(q) \in dropped' \cup pending'
          /\ q \in Worker => proc'[q].pc = "requeue" /\ proc'[q].p = Pay(q)
      BY <1>0, <2>3, <2>6, GotoEffect
         DEF LoginFails, Refuse, File, WithoutReceipt, At, Pay, PC, redis
    <3>2. (Settled(p) => Settled(p)') /\ (p \in created' => issued'[p] > 0)
      BY <1>0, <2>4, <3>0, <3>1 DEF Settled
    <3>3. p \in Carried(q) => p \in Carried(q)' \/ Settled(p)' \/ p \in pending'
      BY <2>3, <3>1 DEF Carried, Settled, At, Pay
    <3>4. q \in InHand(p) => q \in InHand(p)'
      BY <2>1, <2>3, <3>1 DEF InHand, At, Pay
    <3> QED
      BY <1>0, <2>1, <3>1, <3>2, <3>3, <3>4, AccountFrame DEF Waiting
  <2>7. CASE Issue(q) \/ TimeOut(q)
    <3>1. PICK made \in {0, 1} :
            /\ At(q, "auth") /\ UNCHANGED <<redis, asked, dropped>> /\ Pay(q) \in Payment
            /\ issued' = [issued EXCEPT ![Pay(q)] = @ + made]
            /\ proc'[q].p = Pay(q) /\ ((proc'[q].pc = "mark" /\ made = 1) \/ proc'[q].pc = "file")
      BY <1>0, <2>2, <2>7, GotoEffect DEF Issue, TimeOut, At, Pay, PC
    <3>2. issued'[p] >= issued[p] /\ (p = Pay(q) /\ made = 1 => issued'[p] > 0)
      BY <1>0, <3>1 DEF TypeOK
    <3>3. Settled(p) => Settled(p)'
      BY <1>0, <3>1, <3>2 DEF Settled
    <3>4. p \in created' => issued'[p] > 0
      BY <1>0, <2>4, <3>1, <3>2 DEF redis
    <3> QED
      BY <1>0, <2>1, <2>3, <3>1, <3>2, <3>3, <3>4, AccountFrame
         DEF Settled, Waiting, Carried, InHand, At, Pay, redis
  <2>8. CASE Mark(q)
    <3>1. /\ At(q, "mark") /\ UNCHANGED <<issued, queued, queue, pending, asked, dropped>>
          /\ created' = created \cup {Pay(q)}
          /\ proc'[q].pc = WithReceipt(q) /\ proc'[q].p = Pay(q)
      BY <1>0, <2>8, Knows, GotoEffect DEF Mark, Pay
    <3> QED
      BY <1>0, <2>1, <2>3, <2>4, <3>1, AccountFrame
         DEF Settled, Waiting, Carried, InHand, WithReceipt, MadeOut, At, Pay
  <2>9. CASE Save(q) \/ LookAgain(q) \/ Finish(q)
    <3>1. /\ UNCHANGED <<issued, redis, asked, dropped>>
          /\ \/ At(q, "save") \/ At(q, "pop")
             \/ At(q, "enqueue") /\ Pay(q) \in created
             \/ At(q, "enqueue") /\ proc'[q].pc = "claim" /\ proc'[q].p = Pay(q)
      BY <1>0, <2>9, GotoEffect DEF Save, LookAgain, Finish, At, Pay, PC
    <3>2. At(q, "pop") => Pay(q) = None
      BY <2>1 DEF ProcessInv, Named
    <3>3. q \notin InHand(p)
      BY <2>3, <3>1, <3>2, PaymentAssumption DEF InHand, At, Role
    <3>4. p \in Carried(q) => p \in Carried(q)' \/ Settled(p)'
      BY <2>3, <2>4, <3>1 DEF Carried, Settled, At, Pay, Role
    <3>5. /\ Waiting(p)' = Waiting(p) /\ (Settled(p) => Settled(p)')
          /\ (p \in created' => issued'[p] > 0) /\ queued' = queued /\ pending' = pending
      BY <2>4, <3>1 DEF Waiting, Settled, redis
    <3> QED
      BY <1>0, <2>1, <3>1, <3>3, <3>4, <3>5, AccountFrame
  <2>10. CASE Claim(q)
    <3>1. /\ At(q, "claim") /\ queued' = queued \cup {Pay(q)}
          /\ UNCHANGED <<issued, created, queue, pending, asked, dropped>>
      BY <2>10 DEF Claim
    <3>2. CASE Pay(q) \notin queued
      <4>1. proc'[q].pc = "push" /\ proc'[q].p = Pay(q)
        BY <1>0, <2>10, <3>2, GotoEffect DEF Claim, Pay, PC
      <4> QED
        BY <1>0, <2>1, <2>3, <2>4, <3>1, <4>1, AccountFrame
           DEF Settled, Waiting, Carried, InHand, At, Pay
    <3>3. CASE Pay(q) \in queued
      <4>1. ASSUME p = Pay(q), ~Settled(p), Waiting(p) = {}
            PROVE  \E r \in Process \ {q} : p \in Carried(r)
        <5>1. PICK r \in InHand(p) : TRUE
          BY <1>0, <3>3, <4>1 DEF AccountInv, KeyStandsFor, Settled
        <5>2. r \in Process /\ Pay(r) = p /\ (At(r, "push") \/ (r \in Worker /\ ~At(r, "idle")))
              /\ ProcessInv(r)
          BY <1>0, <5>1 DEF InHand, At
        <5>3. proc[r].pc \notin {"pop", "mark", "done", "claim"}
          BY <4>1, <5>2, Knows, PaymentAssumption
             DEF ProcessInv, Named, MadeOut, Settled, Role, At
        <5>4. (q \in Handler /\ r # q) \/ At(r, "push")
          BY <2>3, <3>1, <5>2 DEF Role, At
        <5> QED
          BY <3>1, <5>2, <5>3, <5>4, Knows DEF Carried, ProcessInv, Role, At
      <4>2. q \notin InHand(p) /\ (p \in Carried(q) => p = Pay(q))
        BY <2>3, <3>1 DEF InHand, Carried, At, Role
      <4>3. /\ Waiting(p)' = Waiting(p) /\ (Settled(p) <=> Settled(p)')
            /\ (p \in created' => issued'[p] > 0) /\ queued' = queued
        BY <2>4, <3>1, <3>3 DEF Waiting, Settled
      <4> QED
        BY <1>0, <2>1, <3>1, <4>1, <4>2, <4>3, AccountFrame
    <3> QED
      BY <3>2, <3>3
  <2>11. CASE Push(q) \/ Requeue(q)
    <3>1. /\ proc[q].pc \in {"push", "requeue"} /\ Pay(q) \in Payment
          /\ UNCHANGED <<issued, created, queued, pending, asked, dropped>>
          /\ \E n : queue' = Append(queue, [p |-> Pay(q), n |-> n])
      BY <2>2, <2>11 DEF Push, Requeue, At
    <3>2. /\ Waiting(p) # {} => Waiting(p)' # {}
          /\ p = Pay(q) => Waiting(p)' # {}
      BY <1>0, <3>1, WaitingAfterAppend
    <3> QED
      BY <1>0, <2>1, <2>3, <2>4, <3>1, <3>2, AccountFrame
         DEF Settled, Carried, InHand, At, Pay
  <2>12. CASE Pop(q)
    <3>1. PICK x \in Payment :
            /\ x = Head(queue).p /\ queue # <<>> /\ queue' = Tail(queue) /\ At(q, "pop")
            /\ q \in Worker /\ UNCHANGED <<issued, created, queued, pending, asked, dropped>>
      BY <1>0, <2>3, <2>12, HeadOfQueue DEF Pop, At, Role
    <3>2. proc'[q].p = x /\ proc'[q].pc \in {"look", "discard"}
      BY <1>0, <2>12, <3>1, HeadOfQueue, CallEffect DEF Pop, PC
    <3>3. Waiting(p) # {} => Waiting(p)' # {} \/ p = x
      BY <1>0, <3>1, WaitingAfterPop
    <3>4. q \notin InHand(p) /\ Carried(q) = {} /\ (p = x => p \in Carried(q)' /\ q \in InHand(p)')
      BY <2>1, <2>3, <3>1, <3>2, PaymentAssumption
         DEF InHand, Carried, ProcessInv, Named, At, Pay
    <3>5. (Settled(p) => Settled(p)') /\ (p \in created' => issued'[p] > 0)
      BY <2>4, <3>1 DEF Settled
    <3> QED
      BY <1>0, <2>1, <3>1, <3>3, <3>4, <3>5, AccountFrame
  <2>13. CASE Discard(q) \/ Done(q)
    <3>1. /\ UNCHANGED <<issued, created, queue, pending, asked>> /\ queued' = queued \ {Pay(q)}
          /\ \/ At(q, "discard") /\ dropped' = dropped \cup {Pay(q)}
             \/ At(q, "done") /\ UNCHANGED dropped
      BY <2>13 DEF Discard, Done, Unqueue
    <3> QED
      BY <1>0, <2>1, <2>3, <2>4, <3>1, AccountFrame
         DEF Settled, Waiting, Carried, InHand, At, Pay
  <2>14. CASE Verify(q)
    <3>1. /\ At(q, "verify") /\ q \in Admin /\ issued[Pay(q)] > 0
          /\ created' \subseteq created \cup {Pay(q)}
          /\ UNCHANGED <<issued, queued, queue, pending, asked, dropped>>
      BY <2>3, <2>4, <2>14 DEF Verify, MadeOut, At, Role
    <3> QED
      BY <1>0, <2>1, <2>3, <2>4, <3>1, AccountFrame
         DEF Settled, Waiting, Carried, InHand, At, Pay
  <2>15. CASE Clear(q)
    <3>1. /\ At(q, "clear") /\ proc'[q].pc = "refill" /\ proc'[q].rest = proc[q].rest
          /\ q \in Admin /\ dropped' = dropped \cup (pending \ proc[q].rest)
          /\ UNCHANGED <<issued, created, queued, queue, asked>>
      BY <1>0, <2>3, <2>15, GotoEffect DEF Clear, At, Role, PC
    <3> QED
      BY <1>0, <2>1, <2>3, <2>4, <3>1, AccountFrame
         DEF Settled, Waiting, Carried, InHand, At, Pay
  <2>16. CASE Refill(q)
    <3>1. /\ At(q, "refill") /\ q \in Admin
          /\ UNCHANGED <<issued, created, queued, queue, asked, dropped>>
          /\ \A x \in proc[q].rest : x \in Payment
      BY <2>1, <2>3, <2>16 DEF Refill, At, Role, ProcessState
    <3>2. CASE proc[q].rest = {}
      BY <1>0, <2>1, <2>3, <2>4, <2>16, <3>1, <3>2, AccountFrame
         DEF Refill, Settled, Waiting, Carried, InHand, At, Pay
    <3>3. CASE proc[q].rest # {}
      <4>1. PICK x \in proc[q].rest :
              pending' = pending \cup {x} /\ proc' = [proc EXCEPT ![q].rest = @ \ {x}]
        BY <2>16, <3>3 DEF Refill
      <4>2. proc'[q].pc = "refill" /\ proc'[q].rest = proc[q].rest \ {x}
        BY <1>0, <3>1, <4>1, RefillEffect DEF At
      <4> QED
        BY <1>0, <2>1, <2>3, <2>4, <3>1, <4>1, <4>2, AccountFrame
           DEF Settled, Waiting, Carried, InHand, At, Pay
    <3> QED
      BY <3>2, <3>3
  <2>17. CASE Outage(q)
    <3>1. /\ Goto(q, AfterOutage(q)) /\ AfterOutage(q) \in PC /\ queued' \subseteq queued
          /\ proc[q].pc \notin {"idle", "auth", "save", "refill"}
          /\ dropped' = IF LosesReceipt(q) THEN dropped \cup {Pay(q)} ELSE dropped
          /\ UNCHANGED <<issued, created, queue, pending, asked>>
      BY <2>17, Knows DEF Outage, AfterOutage, PC
    <3>2. proc'[q].pc = AfterOutage(q)
          /\ (AfterOutage(q) \notin {"idle", "pop"} => proc'[q].p = Pay(q))
      BY <1>0, <3>1, GotoEffect DEF Pay
    <3>3. p \in Carried(q) => p \in Carried(q)' \/ Settled(p)'
      BY <1>0, <2>3, <3>1, <3>2
         DEF Settled, Carried, AfterOutage, LosesReceipt, WithReceipt, WithoutReceipt, At, Pay, Role
    <3>4. q \in InHand(p) => q \in InHand(p)' \/ Settled(p)'
      BY <1>0, <2>1, <2>3, <2>4, <3>1, <3>2, PaymentAssumption
         DEF Settled, InHand, AfterOutage, LosesReceipt, WithReceipt, WithoutReceipt, At, Pay, Role,
             MadeOut, ProcessInv, Named
    <3>5. Waiting(p)' = Waiting(p) /\ (Settled(p) => Settled(p)') /\ (p \in created' => issued'[p] > 0)
      BY <2>4, <3>1 DEF Waiting, Settled
    <3> QED
      BY <1>0, <2>1, <3>1, <3>3, <3>4, <3>5, AccountFrame
  <2>18. CASE AnswerLost(q)
    <3>1. /\ proc'[q] = Idle /\ UNCHANGED <<issued, created, pending, asked>>
          /\ dropped \subseteq dropped'
      BY <1>0, <2>18, GotoEffect DEF AnswerLost, PC
    <3>2. (Settled(p) => Settled(p)') /\ (p \in created' => issued'[p] > 0)
      BY <2>4, <3>1 DEF Settled
    <3>3. CASE At(q, "claim")
      <4>1. /\ queue' = queue /\ queued' = queued \cup {Pay(q)} /\ Pay(q) \in dropped'
            /\ q \in Handler /\ q \notin Worker
        BY <2>3, <2>18, <3>3 DEF AnswerLost, At, Role
      <4>2. p = Pay(q) => Settled(p)'
        BY <4>1 DEF Settled
      <4>3. Waiting(p)' = Waiting(p) /\ q \notin InHand(p) /\ (p \in Carried(q) => p = Pay(q))
        BY <3>3, <4>1 DEF Waiting, InHand, Carried, At
      <4>4. CASE p # Pay(q)
        BY <1>0, <2>1, <3>1, <3>2, <4>1, <4>3, <4>4, AccountFrame
      <4>5. CASE p = Pay(q)
        <5>1. KeyStandsFor(p)' /\ Somewhere(p)'
          BY <1>0, <4>2, <4>5 DEF KeyStandsFor, Somewhere, Settled
        <5> QED
          BY <3>2, <5>1 DEF AccountInv
      <4> QED
        BY <4>4, <4>5
    <3>4. CASE At(q, "push")
      <4>1. /\ queue' = Append(queue, [p |-> Pay(q), n |-> 0]) /\ queued' \subseteq queued
            /\ Pay(q) \in Payment /\ q \in Handler /\ q \notin Worker
        BY <2>2, <2>3, <2>18, <3>4 DEF AnswerLost, At, Role
      <4>2. (Waiting(p) # {} => Waiting(p)' # {}) /\ (p = Pay(q) => Waiting(p)' # {})
        BY <1>0, <4>1, WaitingAfterAppend
      <4>3. (p \in Carried(q) => p = Pay(q)) /\ (q \in InHand(p) => p = Pay(q))
        BY <3>4, <4>1 DEF InHand, Carried, At
      <4> QED
        BY <1>0, <2>1, <3>1, <3>2, <4>1, <4>2, <4>3, AccountFrame
    <3>5. CASE At(q, "pop")
      <4>1. PICK x \in Payment :
              /\ x = Head(queue).p /\ queue # <<>> /\ queue' = Tail(queue) /\ queued' = queued
              /\ x \in dropped'
        BY <1>0, <2>18, <3>5, HeadOfQueue DEF AnswerLost, At
      <4>2. q \notin InHand(p) /\ Carried(q) = {}
        BY <2>1, <2>3, <3>5, PaymentAssumption
           DEF InHand, Carried, ProcessInv, Named, Role, At, Pay
      <4>3. CASE p # x
        <5>1. Waiting(p) # {} => Waiting(p)' # {}
          BY <1>0, <4>1, <4>3, WaitingAfterPop
        <5> QED
          BY <1>0, <2>1, <3>1, <3>2, <4>1, <4>2, <5>1, AccountFrame
      <4>4. CASE p = x
        <5>1. KeyStandsFor(p)' /\ Somewhere(p)'
          BY <4>1, <4>4 DEF KeyStandsFor, Somewhere
        <5> QED
          BY <3>2, <5>1 DEF AccountInv
      <4> QED
        BY <4>3, <4>4
    <3> QED
      BY <2>18, <3>3, <3>4, <3>5 DEF AnswerLost
  <2> QED
    BY <1>1, <2>5, <2>6, <2>7, <2>8, <2>9, <2>10, <2>11, <2>12, <2>13, <2>14, <2>15, <2>16, <2>17,
       <2>18 DEF Step
<1>2. ASSUME NEW h \in Handler, NEW x \in Payment, Ask(h, x)
      PROVE  AccountInv(p)'
  <2>1. h \in Process /\ h \notin Worker /\ h \notin Admin /\ 0 \in 0..MaxAttempts
    BY ProcessAssumption, BoundAssumption DEF Process
  <2>2. Only(h) /\ proc'[h].pc = "look" /\ proc'[h].p = x /\ proc[h] = Idle
    BY <1>0, <1>2, <2>1, CallEffect DEF Ask, PC
  <2>3. UNCHANGED <<issued, redis, dropped>> /\ (p # x => asked'[p] = asked[p])
    BY <1>0, <1>2 DEF Ask, TypeOK
  <2>4. CASE p = x
    <3>1. p \in Carried(h)'
      BY <2>1, <2>2, <2>4 DEF Carried, At, Pay
    <3>2. \A r \in Process \ {h} : r \in InHand(p)' <=> r \in InHand(p)
      BY <2>2 DEF InHand, Only, At, Pay
    <3>3. h \notin InHand(p) /\ InHand(p) \subseteq Process
      BY <2>1, <2>2 DEF InHand, At, Idle
    <3>4. KeyStandsFor(p)'
      BY <1>0, <2>3, <3>2, <3>3 DEF AccountInv, KeyStandsFor, Waiting, redis
    <3> QED
      BY <1>0, <2>1, <2>3, <3>1, <3>4 DEF AccountInv, Somewhere, redis
  <2>5. CASE p # x
    BY <1>0, <2>1, <2>2, <2>3, <2>5, PaymentAssumption, AccountFrame
       DEF AccountInv, Settled, Waiting, Carried, InHand, Idle, At, Pay, redis
  <2> QED
    BY <2>4, <2>5
<1>3. ASSUME NEW w \in Worker, Begin(w)
      PROVE  AccountInv(p)'
  <2>1. /\ w \in Process /\ "pop" \in PC /\ Goto(w, "pop") /\ UNCHANGED <<issued, redis, asked, dropped>>
        /\ proc[w] = Idle
    BY <1>3 DEF Process, PC, Begin
  <2>2. Only(w)
    BY <1>0, <2>1, GotoEffect
  <2> QED
    BY <1>0, <2>1, <2>2, AccountFrame
       DEF AccountInv, Settled, Waiting, Carried, InHand, Idle, At, Pay, redis
<1>4. ASSUME NEW a \in Admin, NEW x \in Payment, PressVerified(a, x) \/ PressRetry(a, x)
      PROVE  AccountInv(p)'
  <2>1. a \in Process /\ 0 \in 0..MaxAttempts
    BY BoundAssumption DEF Process
  <2>2. Only(a)
    BY <1>0, <1>4, <2>1, CallEffect, RewriteEffect DEF PressVerified, PressRetry, PC
  <2>3. UNCHANGED <<issued, redis, asked, dropped>> /\ proc[a] = Idle
    BY <1>4 DEF PressVerified, PressRetry, Press
  <2> QED
    BY <1>0, <2>1, <2>2, <2>3, AccountFrame
       DEF AccountInv, Settled, Waiting, Carried, InHand, Idle, At, Pay, redis
<1>5. ASSUME NEW a \in Admin, ClearAll(a)
      PROVE  AccountInv(p)'
  <2>1. /\ UNCHANGED <<issued, created, queued, queue, proc, asked>>
        /\ dropped' = dropped \cup pending
    BY <1>5 DEF ClearAll
  <2> QED
    BY <1>0, <2>1 DEF AccountInv, KeyStandsFor, Somewhere, Waiting, InHand, Carried, At, Pay
<1>6. CASE Restart
  <2>1. /\ dropped' = dropped \cup UNION {Carried(q) : q \in Process}
        /\ UNCHANGED <<issued, redis, asked>>
    BY <1>6 DEF Restart
  <2>2. \A q \in Process : p \in Carried(q) => p \in dropped'
    BY <2>1
  <2>3. ASSUME NEW q \in InHand(p)
        PROVE  Settled(p)'
    <3>1. q \in Process /\ Pay(q) = p /\ (At(q, "push") \/ (q \in Worker /\ ~At(q, "idle")))
          /\ ProcessInv(q)
      BY <1>0 DEF InHand, At
    <3>2. ~At(q, "pop")
      BY <3>1, PaymentAssumption DEF ProcessInv, Named
    <3>3. CASE proc[q].pc \in {"mark", "done"}
      BY <2>1, <3>1, <3>3 DEF ProcessInv, MadeOut, Settled
    <3>4. CASE proc[q].pc \notin {"mark", "done"}
      BY <2>2, <3>1, <3>2, <3>4, Knows DEF Carried, ProcessInv, Role, Settled, At
    <3> QED
      BY <3>3, <3>4
  <2>4. Waiting(p)' = Waiting(p)
    BY <2>1 DEF Waiting, redis
  <2>5. KeyStandsFor(p)'
    BY <1>0, <2>1, <2>3, <2>4 DEF AccountInv, KeyStandsFor, Settled, redis
  <2>6. Somewhere(p)'
    BY <1>0, <2>1, <2>2, <2>4 DEF AccountInv, Somewhere, redis
  <2> QED
    BY <1>0, <2>1, <2>5, <2>6 DEF AccountInv, redis
<1>7. CASE UNCHANGED vars
  BY <1>0, <1>7 DEF AccountInv, KeyStandsFor, Somewhere, Waiting, InHand, Carried, At, Pay, vars, redis
<1> QED
  BY <1>1, <1>2, <1>3, <1>4, <1>5, <1>6, <1>7 DEF Next

-----------------------------------------------------------------------------
(* The theorems. *)

LEMMA Initially ==
  ASSUME Init
  PROVE  IInv
<1>1. TypeOK
  <2>1. <<>> \in Seq([p : Payment, n : 0..MaxAttempts])
    BY EmptySeq
  <2> QED
    BY <2>1, IdleType DEF Init, TypeOK
<1>2. \A q \in Process : proc[q] = Idle
  BY DEF Init
<1>3. \A q \in Process : ProcessInv(q)
  BY <1>2 DEF ProcessInv, Role, Named, TriesLeft, MadeOut, At, Pay, Idle
<1>4. \A p \in Payment : Waiting(p) = {} /\ InHand(p) = {} /\ Requesting(p) = {}
  BY <1>2 DEF Init, Waiting, InHand, Requesting, At, Idle
<1>5. \A p \in Payment : QueueInv(p) /\ DoubtInv(p) /\ AccountInv(p)
  BY <1>2, <1>4 DEF Init, QueueInv, Single, DoubtInv, AccountInv, KeyStandsFor, Somewhere, At, Idle
<1> QED
  BY <1>1, <1>3, <1>5 DEF IInv

LEMMA Invariance ==
  ASSUME IInv, [Next]_vars
  PROVE  IInv'
BY Typing, Knowing, QueueStep, DoubtStep, AccountStep DEF IInv

\* IInv holds of every state, for any payments, workers and bounds.
THEOREM Inductive == Spec => []IInv
BY Initially, Invariance, PTL DEF Spec

\* The variables keep their types, whatever handlers, workers, administrators
\* and failures do.
THEOREM Types == Spec => []TypeOK
<1>1. IInv => TypeOK
  BY DEF IInv
<1> QED
  BY <1>1, Inductive, PTL

LEMMA FewerThanTwo ==
  ASSUME NEW S, \A x, y \in S : x = y
  PROVE  IsFiniteSet(S) /\ Cardinality(S) \in {0, 1} /\ (S = {} => Cardinality(S) = 0)
<1>1. CASE S = {}
  BY <1>1, FS_EmptySet
<1>2. CASE S # {}
  <2>1. PICK x : S = {x}
    BY <1>2
  <2> QED
    BY <1>2, <2>1, FS_Singleton
<1> QED
  BY <1>1, <1>2

\* _queue_receipt, the loop, force_process and restarts together never have two
\* items of one payment: the setnx of nalogo:queued is released only by whoever
\* holds the item (nalogo_queue_service.py).  The exception is the handler whose
\* lpush took effect unanswered and that deletes the key (nalogo_service.py).
THEOREM OneItemPerPayment == Spec => []QueuedOnce
<1>1. IInv => QueuedOnce
  <2>1. SUFFICES ASSUME IInv, NEW p \in Payment \ unkeyed
                 PROVE  Cardinality(Waiting(p)) + Cardinality(InHand(p)) <= 1
    BY DEF QueuedOnce
  <2>2. Single(p)
    BY <2>1 DEF IInv, QueueInv
  <2>3. Cardinality(Waiting(p)) \in {0, 1} /\ (Waiting(p) = {} => Cardinality(Waiting(p)) = 0)
    BY <2>2, FewerThanTwo DEF Single
  <2>4. Cardinality(InHand(p)) \in {0, 1} /\ (InHand(p) = {} => Cardinality(InHand(p)) = 0)
    BY <2>2, FewerThanTwo DEF Single
  <2> QED
    BY <2>2, <2>3, <2>4 DEF Single
<1> QED
  BY <1>1, Inductive, PTL

\* create_receipt makes out a second receipt for a payment only after a request
\* whose outcome it does not know (no answer, or one it takes for a refusal), a
\* created key that was not written or not read, or two requests under way at
\* once (nalogo_service.py).
THEOREM SecondReceiptIsInDoubt == Spec => []DuplicateOnlyInDoubt
<1>1. IInv => DuplicateOnlyInDoubt
  BY DEF IInv, TypeOK, DoubtInv, DuplicateOnlyInDoubt
<1> QED
  BY <1>1, Inductive, PTL

\* What handlers asked for is made out, waits in a list, is in a process's
\* hands, or was given up or lost where the history says so: queueing,
\* retrying, rewriting the list to verify and restarting lose nothing silently.
THEOREM NothingLostSilently == Spec => []Accounted
<1>1. IInv => Accounted
  BY DEF IInv, AccountInv, Somewhere, Accounted
<1> QED
  BY <1>1, Inductive, PTL
=============================================================================
