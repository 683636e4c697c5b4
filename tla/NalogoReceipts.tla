---------------------------- MODULE NalogoReceipts ----------------------------
(***************************************************************************)
(* Fiscal receipts: a paid payment asks the tax service (NaloGO) for one    *)
(* receipt.  If the service cannot be logged in to, the receipt waits in a  *)
(* Redis queue that a background loop, or an administrator's button, works  *)
(* through; if the request was sent and no answer came, the receipt may     *)
(* exist, and is filed for an administrator to look up.                     *)
(*                                                                          *)
(* Three kinds of process call create_receipt: payment handlers, workers    *)
(* (the loop and force_process) and administrators' buttons.  A step of a   *)
(* process is one round trip to Redis, to the tax service or to the         *)
(* database.                                                                *)
(***************************************************************************)
EXTENDS Naturals, Sequences, FiniteSets

CONSTANTS
  Payment,      \* payments that ask for a receipt
  Handler,      \* payment handlers
  Worker,       \* runs of _process_pending_receipts: the loop, force_process
  Admin,        \* administrators' callbacks
  Loop,         \* the worker that runs at every interval
  None,         \* no payment
  Twice,        \* code-only gifts: asked for when paid and when activated
  Short,        \* payments whose id fits in a button (30 characters)
  MaxAttempts,  \* NALOGO_QUEUE_MAX_ATTEMPTS
  MaxFaults,    \* bound: failed requests, cache calls that fail, restarts
  MaxPresses    \* bound: buttons pressed by administrators

ASSUME ProcessAssumption ==
  /\ Handler \cap Worker = {} /\ Handler \cap Admin = {} /\ Worker \cap Admin = {}
  /\ Loop \in Worker
ASSUME PaymentAssumption == Twice \subseteq Payment /\ Short \subseteq Payment /\ None \notin Payment
ASSUME BoundAssumption == {MaxAttempts, MaxFaults, MaxPresses} \subseteq Nat

VARIABLES
  issued,   \* how many receipts the tax service has made out for a payment
  created,  \* keys nalogo:created:<payment>
  queued,   \* keys nalogo:queued:<payment>
  queue,    \* nalogo:receipt_queue, the next to pop first
  pending,  \* nalogo:pending_verification
  saved,    \* receipt_uuid stored with the payment's rows
  proc,     \* the processes
  asked,    \* how often the payment's handlers asked
  doubt,    \* history: payments with a request nobody knows the outcome of, or two
  dropped,  \* history: payments whose receipt was given up or lost
  unkeyed,  \* history: payments whose item was left in the queue without its key
  used      \* how much of each bound is used up

redis == <<created, queued, queue, pending>>
vars == <<issued, redis, saved, proc, asked, doubt, dropped, unkeyed, used>>

Process == Handler \cup Worker \cup Admin
Item == [p : Payment, n : Nat]  \* n: attempts so far
PC == {"idle", "look", "auth", "mark", "file", "save",   \* create_receipt
       "enqueue", "claim", "push",                        \* _queue_receipt
       "pop", "discard", "done", "requeue",               \* the queue
       "verify", "clear", "refill"}                       \* mark_pending_as_verified
Idle == [pc |-> "idle", p |-> None, n |-> 0, rest |-> {}]
ProcessState == [pc : PC, p : Payment \cup {None}, n : 0..MaxAttempts, rest : SUBSET Payment]

Init ==
  /\ issued = [p \in Payment |-> 0]
  /\ created = {} /\ queued = {} /\ queue = <<>> /\ pending = {} /\ saved = {}
  /\ proc = [q \in Process |-> Idle]
  /\ asked = [p \in Payment |-> 0]
  /\ doubt = {} /\ dropped = {} /\ unkeyed = {}
  /\ used = [faults |-> 0, presses |-> 0]

At(q, pc) == proc[q].pc = pc
Pay(q) == proc[q].p
Goto(q, pc) ==
  proc' = [proc EXCEPT ![q] = [(IF pc \in {"idle", "pop"} THEN Idle ELSE @) EXCEPT !.pc = pc]]
Call(q, pc, p, n) == proc' = [proc EXCEPT ![q] = [pc |-> pc, p |-> p, n |-> n, rest |-> {}]]
Use(what, max) == used[what] < max /\ used' = [used EXCEPT ![what] = @ + 1]

-----------------------------------------------------------------------------
(* create_receipt. *)

\* Where a caller goes on with the uuid it got, and where without one.
WithReceipt(q) == CASE q \in Handler -> "save" [] q \in Worker -> "done" [] OTHER -> "verify"
WithoutReceipt(q) == IF q \in Worker THEN "requeue" ELSE "idle"

\* Another request for p is under way, past its look at the created key.
UnderWay(p) == \E q \in Process : Pay(q) = p /\ proc[q].pc \in {"auth", "mark"}

\* A payment handler asks, unless the receipt is stored with the payment.
Ask(h, p) ==
  /\ proc[h] = Idle /\ p \notin saved
  /\ asked[p] < (IF p \in Twice THEN 2 ELSE 1)
  /\ asked' = [asked EXCEPT ![p] = @ + 1]
  /\ Call(h, "look", p, 0)
  /\ UNCHANGED <<issued, redis, saved, doubt, dropped, used, unkeyed>>

\* A receipt made out before is returned and not asked for again.
Look(q) ==
  /\ At(q, "look")
  /\ Goto(q, IF Pay(q) \in created THEN WithReceipt(q) ELSE "auth")
  /\ doubt' = IF Pay(q) \notin created /\ UnderWay(Pay(q)) THEN doubt \cup {Pay(q)} ELSE doubt
  /\ UNCHANGED <<issued, redis, saved, asked, dropped, used, unkeyed>>

\* The client keeps no token where create_receipt looks for one, so that every
\* call logs in first.  After a failed login only a handler queues the receipt.
LoginFails(q) ==
  /\ At(q, "auth") /\ Use("faults", MaxFaults)
  /\ Goto(q, IF q \in Handler THEN "enqueue" ELSE WithoutReceipt(q))
  /\ UNCHANGED <<issued, redis, saved, asked, doubt, dropped, unkeyed>>

Issue(q) ==
  /\ At(q, "auth")
  /\ issued' = [issued EXCEPT ![Pay(q)] = @ + 1]
  /\ Goto(q, "mark")
  /\ UNCHANGED <<redis, saved, asked, doubt, dropped, used, unkeyed>>

\* An answer that is no receipt, or an error that is not known as temporary: it
\* is logged, and neither queued nor filed.  The service may have said no; or a
\* connection was reset, a gateway answered 502 or the answer had no uuid, and
\* the receipt was made out.
Refuse(q) ==
  /\ At(q, "auth") /\ Use("faults", MaxFaults)
  /\ Goto(q, WithoutReceipt(q))
  /\ \E made \in {0, 1} :
       /\ issued' = [issued EXCEPT ![Pay(q)] = @ + made]
       /\ doubt' = IF made = 1 THEN doubt \cup {Pay(q)} ELSE doubt
  /\ dropped' = IF q \in Handler THEN dropped \cup {Pay(q)} ELSE dropped
  /\ UNCHANGED <<redis, saved, asked, unkeyed>>

\* No answer in time: the receipt may have been made out.
TimeOut(q) ==
  /\ At(q, "auth") /\ Use("faults", MaxFaults)
  /\ \E made \in {0, 1} : issued' = [issued EXCEPT ![Pay(q)] = @ + made]
  /\ doubt' = doubt \cup {Pay(q)}
  /\ Goto(q, "file")
  /\ UNCHANGED <<redis, saved, asked, dropped, unkeyed>>

\* (Mutation: the created key is not written.)
MarkNothing(q) ==
  /\ At(q, "mark") /\ Goto(q, WithReceipt(q))
  /\ UNCHANGED <<issued, redis, saved, asked, doubt, dropped, used, unkeyed>>
Mark(q) ==
  /\ At(q, "mark") /\ Goto(q, WithReceipt(q))
  /\ created' = created \cup {Pay(q)}
  /\ UNCHANGED <<issued, queued, queue, pending, saved, asked, doubt, dropped, used, unkeyed>>

\* _save_pending_verification.
File(q) ==
  /\ At(q, "file") /\ Goto(q, WithoutReceipt(q))
  /\ pending' = pending \cup {Pay(q)}
  /\ UNCHANGED <<issued, created, queued, queue, saved, asked, doubt, dropped, used, unkeyed>>

\* The handler stores the uuid with the payment's rows.
Save(h) ==
  /\ At(h, "save") /\ Goto(h, "idle")
  /\ saved' = saved \cup {Pay(h)}
  /\ UNCHANGED <<issued, redis, asked, doubt, dropped, used, unkeyed>>

-----------------------------------------------------------------------------
(* _queue_receipt. *)

LookAgain(h) ==
  /\ At(h, "enqueue")
  /\ Goto(h, IF Pay(h) \in created THEN "idle" ELSE "claim")
  /\ UNCHANGED <<issued, redis, saved, asked, doubt, dropped, used, unkeyed>>

\* setnx.  (Mutation: the key is set whatever was there.)
ClaimAnyway(h) ==
  /\ At(h, "claim")
  /\ Goto(h, "push")
  /\ queued' = queued \cup {Pay(h)}
  /\ UNCHANGED <<issued, created, queue, pending, saved, asked, doubt, dropped, used, unkeyed>>
Claim(h) ==
  /\ At(h, "claim")
  /\ Goto(h, IF Pay(h) \in queued THEN "idle" ELSE "push")
  /\ queued' = queued \cup {Pay(h)}
  /\ UNCHANGED <<issued, created, queue, pending, saved, asked, doubt, dropped, used, unkeyed>>

\* (Mutation: without the payment's id.)
PushAnonymous(h) ==
  /\ At(h, "push") /\ Goto(h, "idle")
  /\ queue' = Append(queue, [p |-> None, n |-> 0])
  /\ UNCHANGED <<issued, created, queued, pending, saved, asked, doubt, dropped, used, unkeyed>>
Push(h) ==
  /\ At(h, "push") /\ Goto(h, "idle")
  /\ queue' = Append(queue, [p |-> Pay(h), n |-> 0])
  /\ UNCHANGED <<issued, created, queued, pending, saved, asked, doubt, dropped, used, unkeyed>>

-----------------------------------------------------------------------------
(* _process_pending_receipts, run by the loop and by force_process. *)

Begin(w) ==
  /\ proc[w] = Idle /\ queue # <<>>
  /\ IF w = Loop THEN UNCHANGED used ELSE Use("presses", MaxPresses)
  /\ Goto(w, "pop")
  /\ UNCHANGED <<issued, redis, saved, asked, doubt, dropped, unkeyed>>

Finish(w) ==
  /\ At(w, "pop") /\ queue = <<>>
  /\ Goto(w, "idle")
  /\ UNCHANGED <<issued, redis, saved, asked, doubt, dropped, used, unkeyed>>

\* rpop: the item is in no list until it is done or put back.
Pop(w) ==
  /\ At(w, "pop") /\ queue # <<>>
  /\ Call(w, IF Head(queue).n >= MaxAttempts THEN "discard" ELSE "look", Head(queue).p, Head(queue).n)
  /\ queue' = Tail(queue)
  /\ UNCHANGED <<issued, created, queued, pending, saved, asked, doubt, dropped, used, unkeyed>>

Unqueue(w) == queued' = queued \ {Pay(w)}

Discard(w) ==
  /\ At(w, "discard") /\ Unqueue(w)
  /\ Goto(w, "pop")
  /\ dropped' = dropped \cup {Pay(w)}
  /\ UNCHANGED <<issued, created, queue, pending, saved, asked, doubt, used, unkeyed>>

Done(w) ==
  /\ At(w, "done") /\ Unqueue(w)
  /\ Goto(w, "pop")
  /\ UNCHANGED <<issued, created, queue, pending, saved, asked, doubt, dropped, used, unkeyed>>

\* Put back with one attempt more, and the run ends.  (Mutation: given up.)
RequeueNothing(w) ==
  /\ At(w, "requeue") /\ Goto(w, "idle")
  /\ UNCHANGED <<issued, redis, saved, asked, doubt, dropped, used, unkeyed>>
Requeue(w) ==
  /\ At(w, "requeue") /\ Goto(w, "idle")
  /\ queue' = Append(queue, [p |-> Pay(w), n |-> proc[w].n + 1])
  /\ UNCHANGED <<issued, created, queued, pending, saved, asked, doubt, dropped, used, unkeyed>>

-----------------------------------------------------------------------------
(* An administrator goes through what is to be verified.  A button carries   *)
(* the first 30 characters of the payment's id, and the lists are searched   *)
(* for them: the buttons of longer ids find nothing.                         *)

Press(a, p) == proc[a] = Idle /\ p \in pending \cap Short /\ Use("presses", MaxPresses)

\* mark_pending_as_verified reads the list, deletes it and writes the rest
\* back item by item.
Rewrite(a, p) == proc' = [proc EXCEPT ![a] =
  [pc |-> "clear", p |-> p, n |-> 0, rest |-> pending \ {p}]]

\* "Made out": no uuid is known, so that no created key is written.
PressVerified(a, p) ==
  /\ Press(a, p)
  /\ Rewrite(a, p)
  /\ UNCHANGED <<issued, redis, saved, asked, doubt, dropped, unkeyed>>

\* "Send": create_receipt, without the queue.
PressRetry(a, p) ==
  /\ Press(a, p)
  /\ Call(a, "look", p, 0)
  /\ UNCHANGED <<issued, redis, saved, asked, doubt, dropped, unkeyed>>

Verify(a) ==
  /\ At(a, "verify")
  /\ IF Pay(a) \in pending
     THEN Rewrite(a, Pay(a)) /\ created' = created \cup {Pay(a)}
     ELSE Goto(a, "idle") /\ UNCHANGED created
  /\ UNCHANGED <<issued, queued, queue, pending, saved, asked, doubt, dropped, used, unkeyed>>

\* What was filed since the list was read is deleted with it.
Clear(a) ==
  /\ At(a, "clear") /\ Goto(a, "refill")
  /\ pending' = {}
  /\ dropped' = dropped \cup (pending \ proc[a].rest)
  /\ UNCHANGED <<issued, created, queued, queue, saved, asked, doubt, used, unkeyed>>

\* (Mutation: the rest is not written back.)
RefillNothing(a) ==
  /\ At(a, "refill") /\ Goto(a, "idle")
  /\ UNCHANGED <<issued, redis, saved, asked, doubt, dropped, used, unkeyed>>
Refill(a) ==
  /\ At(a, "refill")
  /\ IF proc[a].rest = {} THEN Goto(a, "idle") /\ UNCHANGED pending
     ELSE \E p \in proc[a].rest :
            /\ pending' = pending \cup {p}
            /\ proc' = [proc EXCEPT ![a].rest = @ \ {p}]
  /\ UNCHANGED <<issued, created, queued, queue, saved, asked, doubt, dropped, used, unkeyed>>

\* clear_pending_verification.
ClearAll(a) ==
  /\ proc[a] = Idle /\ pending # {} /\ Use("presses", MaxPresses)
  /\ pending' = {} /\ dropped' = dropped \cup pending
  /\ UNCHANGED <<issued, created, queued, queue, saved, proc, asked, doubt, unkeyed>>

-----------------------------------------------------------------------------
(* Failures. *)

\* A cache call fails without effect: it is logged and returns None or False.
AfterOutage(q) ==
  CASE At(q, "look") -> "auth"
    [] At(q, "mark") -> WithReceipt(q)
    [] At(q, "file") -> WithoutReceipt(q)
    [] At(q, "enqueue") -> "claim"
    [] At(q, "clear") -> "refill"
    [] At(q, "discard") \/ At(q, "done") -> "pop"
    [] OTHER -> "idle"

\* Its receipt is then in no list: the queue's, or (for a handler whose
\* request got no answer) the one to be verified.
LosesReceipt(q) ==
  \/ proc[q].pc \in {"claim", "push", "discard", "requeue"}
  \/ At(q, "file") /\ q \in Handler

Outage(q) ==
  /\ proc[q].pc \notin {"idle", "auth", "save", "refill"}
  /\ Use("faults", MaxFaults)
  /\ Goto(q, AfterOutage(q))
  /\ queued' \in IF At(q, "push") THEN {queued, queued \ {Pay(q)}} ELSE {queued}
  /\ dropped' = IF LosesReceipt(q) THEN dropped \cup {Pay(q)} ELSE dropped
  /\ doubt' = IF \/ At(q, "mark")
                 \/ At(q, "look") /\ (Pay(q) \in created \/ UnderWay(Pay(q)))
              THEN doubt \cup {Pay(q)} ELSE doubt
  /\ UNCHANGED <<issued, created, queue, pending, saved, asked, unkeyed>>

\* The call took effect and its answer was lost.  A key that was written or
\* deleted, or an item put back or filed, is as if it had been answered; setnx,
\* lpush of a new item and rpop are not.
AnswerLost(q) ==
  /\ Use("faults", MaxFaults)
  /\ Goto(q, "idle")
  /\ \/ \* the key is there and nobody will bring the item
        /\ At(q, "claim") /\ queued' = queued \cup {Pay(q)}
        /\ dropped' = dropped \cup {Pay(q)}
        /\ UNCHANGED <<queue, unkeyed>>
     \/ \* the item is there and its key is deleted, or that fails, too
        /\ At(q, "push") /\ queue' = Append(queue, [p |-> Pay(q), n |-> 0])
        /\ queued' \in {queued, queued \ {Pay(q)}}
        /\ unkeyed' = unkeyed \cup (queued \ queued')
        /\ UNCHANGED dropped
     \/ \* the item is in no list
        /\ At(q, "pop") /\ queue # <<>> /\ queue' = Tail(queue)
        /\ dropped' = dropped \cup {Head(queue).p}
        /\ UNCHANGED <<queued, unkeyed>>
  /\ UNCHANGED <<issued, created, pending, saved, asked, doubt>>

\* What a process alone knows of: neither list has it.
Carried(q) ==
  IF At(q, "refill") THEN proc[q].rest
  ELSE IF \/ q \in Worker /\ proc[q].pc \in {"look", "auth", "file", "discard", "requeue"}
          \/ q \in Handler /\ proc[q].pc \in {"look", "auth", "file", "enqueue", "claim", "push"}
       THEN {Pay(q)} ELSE {}

\* The bot stops or dies: its tasks are gone, Redis and the database stay.
Restart ==
  /\ Use("faults", MaxFaults)
  /\ proc' = [q \in Process |-> Idle]
  /\ dropped' = dropped \cup UNION {Carried(q) : q \in Process}
  /\ doubt' = doubt \cup {Pay(q) : q \in {r \in Process : At(r, "mark")}}
  /\ UNCHANGED <<issued, redis, saved, asked, unkeyed>>

-----------------------------------------------------------------------------
Step(q) ==
  \/ Look(q) \/ LoginFails(q) \/ Issue(q) \/ Refuse(q) \/ TimeOut(q) \/ Mark(q) \/ File(q)
  \/ Save(q) \/ LookAgain(q) \/ Claim(q) \/ Push(q)
  \/ Finish(q) \/ Pop(q) \/ Discard(q) \/ Done(q) \/ Requeue(q)
  \/ Verify(q) \/ Clear(q) \/ Refill(q)

Next ==
  \/ \E h \in Handler, p \in Payment : Ask(h, p)
  \/ \E w \in Worker : Begin(w)
  \/ \E a \in Admin, p \in Payment : PressVerified(a, p) \/ PressRetry(a, p)
  \/ \E a \in Admin : ClearAll(a)
  \/ \E q \in Process : Step(q) \/ Outage(q) \/ AnswerLost(q)
  \/ Restart

Spec == Init /\ [][Next]_vars

\* A run of the queue goes on, and the loop comes back at every interval; no
\* handler and nobody's button is needed.  The bound on faults says that the
\* tax service and Redis answer again some day.
FairSpec ==
  /\ Spec
  /\ \A w \in Worker : WF_vars(Step(w))
  /\ WF_vars(Begin(Loop))

-----------------------------------------------------------------------------
(* Properties. *)

Waiting(p) == {i \in DOMAIN queue : queue[i].p = p}

\* Who has an item of the queue in hand: a worker from rpop to the deletion of
\* the key or the requeueing, a handler between setnx and lpush.
InHand(p) == {q \in Process : Pay(q) = p /\
  \/ q \in Worker /\ proc[q].pc # "idle"
  \/ At(q, "push")}

TypeOK ==
  /\ issued \in [Payment -> Nat] /\ asked \in [Payment -> 0..2]
  /\ {created, queued, pending, saved, doubt, dropped, unkeyed} \subseteq SUBSET Payment
  /\ queue \in Seq([p : Payment, n : 0..MaxAttempts])
  /\ proc \in [Process -> ProcessState]
  /\ used \in [{"faults", "presses"} -> Nat]

\* The queued key keeps a payment to one item, waiting or in hand, whatever
\* handlers, the loop and the administrator's run of the queue do at once; but
\* for a handler that deletes the key of an item it does not know it has queued.
QueuedOnce ==
  \A p \in Payment \ unkeyed : Cardinality(Waiting(p)) + Cardinality(InHand(p)) <= 1

\* Two receipts for one payment take a request whose outcome nobody knows (no
\* answer, or one that create_receipt takes for a refusal), a created key that
\* was not written or not read, or two requests under way at once.
\* Queueing and retrying alone never make a second one.
DuplicateOnlyInDoubt == \A p \in Payment : issued[p] > 1 => p \in doubt

\* No receipt gets lost but where the code gives it up or a failure takes it:
\* until it is made out a list or a process has it.
Accounted ==
  \A p \in Payment : asked[p] > 0 /\ issued[p] = 0 =>
    \/ Waiting(p) # {} \/ p \in pending \cup dropped
    \/ \E q \in Process : p \in Carried(q)

\* What waits in the queue is made out, or given up for good.
WaitingIsSettled ==
  \A p \in Payment : Waiting(p) # {} ~> (issued[p] > 0 \/ p \in dropped)

-----------------------------------------------------------------------------
(* What the code says of itself, and does not keep. *)

\* nalogo_service.py: after a time-out the receipt is not put into the queue,
\* it needs to be verified by hand.
UncertainNotQueued == \A p \in pending : Waiting(p) = {}
=============================================================================
