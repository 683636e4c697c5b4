---------------------- MODULE DailySubscriptionProofs ----------------------
(***************************************************************************)
(* For any subscriptions, handlers and prices: a charge buys a day and a    *)
(* day takes a charge, no day is charged twice, a subscription whose day is *)
(* paid is active, and what the panel lags behind in is going to be told    *)
(* it, each but for the cases its property names.                           *)
(*                                                                          *)
(* The charge and the day it buys are two commits of a handler that took    *)
(* its decision before the lock, so the inductive invariant says two        *)
(* things of every process: which pair of a charge and a day it is in the   *)
(* middle of, and that what it decided by is still so unless the            *)
(* subscription is in its field old.  Whoever is not outdated charges a     *)
(* subscription that is due and has nobody in the middle of a charge.       *)
(***************************************************************************)
EXTENDS DailySubscription, FiniteSetTheorems, TLAPS

\* Where each process may be, and that it has its subscription in hand.
Stations ==
  /\ proc[Loop].pc \in {"idle", "next", "charge", "sync"}
  /\ \A t \in TopUp : proc[t].pc \in {"idle", "decide", "activate", "mark", "sync"}
  /\ \A q \in {Bot, Cabinet, Miniapp} : proc[q].pc \in {"idle", "decide", "activate", "sync"}
InTheHand(q) == proc[q].s = None <=> proc[q].pc \in {"idle", "next"}
Phased == proc[Loop].pc # "idle" => proc[Loop].phase # "none"

TypeInv == TypeOK /\ Stations /\ Phased /\ \A q \in Process : InTheHand(q)

\* Somebody is in the middle of a charge for s and a day of it.
Amid(s) == \E q \in Process : Midway(q, s)
\* Nobody charges a subscription that another process has charged and not
\* given its day, or it is raced.
OneMidway(s) == s \notin raced => \A q, r \in Process : Midway(q, s) /\ Midway(r, s) => q = r
\* A day is owed to whoever is in the middle, and to nobody else.
OneOwed(s) == s \notin raced \cup torn => owed[s] = IF Amid(s) THEN 1 ELSE 0
\* The bot and the cabinet decide by a status that is still the row's, and
\* resume, after the charge, what they charged as inactive.
DoorView(q, s) == q \in Door /\ proc[q].s = s =>
  /\ At(q, "decide") /\ s \notin proc[q].old => (proc[q].inactive <=> Inactive(s))
  /\ At(q, "activate") /\ s \notin raced => proc[q].inactive

BuyInv(s) == OneMidway(s) /\ OneOwed(s) /\ \A q \in Process : DoorView(q, s)

InDoubt(s) == s \in raced \cup torn \cup cut

\* An unpaid day has been charged by whoever is in the middle, and a paid one
\* once; what is not active has not been paid.
DayCounted(s) ==
  /\ row[s].due => today[s] = IF Amid(s) THEN 1 ELSE 0
  /\ ~ row[s].due => today[s] <= 1 /\ row[s].status = "ACTIVE" /\ ~ Amid(s)
\* What the loop and the handlers of top-ups know of s while nobody changed it.
Fresh(q, s) == s \notin proc[q].old =>
  /\ s \in proc[q].todo =>
       row[s].due /\ (proc[q].phase = "due" => row[s].status = "ACTIVE")
  /\ proc[q].s = s =>
       /\ At(q, "charge") => row[s].due /\ row[s].status = "ACTIVE"
       /\ At(q, "mark") => row[s].status = "ACTIVE"
       /\ At(q, "decide") /\ q \in TopUp => Inactive(s)

ServeInv(s) == ~ InDoubt(s) => DayCounted(s) /\ \A q \in Process : Fresh(q, s)

IInv == TypeInv /\ LaggingIsKnown /\ \A s \in Daily : BuyInv(s) /\ ServeInv(s)

-----------------------------------------------------------------------------
(* How a step moves the processes. *)

Others(q) == Process \ {q}

\* r goes on as it was, perhaps knowing that something has changed.
Bystander(r) ==
  /\ proc'[r].pc = proc[r].pc /\ proc'[r].s = proc[r].s
  /\ proc'[r].phase = proc[r].phase /\ proc'[r].todo = proc[r].todo
  /\ proc'[r].inactive = proc[r].inactive /\ proc[r].old \subseteq proc'[r].old
Warned(r, s) == Bystander(r) /\ (s \in DecidesBy(r) => s \in proc'[r].old)

\* q works on s alone: it has no other subscription in hand, and of those it
\* has still to work through it knows no less.
MindsOnly(q, s) ==
  /\ proc[q].s \in {s, None} /\ proc'[q].s \in {s, None}
  /\ proc'[q].todo \subseteq proc[q].todo
  /\ proc'[q].todo # {} => /\ proc'[q].phase = proc[q].phase
                           /\ proc[q].old \ {s} \subseteq proc'[q].old

LEMMA TypeParts ==
  ASSUME TypeInv
  PROVE  /\ row \in [Daily -> Row] /\ balance \in [Daily -> Nat]
         /\ proc \in [Process -> ProcessState]
         /\ queue \in Seq(RetryQueue!Item) /\ batch \in Seq(RetryQueue!Item)
         /\ behind \subseteq Daily /\ missed \subseteq Daily
         /\ raced \subseteq Daily /\ torn \subseteq Daily /\ cut \subseteq Daily
         /\ owed \in [Daily -> Int] /\ today \in [Daily -> Nat]
         /\ used \in [{"days", "topups", "events", "faults"} -> Nat]
BY DEF TypeInv, TypeOK

LEMMA Typed ==
  ASSUME row' \in [Daily -> Row], balance' \in [Daily -> Nat], proc' \in [Process -> ProcessState],
         queue' \in Seq(RetryQueue!Item), batch' \in Seq(RetryQueue!Item),
         behind' \subseteq Daily, missed' \subseteq Daily, raced' \subseteq Daily,
         torn' \subseteq Daily, cut' \subseteq Daily,
         owed' \in [Daily -> Int], today' \in [Daily -> Nat],
         used' \in [{"days", "topups", "events", "faults"} -> Nat]
  PROVE  TypeOK'
BY DEF TypeOK

LEMMA Roles ==
  /\ Loop \in Process /\ TopUp \subseteq Process
  /\ {Bot, Cabinet, Miniapp} \subseteq Process /\ Door \subseteq {Bot, Cabinet, Miniapp}
  /\ Loop \notin TopUp /\ Loop \notin {Bot, Cabinet, Miniapp}
  /\ \A t \in TopUp : t \notin {Bot, Cabinet, Miniapp} /\ t \notin Door
BY ProcessAssumption DEF Process, Door

LEMMA IdleType ==
  /\ Idle \in ProcessState
  /\ Idle.pc = "idle" /\ Idle.s = None /\ Idle.todo = {} /\ Idle.old = {}
  /\ Idle.phase = "none" /\ Idle.inactive = FALSE
BY DEF Idle, ProcessState, PC

LEMMA TellingType ==
  ASSUME NEW s \in Daily
  PROVE  /\ Telling(s) \in ProcessState
         /\ Telling(s).pc = "sync" /\ Telling(s).s = s /\ Telling(s).todo = {}
         /\ Telling(s).phase = "none"
BY DEF Telling, Idle, ProcessState, PC

LEMMA OnwardType ==
  ASSUME TypeInv, NEW s \in Daily
  PROVE  /\ {Onward("next", s), Onward("sync", s)} \subseteq ProcessState
         /\ Onward("next", s).s = None /\ Onward("sync", s).s = s
         /\ \A pc \in {"next", "sync"} :
              /\ Onward(pc, s).pc = pc
              /\ Onward(pc, s).todo = proc[Loop].todo \ {s}
              /\ Onward(pc, s).old = proc[Loop].old \ {s}
              /\ Onward(pc, s).phase = proc[Loop].phase
<1>1. /\ proc[Loop] \in ProcessState
      /\ proc[Loop].todo \ {s} \in SUBSET Daily /\ proc[Loop].old \ {s} \in SUBSET Daily
  BY TypeParts, Roles DEF ProcessState
<1> DEFINE new(pc, x) == [proc[Loop] EXCEPT !.pc = pc, !.s = x, !.todo = proc[Loop].todo \ {s},
                                           !.old = proc[Loop].old \ {s}]
<1>2. Onward("next", s) = new("next", None) /\ Onward("sync", s) = new("sync", s)
  BY DEF Onward
<1>3. ASSUME NEW pc \in PC, NEW x \in Daily \cup {None}
      PROVE  /\ new(pc, x) \in ProcessState /\ new(pc, x).pc = pc /\ new(pc, x).s = x
             /\ new(pc, x).todo = proc[Loop].todo \ {s} /\ new(pc, x).old = proc[Loop].old \ {s}
             /\ new(pc, x).phase = proc[Loop].phase
  BY <1>1 DEF ProcessState
<1> HIDE DEF new
<1> QED BY <1>2, <1>3 DEF PC

LEMMA BrokenOffType ==
  ASSUME TypeInv
  PROVE  /\ BrokenOff \in ProcessState /\ BrokenOff.pc = "next" /\ BrokenOff.s = None
         /\ BrokenOff.todo = {} /\ BrokenOff.phase = proc[Loop].phase
<1>1. proc[Loop].phase \in {"none", "disabled", "expired", "due"}
  BY TypeParts, Roles DEF ProcessState
<1> QED BY <1>1 DEF BrokenOff, Idle, ProcessState, PC

LEMMA Going ==
  ASSUME TypeInv, NEW q \in Process, NEW new \in ProcessState, Go(q, new)
  PROVE  /\ proc' \in [Process -> ProcessState] /\ proc'[q] = new
         /\ \A r \in Others(q) : proc'[r] = proc[r] /\ Bystander(r)
BY TypeParts DEF Go, Others, Bystander

LEMMA AgedType ==
  ASSUME TypeInv, NEW r \in Process, NEW s \in Daily
  PROVE  /\ Aged(r, s) \in ProcessState
         /\ Aged(r, s).pc = proc[r].pc /\ Aged(r, s).s = proc[r].s
         /\ Aged(r, s).phase = proc[r].phase /\ Aged(r, s).todo = proc[r].todo
         /\ Aged(r, s).inactive = proc[r].inactive /\ proc[r].old \subseteq Aged(r, s).old
         /\ s \in DecidesBy(r) => s \in Aged(r, s).old
<1>1. proc[r] \in ProcessState
  BY TypeParts
<1>2. CASE s \in DecidesBy(r)
  <2>1. Aged(r, s) = [proc[r] EXCEPT !.old = @ \cup {s}]
    BY <1>2 DEF Aged
  <2> QED BY <1>1, <2>1 DEF ProcessState
<1>3. CASE s \notin DecidesBy(r)
  BY <1>1, <1>3 DEF Aged
<1> QED BY <1>2, <1>3

LEMMA GoingChanging ==
  ASSUME TypeInv, NEW q \in Process, NEW s \in Daily, NEW new \in ProcessState,
         GoChanging(q, new, s)
  PROVE  /\ proc' \in [Process -> ProcessState] /\ proc'[q] = new
         /\ \A r \in Others(q) : Warned(r, s)
<1>1. \A r \in Process : proc'[r] = IF r = q THEN new ELSE Aged(r, s)
  BY DEF GoChanging
<1>2. proc' \in [Process -> ProcessState]
  BY AgedType DEF GoChanging
<1>3. ASSUME NEW r \in Others(q) PROVE Warned(r, s)
  <2>1. r \in Process /\ proc'[r] = Aged(r, s)
    BY <1>1 DEF Others
  <2> QED BY <2>1, AgedType DEF Warned, Bystander
<1> QED BY <1>1, <1>2, <1>3

\* A step of q that leaves it at a station of its own keeps the stations.
LEMMA Stationed ==
  ASSUME TypeInv, NEW q \in Process, proc' \in [Process -> ProcessState],
         \A r \in Others(q) : Bystander(r),
         q = Loop => proc'[q].pc \in {"idle", "next", "charge", "sync"},
         q \in TopUp => proc'[q].pc \in {"idle", "decide", "activate", "mark", "sync"},
         q \in {Bot, Cabinet, Miniapp} => proc'[q].pc \in {"idle", "decide", "activate", "sync"},
         proc'[q].s = None <=> proc'[q].pc \in {"idle", "next"},
         q = Loop /\ proc'[q].pc # "idle" => proc'[q].phase # "none"
  PROVE  (Stations /\ Phased /\ \A r \in Process : InTheHand(r))'
<1> USE Roles DEF Others, Bystander, TypeInv
<1>1. Stations'
  BY DEF Stations
<1>2. Phased'
  BY DEF Phased
<1>3. (\A r \in Process : InTheHand(r))'
  BY DEF InTheHand
<1> QED BY <1>1, <1>2, <1>3

\* The columns.
LEMMA Writing ==
  ASSUME TypeInv, NEW s \in Daily, NEW new \in Row, Write(s, new)
  PROVE  /\ row' \in [Daily -> Row] /\ row'[s].recent
         /\ row'[s].status = new.status /\ row'[s].due = new.due /\ row'[s].paused = new.paused
         /\ \A u \in Daily \ {s} : row'[u] = row[u]
<1>1. row'[s] = [new EXCEPT !.recent = TRUE]
  BY TypeParts DEF Write
<1>2. [new EXCEPT !.recent = TRUE] \in Row
  BY DEF Row
<1> QED BY <1>1, <1>2, TypeParts DEF Write, Row

LEMMA Using ==
  ASSUME TypeInv, NEW what \in {"days", "topups", "events", "faults"}, NEW max, Use(what, max)
  PROVE  used' \in [{"days", "topups", "events", "faults"} -> Nat]
BY TypeParts DEF Use

LEMMA Owing ==
  ASSUME TypeInv, NEW s \in Daily, NEW n \in Int, Owe(s, n)
  PROVE  /\ owed' \in [Daily -> Int] /\ owed'[s] = owed[s] + n
         /\ \A u \in Daily \ {s} : owed'[u] = owed[u]
BY TypeParts DEF Owe

LEMMA Paying ==
  ASSUME TypeInv, NEW s \in Daily, Pay(s), Affordable(s)
  PROVE  /\ balance' \in [Daily -> Nat] /\ today' \in [Daily -> Nat]
         /\ today'[s] = today[s] + 1
         /\ \A u \in Daily \ {s} : today'[u] = today[u]
<1>1. balance[s] \in Nat /\ Price \in Nat /\ balance[s] - Price \in Nat
  BY TypeParts, PriceAssumption DEF Affordable
<1>2. balance' = [balance EXCEPT ![s] = balance[s] - Price]
  BY DEF Pay
<1>3. today' = [today EXCEPT ![s] = today[s] + 1] /\ today[s] + 1 \in Nat
  BY TypeParts DEF Pay
<1> QED BY <1>1, <1>2, <1>3, TypeParts

\* Whoever is not outdated is alone with a subscription nobody changed.
LEMMA Racing ==
  ASSUME TypeInv, NEW q \in Process, NEW s \in Daily, Race(q, s)
  PROVE  /\ raced' \subseteq Daily /\ raced \subseteq raced' /\ raced' \subseteq raced \cup {s}
         /\ s \notin raced' => s \notin proc[q].old /\ \A r \in Others(q) : ~ Midway(r, s)
BY TypeParts DEF Race, Outdated, Others

-----------------------------------------------------------------------------
(* What a step leaves alone, and what it makes of those in the middle.      *)

SameRow(s) == row'[s].status = row[s].status /\ row'[s].due = row[s].due
SameBooks(s) ==
  /\ today'[s] = today[s] /\ owed'[s] = owed[s]
  /\ (s \in raced' <=> s \in raced) /\ (s \in torn' <=> s \in torn) /\ (s \in cut' <=> s \in cut)

\* A process that read u before has it where it had it, or is about to tell the
\* panel of it, or has done with it.
Unmoved(q, u) ==
  /\ Midway(q, u)' <=> Midway(q, u)
  /\ proc'[q].s = u /\ proc'[q].pc # "sync" =>
       /\ proc[q].s = u /\ proc'[q].pc = proc[q].pc /\ proc'[q].inactive = proc[q].inactive
       /\ u \in proc[q].old => u \in proc'[q].old
  /\ u \in proc'[q].todo =>
       /\ u \in proc[q].todo /\ proc'[q].phase = proc[q].phase
       /\ u \in proc[q].old => u \in proc'[q].old

LEMMA MidwaySame ==
  ASSUME NEW u, \A r \in Process : Midway(r, u)' <=> Midway(r, u), raced \subseteq raced'
  PROVE  (Amid(u)' <=> Amid(u)) /\ (OneMidway(u) => OneMidway(u)')
<1>1. Amid(u)' <=> Amid(u)
  BY DEF Amid
<1>2. ASSUME OneMidway(u), NEW q \in Process, NEW r \in Process,
             u \notin raced', Midway(q, u)', Midway(r, u)'
      PROVE  q = r
  BY <1>2 DEF OneMidway
<1> QED BY <1>1, <1>2 DEF OneMidway

\* Where the row and the books are the same and nobody moves, nothing happens.
LEMMA Nothing ==
  ASSUME NEW u \in Daily, BuyInv(u), ServeInv(u), SameRow(u), SameBooks(u),
         \A r \in Process : Unmoved(r, u)
  PROVE  BuyInv(u)' /\ ServeInv(u)'
<1>1. \A r \in Process : Midway(r, u)' <=> Midway(r, u)
  BY DEF Unmoved
<1>2. Amid(u)' <=> Amid(u)
  BY <1>1 DEF Amid
<1>3. OneMidway(u)'
  <2> SUFFICES ASSUME NEW q \in Process, NEW r \in Process,
                      u \notin raced', Midway(q, u)', Midway(r, u)'
               PROVE  q = r
    BY DEF OneMidway
  <2> QED BY <1>1 DEF BuyInv, OneMidway, SameBooks
<1>4. OneOwed(u)'
  BY <1>2 DEF BuyInv, OneOwed, SameBooks
<1>5. Inactive(u)' <=> Inactive(u)
  BY DEF Inactive, SameRow
<1>6. ASSUME NEW r \in Process PROVE DoorView(r, u)'
  BY <1>5, <1>6 DEF BuyInv, DoorView, Unmoved, At, SameBooks
<1>7. ASSUME ~ InDoubt(u)' PROVE DayCounted(u)' /\ \A q \in Process : Fresh(q, u)'
  <2>1. DayCounted(u) /\ \A q \in Process : Fresh(q, u)
    BY <1>7 DEF ServeInv, InDoubt, SameBooks
  <2>2. DayCounted(u)'
    BY <2>1, <1>2 DEF DayCounted, SameRow, SameBooks
  <2>3. ASSUME NEW q \in Process PROVE Fresh(q, u)'
    BY <2>1, <2>3, <1>5 DEF Fresh, Unmoved, At, SameRow
  <2> QED BY <2>2, <2>3
<1> QED BY <1>3, <1>4, <1>6, <1>7 DEF BuyInv, ServeInv

LEMMA BystanderUnmoved ==
  ASSUME NEW r, NEW u, Bystander(r)
  PROVE  Unmoved(r, u) /\ (Midway(r, u)' <=> Midway(r, u))
BY DEF Bystander, Unmoved, Midway

\* A step of q on s keeps what is known of the other subscriptions.
LEMMA Elsewhere1 ==
  ASSUME IInv, NEW q \in Process, NEW s \in Daily, NEW u \in Daily \ {s},
         proc' \in [Process -> ProcessState], \A r \in Others(q) : Bystander(r), MindsOnly(q, s),
         row'[u] = row[u], SameBooks(u)
  PROVE  BuyInv(u)' /\ ServeInv(u)'
<1>1. u # None /\ u # s
  BY DailyAssumption
<1>2. Unmoved(q, u)
  BY <1>1 DEF Unmoved, Midway, MindsOnly
<1>3. \A r \in Process : Unmoved(r, u)
  BY <1>2, BystanderUnmoved DEF Others
<1> QED BY <1>3, Nothing DEF IInv, SameRow

\* Somebody else's view of s, when nothing that it read is changed, and when it
\* is warned.
LEMMA OthersKeep ==
  ASSUME NEW r \in Process, NEW s \in Daily, SameRow(s), raced \subseteq raced', Bystander(r)
  PROVE  (DoorView(r, s) => DoorView(r, s)') /\ (Fresh(r, s) => Fresh(r, s)')
<1>1. Inactive(s)' <=> Inactive(s)
  BY DEF Inactive, SameRow
<1>2. DoorView(r, s) => DoorView(r, s)'
  BY <1>1 DEF DoorView, At, Bystander
<1>3. Fresh(r, s) => Fresh(r, s)'
  BY <1>1 DEF Fresh, At, Bystander, SameRow
<1> QED BY <1>2, <1>3

LEMMA OthersWarned ==
  ASSUME NEW r \in Process, NEW s \in Daily, raced \subseteq raced', Warned(r, s)
  PROVE  (DoorView(r, s) => DoorView(r, s)') /\ Fresh(r, s)'
<1>1. DoorView(r, s) => DoorView(r, s)'
  BY DEF DoorView, At, Warned, Bystander, DecidesBy
<1>2. Fresh(r, s)'
  BY DEF Fresh, At, Warned, Bystander, DecidesBy
<1> QED BY <1>1, <1>2

\* The others know of what q does to s, or q does nothing they go by.
Noticed(q, s) == \A r \in Others(q) : Bystander(r) /\ (SameRow(s) \/ Warned(r, s))

\* The books of s and the view of q remain to be shown.
LEMMA Buys ==
  ASSUME IInv, NEW q \in Process, NEW s \in Daily, Noticed(q, s), raced \subseteq raced',
         OneMidway(s)', OneOwed(s)', DoorView(q, s)'
  PROVE  BuyInv(s)'
<1>1. ASSUME NEW r \in Process PROVE DoorView(r, s)'
  <2>1. CASE r = q
    BY <2>1
  <2>2. CASE r # q
    <3>1. r \in Others(q) /\ DoorView(r, s)
      BY <2>2 DEF Others, IInv, BuyInv
    <3> QED BY <3>1, OthersKeep, OthersWarned DEF Noticed
  <2> QED BY <2>1, <2>2
<1> QED BY <1>1 DEF BuyInv

LEMMA Serves ==
  ASSUME IInv, NEW q \in Process, NEW s \in Daily, Noticed(q, s),
         raced \subseteq raced', torn \subseteq torn', cut \subseteq cut',
         ~ InDoubt(s)' /\ DayCounted(s) /\ Fresh(q, s) => DayCounted(s)' /\ Fresh(q, s)'
  PROVE  ServeInv(s)'
<1> SUFFICES ASSUME ~ InDoubt(s)' PROVE DayCounted(s)' /\ \A r \in Process : Fresh(r, s)'
  BY DEF ServeInv
<1>1. DayCounted(s) /\ \A r \in Process : Fresh(r, s)
  BY DEF IInv, ServeInv, InDoubt
<1>2. ASSUME NEW r \in Process PROVE Fresh(r, s)'
  <2>1. CASE r = q
    BY <2>1, <1>1
  <2>2. CASE r # q
    <3>1. r \in Others(q)
      BY <2>2 DEF Others
    <3> QED BY <3>1, <1>1, OthersKeep, OthersWarned DEF Noticed
  <2> QED BY <2>1, <2>2
<1> QED BY <1>1, <1>2

\* q enters the middle, and was alone unless s is raced now.
LEMMA Entering ==
  ASSUME NEW q \in Process, NEW s \in Daily, ~ Midway(q, s), Midway(q, s)',
         \A r \in Others(q) : Bystander(r),
         s \notin raced' => \A r \in Others(q) : ~ Midway(r, s)
  PROVE  /\ OneMidway(s)' /\ Amid(s)'
         /\ s \notin raced' => ~ Amid(s)
<1>1. \A r \in Others(q) : Midway(r, s)' <=> Midway(r, s)
  BY BystanderUnmoved
<1>2. OneMidway(s)'
  BY <1>1 DEF OneMidway, Others
<1>3. Amid(s)'
  BY DEF Amid
<1>4. s \notin raced' => ~ Amid(s)
  BY DEF Amid, Others
<1> QED BY <1>2, <1>3, <1>4

\* q leaves the middle: nobody is in it then, unless s is raced.
LEMMA Leaving ==
  ASSUME NEW q \in Process, NEW s \in Daily, Midway(q, s), ~ Midway(q, s)', OneMidway(s),
         \A r \in Others(q) : Bystander(r), raced \subseteq raced'
  PROVE  /\ OneMidway(s)' /\ Amid(s)
         /\ s \notin raced => ~ Amid(s)'
<1>1. \A r \in Others(q) : Midway(r, s)' <=> Midway(r, s)
  BY BystanderUnmoved
<1>2. OneMidway(s)'
  <2> SUFFICES ASSUME NEW p \in Process, NEW r \in Process,
                      s \notin raced', Midway(p, s)', Midway(r, s)'
               PROVE  p = r
    BY DEF OneMidway
  <2>1. p \in Others(q) /\ r \in Others(q)
    BY DEF Others
  <2> QED BY <1>1, <2>1 DEF OneMidway, Others
<1>3. Amid(s)
  BY DEF Amid
<1>4. ASSUME s \notin raced, Amid(s)' PROVE FALSE
  <2>1. PICK r \in Process : Midway(r, s)'
    BY <1>4 DEF Amid
  <2>2. r \in Others(q)
    BY <2>1 DEF Others
  <2> QED BY <1>1, <1>4, <2>1, <2>2 DEF OneMidway, Others
<1> QED BY <1>2, <1>3, <1>4

\* q stays in the middle, or out of it.
LEMMA Staying ==
  ASSUME NEW q \in Process, NEW s \in Daily, Midway(q, s)' <=> Midway(q, s), OneMidway(s),
         \A r \in Others(q) : Bystander(r), raced \subseteq raced'
  PROVE  OneMidway(s)' /\ (Amid(s)' <=> Amid(s))
<1>1. \A r \in Process : Midway(r, s)' <=> Midway(r, s)
  BY BystanderUnmoved DEF Others
<1> QED BY <1>1, MidwaySame

-----------------------------------------------------------------------------
(* Steps as a whole. *)

LEMMA StepOn ==
  ASSUME IInv, NEW q \in Process, NEW s \in Daily,
         proc' \in [Process -> ProcessState], \A r \in Others(q) : Bystander(r), MindsOnly(q, s),
         \A u \in Daily \ {s} : row'[u] = row[u] /\ SameBooks(u),
         TypeInv', LaggingIsKnown', BuyInv(s)', ServeInv(s)'
  PROVE  IInv'
<1>1. ASSUME NEW u \in Daily PROVE BuyInv(u)' /\ ServeInv(u)'
  <2>1. CASE u = s
    BY <2>1
  <2>2. CASE u # s
    BY <2>2, Elsewhere1
  <2> QED BY <2>1, <2>2
<1> QED BY <1>1 DEF IInv

\* A process that drops what it read, and changes nothing that others go by.
LEMMA QuietStep ==
  ASSUME IInv, NEW q \in Process, \A r \in Others(q) : Bystander(r),
         \A u \in Daily : SameRow(u) /\ SameBooks(u) /\ Unmoved(q, u),
         TypeInv', LaggingIsKnown'
  PROVE  IInv'
<1>1. ASSUME NEW u \in Daily PROVE BuyInv(u)' /\ ServeInv(u)'
  <2>1. \A r \in Process : Unmoved(r, u)
    BY BystanderUnmoved DEF Others
  <2> QED BY <2>1, Nothing DEF IInv
<1> QED BY <1>1 DEF IInv

\* The panel: what lags behind after a step is what lagged before, or what the
\* process that works on it is about to tell.
LEMMA LaggingStep ==
  ASSUME IInv, NEW q \in Process, NEW s \in Daily, ~ At(q, "sync"),
         \A r \in Others(q) : Bystander(r), queue' = queue, batch' = batch, missed \subseteq missed',
         \/ behind' \subseteq behind
         \/ behind' \subseteq behind \cup {s} /\ proc'[q].pc = "sync" /\ proc'[q].s = s
  PROVE  LaggingIsKnown'
<1> SUFFICES ASSUME NEW u \in behind' \ missed'
             PROVE  \/ RetryQueue!Held(u)'
                    \/ \E r \in Process : proc'[r].pc = "sync" /\ proc'[r].s = u
  BY DEF LaggingIsKnown, At
<1>1. CASE u \in behind
  <2>1. CASE RetryQueue!Held(u)
    BY <2>1 DEF RetryQueue!Held, RetryQueue!InSeq
  <2>2. CASE \E r \in Process : At(r, "sync") /\ proc[r].s = u
    <3>1. PICK r \in Process : At(r, "sync") /\ proc[r].s = u
      BY <2>2
    <3>2. r \in Others(q)
      BY <3>1 DEF Others
    <3> QED BY <3>1, <3>2 DEF Bystander, At
  <2> QED BY <1>1, <2>1, <2>2 DEF IInv, LaggingIsKnown
<1>2. CASE u \notin behind
  BY <1>2
<1> QED BY <1>1, <1>2

LEMMA Written ==
  ASSUME TypeInv, NEW s \in Daily
  PROVE  /\ \A x \in Status : Write(s, [row[s] EXCEPT !.status = x]) =>
              /\ row' \in [Daily -> Row] /\ row'[s].status = x /\ row'[s].due = row[s].due
              /\ \A u \in Daily \ {s} : row'[u] = row[u]
         /\ \A b \in BOOLEAN : Write(s, [row[s] EXCEPT !.paused = b]) =>
              /\ row' \in [Daily -> Row] /\ SameRow(s)
              /\ \A u \in Daily \ {s} : row'[u] = row[u]
         /\ Write(s, [row[s] EXCEPT !.due = FALSE]) =>
              /\ row' \in [Daily -> Row] /\ row'[s].status = row[s].status /\ ~ row'[s].due
              /\ \A u \in Daily \ {s} : row'[u] = row[u]
<1>1. row[s] \in Row
  BY TypeParts
<1>2. ASSUME NEW x \in Status, Write(s, [row[s] EXCEPT !.status = x])
      PROVE  /\ row' \in [Daily -> Row] /\ row'[s].status = x /\ row'[s].due = row[s].due
             /\ \A u \in Daily \ {s} : row'[u] = row[u]
  <2>1. /\ [row[s] EXCEPT !.status = x] \in Row /\ [row[s] EXCEPT !.status = x].status = x
        /\ [row[s] EXCEPT !.status = x].due = row[s].due
    BY <1>1 DEF Row
  <2> QED BY <1>2, <2>1, Writing
<1>3. ASSUME NEW b \in BOOLEAN, Write(s, [row[s] EXCEPT !.paused = b])
      PROVE  row' \in [Daily -> Row] /\ SameRow(s) /\ \A u \in Daily \ {s} : row'[u] = row[u]
  <2>1. /\ [row[s] EXCEPT !.paused = b] \in Row
        /\ [row[s] EXCEPT !.paused = b].status = row[s].status
        /\ [row[s] EXCEPT !.paused = b].due = row[s].due
    BY <1>1 DEF Row
  <2> QED BY <1>3, <2>1, Writing DEF SameRow
<1>4. ASSUME Write(s, [row[s] EXCEPT !.due = FALSE])
      PROVE  /\ row' \in [Daily -> Row] /\ row'[s].status = row[s].status /\ ~ row'[s].due
             /\ \A u \in Daily \ {s} : row'[u] = row[u]
  <2>1. /\ [row[s] EXCEPT !.due = FALSE] \in Row /\ [row[s] EXCEPT !.due = FALSE].due = FALSE
        /\ [row[s] EXCEPT !.due = FALSE].status = row[s].status
    BY <1>1 DEF Row
  <2> QED BY <1>4, <2>1, Writing
<1> QED BY <1>2, <1>3, <1>4

LEMMA ResumedWritten ==
  ASSUME TypeInv, NEW s \in Daily, NEW r \in Row, Write(s, Resumed(r))
  PROVE  /\ row' \in [Daily -> Row] /\ row'[s].status = "ACTIVE" /\ ~ row'[s].due
         /\ \A u \in Daily \ {s} : row'[u] = row[u]
<1>1. Resumed(r) \in Row /\ Resumed(r).status = "ACTIVE" /\ Resumed(r).due = FALSE
  BY DEF Resumed, Row, Status
<1> QED BY <1>1, Writing

\* The loop reads a list: what is not active has not been paid for.
LEMMA ReadStep ==
  ASSUME IInv, NEW phase \in {"disabled", "expired", "due"}, Read(phase),
         proc[Loop].pc \in {"idle", "next"},
         UNCHANGED <<row, balance, queue, batch, behind, history, used>>
  PROVE  IInv'
<1>0. TypeInv /\ Loop \in Process
  BY Roles DEF IInv
<1>1. PICK todo \in SUBSET Listed(phase) :
        Go(Loop, [Idle EXCEPT !.pc = "next", !.phase = phase, !.todo = todo])
  BY DEF Read
<1> DEFINE new == [Idle EXCEPT !.pc = "next", !.phase = phase, !.todo = todo]
<1>2. /\ new \in ProcessState /\ new.pc = "next" /\ new.s = None /\ new.old = {}
      /\ new.phase = phase /\ new.todo = todo
  BY DEF Idle, ProcessState, PC, Listed
<1> HIDE DEF new
<1>3. /\ proc' \in [Process -> ProcessState] /\ proc'[Loop] = new
      /\ \A r \in Others(Loop) : Bystander(r)
  BY <1>0, <1>1, <1>2, Going DEF new
<1>4. TypeInv'
  <2>1. TypeOK'
    BY <1>0, <1>3, TypeParts DEF TypeOK, history
  <2>2. (Stations /\ Phased /\ \A r \in Process : InTheHand(r))'
    BY <1>0, <1>2, <1>3, Stationed, Roles
  <2> QED BY <2>1, <2>2 DEF TypeInv
<1>5. LaggingIsKnown'
  <2>1. CASE Daily = {}
    BY <2>1, <1>4 DEF TypeInv, TypeOK, LaggingIsKnown
  <2>2. CASE Daily # {}
    <3>1. PICK s \in Daily : TRUE
      BY <2>2
    <3> QED BY <3>1, <1>0, <1>3, LaggingStep DEF At, history
  <2> QED BY <2>1, <2>2
<1>6. ASSUME NEW u \in Daily PROVE BuyInv(u)' /\ ServeInv(u)'
  <2>1. SameRow(u) /\ SameBooks(u) /\ raced' = raced
    BY DEF SameRow, SameBooks, history
  <2>2. (Midway(Loop, u)' <=> Midway(Loop, u)) /\ OneMidway(u)
    BY <1>2, <1>3 DEF Midway, IInv, BuyInv
  <2>3. OneMidway(u)' /\ (Amid(u)' <=> Amid(u))
    BY <2>1, <2>2, <1>0, <1>3, Staying
  <2>4. BuyInv(u)'
    <3>1. OneOwed(u)'
      BY <2>1, <2>3 DEF IInv, BuyInv, OneOwed, SameBooks
    <3>2. ASSUME NEW r \in Process PROVE DoorView(r, u)'
      <4>1. CASE r = Loop
        BY <4>1, Roles DEF DoorView
      <4>2. CASE r # Loop
        BY <4>2, <1>3, <2>1, OthersKeep DEF Others, IInv, BuyInv
      <4> QED BY <4>1, <4>2
    <3> QED BY <2>3, <3>1, <3>2 DEF BuyInv
  <2>5. ASSUME ~ InDoubt(u)' PROVE DayCounted(u)' /\ \A r \in Process : Fresh(r, u)'
    <3>1. DayCounted(u) /\ \A r \in Process : Fresh(r, u)
      BY <2>5, <2>1 DEF IInv, ServeInv, InDoubt, SameBooks
    <3>2. DayCounted(u)'
      BY <3>1, <2>1, <2>3 DEF DayCounted, SameRow, SameBooks
    <3>3. ASSUME NEW r \in Process PROVE Fresh(r, u)'
      <4>1. CASE r = Loop
        <5>1. u \in todo => row[u].due /\ (phase = "due" => row[u].status = "ACTIVE")
          BY <3>1 DEF Listed, DayCounted
        <5>2. u # None
          BY DailyAssumption
        <5> QED BY <4>1, <5>1, <5>2, <1>2, <1>3 DEF Fresh, At
      <4>2. CASE r # Loop
        BY <4>2, <1>3, <2>1, <3>1, OthersKeep DEF Others
      <4> QED BY <4>1, <4>2
    <3> QED BY <3>2, <3>3
  <2> QED BY <2>4, <2>5 DEF ServeInv
<1> QED BY <1>4, <1>5, <1>6 DEF IInv

-----------------------------------------------------------------------------
(* The loop. *)

LEMMA BeginStep == ASSUME IInv, Begin PROVE IInv'
BY ReadStep DEF Begin, At

LEMMA ProceedStep == ASSUME IInv, Proceed PROVE IInv'
<1>0. /\ TypeInv /\ Loop \in Process /\ proc[Loop].pc = "next" /\ proc[Loop].todo = {}
      /\ proc[Loop].phase \in {"disabled", "expired", "due"}
      /\ UNCHANGED <<row, balance, queue, batch, behind, history, used>>
  BY TypeParts, Roles DEF IInv, Proceed, At, ProcessState, TypeInv, Phased
<1>1. CASE proc[Loop].phase = "disabled"
  BY <1>0, <1>1, ReadStep DEF Proceed
<1>2. CASE proc[Loop].phase = "expired"
  BY <1>0, <1>2, ReadStep DEF Proceed
<1>3. CASE proc[Loop].phase = "due"
  <2>1. Go(Loop, Idle)
    BY <1>3 DEF Proceed
  <2>2. /\ proc' \in [Process -> ProcessState] /\ proc'[Loop] = Idle
        /\ \A r \in Others(Loop) : Bystander(r)
    BY <2>1, <1>0, IdleType, Going
  <2>3. TypeInv'
    <3>1. TypeOK'
      BY <1>0, <2>2, TypeParts DEF TypeOK, history
    <3>2. (Stations /\ Phased /\ \A r \in Process : InTheHand(r))'
      BY <1>0, <2>2, IdleType, Stationed, Roles
    <3> QED BY <3>1, <3>2 DEF TypeInv
  <2>4. LaggingIsKnown'
    <3>1. CASE Daily = {}
      BY <3>1, <2>3 DEF TypeInv, TypeOK, LaggingIsKnown
    <3>2. CASE Daily # {}
      <4>1. PICK s \in Daily : TRUE
        BY <3>2
      <4> QED BY <4>1, <1>0, <2>2, LaggingStep DEF At, history
    <3> QED BY <3>1, <3>2
  <2>5. ASSUME NEW u \in Daily PROVE SameRow(u) /\ SameBooks(u) /\ Unmoved(Loop, u)
    <3>1. u # None
      BY DailyAssumption
    <3> QED BY <3>1, <1>0, <2>2, IdleType DEF SameRow, SameBooks, Unmoved, Midway, history
  <2> QED BY <1>0, <2>2, <2>3, <2>4, <2>5, QuietStep
<1> QED BY <1>0, <1>1, <1>2, <1>3

LEMMA WakeStep == ASSUME IInv, NEW s \in Daily, Wake(s) PROVE IInv'
<1>0. /\ TypeInv /\ Loop \in Process /\ s # None /\ row[s] \in Row /\ proc[Loop] \in ProcessState
      /\ proc[Loop].pc = "next" /\ proc[Loop].s = None /\ s \in proc[Loop].todo
      /\ proc[Loop].phase \in {"disabled", "expired"}
      /\ UNCHANGED <<balance, queue, batch, behind, history, used>>
  BY TypeParts, Roles, DailyAssumption DEF IInv, TypeInv, Wake, At, InTheHand
<1> DEFINE new == [proc[Loop] EXCEPT !.pc = "charge", !.s = s, !.todo = @ \ {s}]
<1>1. /\ new \in ProcessState /\ new.pc = "charge" /\ new.s = s /\ new.todo = proc[Loop].todo \ {s}
      /\ new.phase = proc[Loop].phase /\ new.old = proc[Loop].old
  BY <1>0 DEF ProcessState, PC
<1> HIDE DEF new
<1>2. /\ proc' \in [Process -> ProcessState] /\ proc'[Loop] = new
      /\ \A r \in Others(Loop) : Warned(r, s) /\ Bystander(r)
  BY <1>0, <1>1, GoingChanging DEF Wake, new, Warned
<1>3. /\ row' \in [Daily -> Row] /\ row'[s].status = "ACTIVE" /\ row'[s].due = row[s].due
      /\ \A u \in Daily \ {s} : row'[u] = row[u]
  BY <1>0, Written DEF Wake, Status
<1>4. TypeInv'
  <2>1. TypeOK'
    BY <1>0, <1>2, <1>3, TypeParts DEF TypeOK, history
  <2>2. (Stations /\ Phased /\ \A r \in Process : InTheHand(r))'
    BY <1>0, <1>1, <1>2, Stationed, Roles
  <2> QED BY <2>1, <2>2 DEF TypeInv
<1>5. LaggingIsKnown'
  BY <1>0, <1>2, LaggingStep DEF At, history
<1>6. \A u \in Daily : SameBooks(u)
  BY <1>0 DEF SameBooks, history
<1>7. OneMidway(s)' /\ (Amid(s)' <=> Amid(s))
  BY <1>0, <1>1, <1>2, Staying DEF Midway, history, IInv, BuyInv
<1>8. Noticed(Loop, s) /\ raced' = raced /\ torn' = torn /\ cut' = cut
  BY <1>0, <1>2 DEF Noticed, history
<1>9. BuyInv(s)' /\ ServeInv(s)'
  <2>1. OneOwed(s)'
    BY <1>6, <1>7 DEF IInv, BuyInv, OneOwed, SameBooks
  <2>2. DoorView(Loop, s)'
    BY Roles DEF DoorView
  <2>3. BuyInv(s)'
    BY <1>0, <1>7, <1>8, <2>1, <2>2, Buys
  <2>4. DayCounted(s) => DayCounted(s)'
    BY <1>3, <1>6, <1>7 DEF DayCounted, SameBooks
  <2>5. DayCounted(s) /\ Fresh(Loop, s) => Fresh(Loop, s)'
    BY <1>0, <1>1, <1>2, <1>3 DEF Fresh, At
  <2> QED BY <1>0, <1>8, <2>3, <2>4, <2>5, Serves
<1>10. MindsOnly(Loop, s)
  BY <1>0, <1>1, <1>2 DEF MindsOnly
<1> QED BY <1>0, <1>2, <1>3, <1>4, <1>5, <1>6, <1>9, <1>10, StepOn

\* What the loop is at when it charges or suspends s: s is the one it woke, or
\* one of its list of those due.
LEMMA Processes ==
  ASSUME IInv, NEW s \in Daily, Processing(s)
  PROVE  /\ proc[Loop].s \in {s, None} /\ proc[Loop].pc \in {"next", "charge"}
         /\ ~ Midway(Loop, s) /\ ~ At(Loop, "sync") /\ proc[Loop].phase # "none"
         /\ Fresh(Loop, s) /\ s \notin proc[Loop].old => row[s].due /\ row[s].status = "ACTIVE"
<1>1. InTheHand(Loop) /\ Phased
  BY Roles DEF IInv, TypeInv
<1> QED BY <1>1 DEF Processing, At, Midway, InTheHand, Phased, Fresh

LEMMA LoopChargeStep == ASSUME IInv, NEW s \in Daily, LoopCharge(s) PROVE IInv'
<1>0. /\ TypeInv /\ Loop \in Process /\ s # None /\ row[s] \in Row
      /\ UNCHANGED <<queue, batch, missed, owed, torn, cut, used>>
  BY TypeParts, Roles, DailyAssumption DEF IInv, TypeInv, LoopCharge
<1>1. /\ proc[Loop].s \in {s, None} /\ ~ Midway(Loop, s) /\ ~ At(Loop, "sync")
      /\ proc[Loop].phase # "none"
      /\ Fresh(Loop, s) /\ s \notin proc[Loop].old => row[s].due /\ row[s].status = "ACTIVE"
  BY Processes DEF LoopCharge
<1> DEFINE new == Onward("sync", s)
<1>2. /\ new \in ProcessState /\ new.pc = "sync" /\ new.s = s /\ new.todo = proc[Loop].todo \ {s}
      /\ new.phase = proc[Loop].phase /\ new.old = proc[Loop].old \ {s}
  BY <1>0, OnwardType
<1> HIDE DEF new
<1>3. /\ proc' \in [Process -> ProcessState] /\ proc'[Loop] = new
      /\ \A r \in Others(Loop) : Warned(r, s) /\ Bystander(r)
  BY <1>0, <1>2, GoingChanging DEF LoopCharge, new, Warned
<1>4. /\ row' \in [Daily -> Row] /\ row'[s].status = row[s].status /\ ~ row'[s].due
      /\ \A u \in Daily \ {s} : row'[u] = row[u]
  BY <1>0, Written DEF LoopCharge
<1>5. /\ balance' \in [Daily -> Nat] /\ today' \in [Daily -> Nat] /\ today'[s] = today[s] + 1
      /\ \A u \in Daily \ {s} : today'[u] = today[u]
  BY <1>0, Paying DEF LoopCharge
<1>6. /\ raced' \subseteq Daily /\ raced \subseteq raced' /\ raced' \subseteq raced \cup {s}
      /\ s \notin raced' => s \notin proc[Loop].old /\ \A r \in Others(Loop) : ~ Midway(r, s)
  BY <1>0, Racing DEF LoopCharge
<1>7. behind' = behind \cup {s}
  BY DEF LoopCharge
<1>8. TypeInv'
  <2>1. TypeOK'
    BY <1>0, <1>3, <1>4, <1>5, <1>6, <1>7, TypeParts DEF TypeOK
  <2>2. (Stations /\ Phased /\ \A r \in Process : InTheHand(r))'
    BY <1>0, <1>1, <1>2, <1>3, Stationed, Roles
  <2> QED BY <2>1, <2>2 DEF TypeInv
<1>9. LaggingIsKnown'
  BY <1>0, <1>1, <1>2, <1>3, <1>7, LaggingStep
<1>10. \A u \in Daily \ {s} : SameBooks(u)
  BY <1>0, <1>5, <1>6 DEF SameBooks
<1>11. OneMidway(s)' /\ (Amid(s)' <=> Amid(s))
  BY <1>0, <1>1, <1>2, <1>3, <1>6, Staying DEF Midway, IInv, BuyInv
<1>12. Noticed(Loop, s)
  BY <1>3 DEF Noticed
<1>13. BuyInv(s)' /\ ServeInv(s)'
  <2>1. OneOwed(s)'
    BY <1>0, <1>6, <1>11 DEF IInv, BuyInv, OneOwed
  <2>2. DoorView(Loop, s)'
    BY Roles DEF DoorView
  <2>3. BuyInv(s)'
    BY <1>0, <1>6, <1>11, <1>12, <2>1, <2>2, Buys
  <2>4. ~ InDoubt(s)' /\ DayCounted(s) /\ Fresh(Loop, s) => DayCounted(s)'
    <3> SUFFICES ASSUME s \notin raced', DayCounted(s), Fresh(Loop, s) PROVE DayCounted(s)'
      BY DEF InDoubt
    <3>1. row[s].due /\ ~ Amid(s)
      BY <1>1, <1>6 DEF Amid, Others
    <3>2. row[s].status = "ACTIVE"
      BY <1>1, <1>6
    <3> QED BY <3>1, <3>2, <1>4, <1>5, <1>11 DEF DayCounted
  <2>5. Fresh(Loop, s)'
    BY <1>2, <1>3 DEF Fresh, At
  <2> QED BY <1>0, <1>6, <1>12, <2>3, <2>4, <2>5, Serves
<1>14. MindsOnly(Loop, s)
  BY <1>0, <1>1, <1>2, <1>3 DEF MindsOnly
<1> QED BY <1>0, <1>3, <1>4, <1>8, <1>9, <1>10, <1>13, <1>14, StepOn

LEMMA SuspendStep == ASSUME IInv, NEW s \in Daily, Suspend(s) PROVE IInv'
<1>0. /\ TypeInv /\ Loop \in Process /\ s # None
      /\ UNCHANGED <<balance, queue, batch, behind, missed, owed, today, torn, cut, used>>
  BY TypeParts, Roles, DailyAssumption DEF IInv, Suspend
<1>1. /\ proc[Loop].s \in {s, None} /\ ~ Midway(Loop, s) /\ ~ At(Loop, "sync")
      /\ proc[Loop].phase # "none"
      /\ Fresh(Loop, s) /\ s \notin proc[Loop].old => row[s].due /\ row[s].status = "ACTIVE"
  BY Processes DEF Suspend
<1> DEFINE new == Onward("next", s)
<1>2. /\ new \in ProcessState /\ new.pc = "next" /\ new.s = None
      /\ new.todo = proc[Loop].todo \ {s}
      /\ new.phase = proc[Loop].phase /\ new.old = proc[Loop].old \ {s}
  BY <1>0, OnwardType
<1> HIDE DEF new
<1>3. /\ proc' \in [Process -> ProcessState] /\ proc'[Loop] = new
      /\ \A r \in Others(Loop) : Warned(r, s) /\ Bystander(r)
  BY <1>0, <1>2, GoingChanging DEF Suspend, new, Warned
<1>4. /\ row' \in [Daily -> Row] /\ row'[s].status = "DISABLED" /\ row'[s].due = row[s].due
      /\ \A u \in Daily \ {s} : row'[u] = row[u]
  BY <1>0, Written DEF Suspend, Status
<1>5. /\ raced' \subseteq Daily /\ raced \subseteq raced' /\ raced' \subseteq raced \cup {s}
      /\ s \notin raced' => s \notin proc[Loop].old /\ \A r \in Others(Loop) : ~ Midway(r, s)
  BY <1>0, Racing DEF Suspend
<1>6. TypeInv'
  <2>1. TypeOK'
    BY <1>0, <1>3, <1>4, <1>5, TypeParts DEF TypeOK
  <2>2. (Stations /\ Phased /\ \A r \in Process : InTheHand(r))'
    BY <1>0, <1>1, <1>2, <1>3, Stationed, Roles
  <2> QED BY <2>1, <2>2 DEF TypeInv
<1>7. LaggingIsKnown'
  BY <1>0, <1>1, <1>2, <1>3, LaggingStep
<1>8. \A u \in Daily \ {s} : SameBooks(u)
  BY <1>0, <1>5 DEF SameBooks
<1>9. OneMidway(s)' /\ (Amid(s)' <=> Amid(s))
  BY <1>0, <1>1, <1>2, <1>3, <1>5, Staying DEF Midway, IInv, BuyInv
<1>10. Noticed(Loop, s)
  BY <1>3 DEF Noticed
<1>11. BuyInv(s)' /\ ServeInv(s)'
  <2>1. OneOwed(s)'
    BY <1>0, <1>5, <1>9 DEF IInv, BuyInv, OneOwed
  <2>2. DoorView(Loop, s)'
    BY Roles DEF DoorView
  <2>3. BuyInv(s)'
    BY <1>0, <1>5, <1>9, <1>10, <2>1, <2>2, Buys
  <2>4. ~ InDoubt(s)' /\ DayCounted(s) /\ Fresh(Loop, s) => DayCounted(s)'
    BY <1>0, <1>1, <1>4, <1>5, <1>9 DEF DayCounted, InDoubt
  <2>5. Fresh(Loop, s)'
    BY <1>0, <1>2, <1>3 DEF Fresh, At
  <2> QED BY <1>0, <1>5, <1>10, <2>3, <2>4, <2>5, Serves
<1>12. MindsOnly(Loop, s)
  BY <1>0, <1>1, <1>2, <1>3 DEF MindsOnly
<1> QED BY <1>0, <1>3, <1>4, <1>6, <1>7, <1>8, <1>11, <1>12, StepOn

\* A process that has done with s and changed nothing.
LEMMA GiveUpStep ==
  ASSUME IInv, NEW q \in Process, NEW s \in Daily, NEW new \in ProcessState,
         Go(q, new), ~ Midway(q, s), ~ At(q, "sync"), proc[q].s \in {s, None},
         \/ new = Idle
         \/ q = Loop /\ new = BrokenOff /\ proc[Loop].phase # "none",
         used' \in [{"days", "topups", "events", "faults"} -> Nat],
         UNCHANGED <<row, balance, queue, batch, behind, history>>
  PROVE  IInv'
<1>0. TypeInv /\ s # None
  BY DailyAssumption DEF IInv
<1>1. /\ proc' \in [Process -> ProcessState] /\ proc'[q] = new
      /\ \A r \in Others(q) : Bystander(r)
  BY <1>0, Going
<1>2. /\ new.pc \in {"idle", "next"} /\ new.s = None /\ s \notin new.todo
      /\ new.pc # "idle" => q = Loop /\ new.phase # "none"
      /\ new.todo # {} => /\ new.todo \subseteq proc[q].todo /\ new.phase = proc[q].phase
                          /\ proc[q].old \ {s} \subseteq new.old
  BY <1>0, IdleType, BrokenOffType
<1>3. TypeInv'
  <2>1. TypeOK'
    BY <1>0, <1>1, TypeParts DEF TypeOK, history
  <2>2. (Stations /\ Phased /\ \A r \in Process : InTheHand(r))'
    BY <1>0, <1>1, <1>2, Stationed, Roles
  <2> QED BY <2>1, <2>2 DEF TypeInv
<1>4. LaggingIsKnown'
  BY <1>0, <1>1, LaggingStep DEF history
<1>5. ASSUME NEW u \in Daily PROVE SameRow(u) /\ SameBooks(u) /\ Unmoved(q, u)
  <2>1. u # None
    BY DailyAssumption
  <2>2. Unmoved(q, u)
    BY <2>1, <1>1, <1>2 DEF Unmoved, Midway
  <2> QED BY <2>2 DEF SameRow, SameBooks, history
<1> QED BY <1>1, <1>3, <1>4, <1>5, QuietStep

-----------------------------------------------------------------------------
(* The top-up. *)

\* A process that takes s up: what it read is the row as it is.
LEMMA TakeUpStep ==
  ASSUME IInv, NEW q \in Process \ {Loop}, NEW s \in Daily, NEW new \in ProcessState, Go(q, new),
         proc[q] = Idle, new.todo = {}, new.old = {},
         new = Idle \/ (new.pc = "decide" /\ new.s = s),
         q \in TopUp /\ new.pc = "decide" => Inactive(s),
         q \in Door /\ new.pc = "decide" => (new.inactive <=> Inactive(s)),
         balance' \in [Daily -> Nat], used' \in [{"days", "topups", "events", "faults"} -> Nat],
         UNCHANGED <<row, queue, batch, behind, history>>
  PROVE  IInv'
<1>0. TypeInv /\ s # None
  BY DailyAssumption DEF IInv
<1>1. /\ proc' \in [Process -> ProcessState] /\ proc'[q] = new
      /\ \A r \in Others(q) : Bystander(r)
  BY <1>0, Going
<1>2. TypeInv'
  <2>1. TypeOK'
    BY <1>0, <1>1, TypeParts DEF TypeOK, history
  <2>2. (Stations /\ Phased /\ \A r \in Process : InTheHand(r))'
    BY <1>0, <1>1, IdleType, Stationed, Roles
  <2> QED BY <2>1, <2>2 DEF TypeInv
<1>3. LaggingIsKnown'
  BY <1>0, <1>1, IdleType, LaggingStep DEF At, history
<1>4. \A u \in Daily : SameRow(u) /\ SameBooks(u)
  BY DEF SameRow, SameBooks, history
<1>5. OneMidway(s)' /\ (Amid(s)' <=> Amid(s))
  BY <1>0, <1>1, IdleType, Staying DEF Midway, IInv, BuyInv, history
<1>6. Noticed(q, s) /\ raced' = raced /\ torn' = torn /\ cut' = cut
  BY <1>1, <1>4 DEF Noticed, history
<1>7. BuyInv(s)' /\ ServeInv(s)'
  <2>1. OneOwed(s)'
    BY <1>4, <1>5 DEF IInv, BuyInv, OneOwed, SameBooks
  <2>2. Inactive(s)' <=> Inactive(s)
    BY DEF Inactive
  <2>3. DoorView(q, s)'
    BY <1>0, <1>1, <2>2, IdleType DEF DoorView, At
  <2>4. BuyInv(s)'
    BY <1>5, <1>6, <2>1, <2>3, Buys
  <2>5. DayCounted(s) => DayCounted(s)'
    BY <1>4, <1>5 DEF DayCounted, SameRow, SameBooks
  <2>6. Fresh(q, s)'
    BY <1>0, <1>1, <2>2, IdleType DEF Fresh, At
  <2> QED BY <1>6, <2>4, <2>5, <2>6, Serves
<1>8. MindsOnly(q, s)
  BY <1>0, <1>1, IdleType DEF MindsOnly
<1> QED BY <1>1, <1>2, <1>3, <1>4, <1>7, <1>8, StepOn

LEMMA CreditStep ==
  ASSUME IInv, NEW t \in TopUp, NEW s \in Daily, NEW a \in Amount, Credit(t, s, a)
  PROVE  IInv'
<1>0. TypeInv /\ t \in Process \ {Loop} /\ t \notin Door
  BY Roles DEF IInv
<1>1. balance' \in [Daily -> Nat]
  <2>1. balance[s] \in Nat /\ a \in Nat
    BY <1>0, TypeParts, PriceAssumption
  <2>2. balance' = [balance EXCEPT ![s] = balance[s] + a]
    BY DEF Credit
  <2> QED BY <1>0, <2>1, <2>2, TypeParts
<1>2. used' \in [{"days", "topups", "events", "faults"} -> Nat]
  BY <1>0, Using DEF Credit
<1>3. CASE Inactive(s) /\ ~ row[s].paused
  <2> DEFINE new == [Idle EXCEPT !.pc = "decide", !.s = s]
  <2>1. /\ new \in ProcessState /\ new.pc = "decide" /\ new.s = s
        /\ new.todo = {} /\ new.old = {}
    BY DEF Idle, ProcessState, PC
  <2>2. Go(t, new)
    BY <1>3 DEF Credit
  <2> HIDE DEF new
  <2> QED BY <1>0, <1>1, <1>2, <1>3, <2>1, <2>2, TakeUpStep DEF Credit
<1>4. CASE ~ (Inactive(s) /\ ~ row[s].paused)
  <2>1. Go(t, Idle)
    BY <1>4 DEF Credit
  <2>2. Idle \in ProcessState /\ Idle.pc # "decide" /\ Idle.todo = {} /\ Idle.old = {}
    BY IdleType
  <2>3. proc[t] = Idle /\ UNCHANGED <<row, queue, batch, behind, history>>
    BY DEF Credit
  <2> QED BY <1>0, <1>1, <1>2, <2>1, <2>2, <2>3, TakeUpStep
<1> QED BY <1>3, <1>4

LEMMA PressStep == ASSUME IInv, NEW q \in Door, NEW s \in Daily, Press(q, s) PROVE IInv'
<1>0. TypeInv /\ q \in Process \ {Loop} /\ q \notin TopUp
  BY Roles DEF IInv
<1> DEFINE new == [Idle EXCEPT !.pc = "decide", !.s = s, !.inactive = Inactive(s),
                               !.paused = row[s].paused]
<1>1. row[s].paused \in BOOLEAN /\ Inactive(s) \in BOOLEAN
  BY <1>0, TypeParts DEF Row, Inactive
<1>2. /\ new \in ProcessState /\ new.pc = "decide" /\ new.s = s /\ new.todo = {} /\ new.old = {}
      /\ new.inactive = Inactive(s)
  BY <1>1 DEF Idle, ProcessState, PC
<1>3. Go(q, new)
  BY DEF Press
<1>4. /\ used' \in [{"days", "topups", "events", "faults"} -> Nat]
      /\ balance' \in [Daily -> Nat]
  BY <1>0, Using, TypeParts DEF Press
<1> HIDE DEF new
<1> QED BY <1>0, <1>2, <1>3, <1>4, TakeUpStep DEF Press

LEMMA NotResumedStep ==
  ASSUME IInv, NEW q \in Process \ {Loop}, NEW s \in Daily, GiveUp(q, s) \/ Refuse(q, s)
  PROVE  IInv'
<1>1. /\ At(q, "decide") /\ s = proc[q].s /\ Go(q, Idle)
      /\ UNCHANGED <<row, balance, queue, batch, behind, history, used>>
  BY DEF GiveUp, Refuse
<1>2. TypeInv /\ used' \in [{"days", "topups", "events", "faults"} -> Nat]
  BY <1>1, TypeParts DEF IInv
<1> QED BY <1>1, <1>2, IdleType, GiveUpStep DEF Midway, At

\* The charge by itself: q enters the middle.
LEMMA ChargeFirstStep ==
  ASSUME IInv, NEW q \in TopUp \cup Door, NEW s \in Daily, NEW memory,
         memory.inactive \in BOOLEAN, memory.paused \in BOOLEAN,
         At(q, "decide"), s = proc[q].s, Affordable(s), ChargeFirst(q, s, memory),
         q \in Door => proc[q].inactive /\ (memory.inactive <=> Inactive(s))
  PROVE  IInv'
<1>0. /\ TypeInv /\ q \in Process /\ q # Loop /\ s # None /\ proc[q] \in ProcessState
      /\ UNCHANGED <<row, queue, batch, behind, missed, torn, cut, used>>
  BY TypeParts, Roles, DailyAssumption DEF IInv, ChargeFirst
<1> DEFINE new == [proc[q] EXCEPT !.pc = "activate", !.inactive = memory.inactive,
                                  !.paused = memory.paused]
<1>1. /\ new \in ProcessState /\ new.pc = "activate" /\ new.s = s /\ new.inactive = memory.inactive
      /\ new.todo = proc[q].todo /\ new.phase = proc[q].phase /\ new.old = proc[q].old
  BY <1>0 DEF ProcessState, PC
<1>2. Go(q, new)
  BY DEF ChargeFirst
<1> HIDE DEF new
<1>3. /\ proc' \in [Process -> ProcessState] /\ proc'[q] = new
      /\ \A r \in Others(q) : Bystander(r)
  BY <1>0, <1>1, <1>2, Going
<1>4. /\ balance' \in [Daily -> Nat] /\ today' \in [Daily -> Nat] /\ today'[s] = today[s] + 1
      /\ \A u \in Daily \ {s} : today'[u] = today[u]
  BY <1>0, Paying DEF ChargeFirst
<1>5. /\ owed' \in [Daily -> Int] /\ owed'[s] = owed[s] + 1
      /\ \A u \in Daily \ {s} : owed'[u] = owed[u]
  BY <1>0, Owing DEF ChargeFirst
<1>6. /\ raced' \subseteq Daily /\ raced \subseteq raced' /\ raced' \subseteq raced \cup {s}
      /\ s \notin raced' => s \notin proc[q].old /\ \A r \in Others(q) : ~ Midway(r, s)
  BY <1>0, Racing DEF ChargeFirst
<1>7. TypeInv'
  <2>1. TypeOK'
    BY <1>0, <1>3, <1>4, <1>5, <1>6, TypeParts, Typed
  <2>2. (Stations /\ Phased /\ \A r \in Process : InTheHand(r))'
    BY <1>0, <1>1, <1>3, Stationed, Roles
  <2> QED BY <2>1, <2>2 DEF TypeInv
<1>8. LaggingIsKnown'
  BY <1>0, <1>3, LaggingStep DEF At
<1>9. /\ \A u \in Daily \ {s} : SameBooks(u)
      /\ SameRow(s) /\ Noticed(q, s)
  BY <1>0, <1>3, <1>4, <1>5, <1>6 DEF SameBooks, SameRow, Noticed
<1>10. /\ OneMidway(s)' /\ Amid(s)'
       /\ s \notin raced' => ~ Amid(s)
  <2>1. ~ Midway(q, s) /\ Midway(q, s)'
    BY <1>1, <1>3 DEF Midway, At
  <2> QED BY <2>1, <1>0, <1>3, <1>6, Entering
<1>11. q \in Door /\ s \notin raced' => Inactive(s)
  BY <1>0, <1>6 DEF IInv, BuyInv, DoorView
<1>12. BuyInv(s)' /\ ServeInv(s)'
  <2>1. OneOwed(s)'
    BY <1>0, <1>5, <1>6, <1>10 DEF IInv, BuyInv, OneOwed
  <2>2. DoorView(q, s)'
    BY <1>1, <1>3, <1>11 DEF DoorView, At
  <2>3. BuyInv(s)'
    BY <1>0, <1>6, <1>9, <1>10, <2>1, <2>2, Buys
  <2>4. ~ InDoubt(s)' /\ DayCounted(s) /\ Fresh(q, s) => DayCounted(s)'
    <3> SUFFICES ASSUME s \notin raced', DayCounted(s), Fresh(q, s) PROVE DayCounted(s)'
      BY DEF InDoubt
    <3>1. Inactive(s)
      BY <1>6, <1>11 DEF Fresh
    <3>2. row[s].due
      BY <3>1 DEF DayCounted, Inactive
    <3> QED BY <3>2, <1>0, <1>4, <1>10 DEF DayCounted
  <2>5. Fresh(q, s) => Fresh(q, s)'
    BY <1>0, <1>1, <1>3 DEF Fresh, At
  <2> QED BY <1>0, <1>6, <1>9, <2>3, <2>4, <2>5, Serves
<1>13. MindsOnly(q, s)
  BY <1>0, <1>1, <1>3 DEF MindsOnly
<1> QED BY <1>0, <1>3, <1>7, <1>8, <1>9, <1>12, <1>13, StepOn

LEMMA ChargeAfterTopUpStep ==
  ASSUME IInv, NEW t \in TopUp, NEW s \in Daily, ChargeAfterTopUp(t, s)
  PROVE  IInv'
<1> DEFINE memory == [inactive |-> TRUE, paused |-> FALSE]
<1>1. memory.inactive \in BOOLEAN /\ memory.paused \in BOOLEAN /\ t \notin Door
  BY Roles
<1>2. At(t, "decide") /\ s = proc[t].s /\ Affordable(s) /\ ChargeFirst(t, s, memory)
  BY DEF ChargeAfterTopUp, Resumable
<1> HIDE DEF memory
<1> QED BY <1>1, <1>2, ChargeFirstStep

LEMMA ChargeToResumeStep ==
  ASSUME IInv, NEW q \in Door, NEW s \in Daily, ChargeToResume(q, s)
  PROVE  IInv'
<1> DEFINE memory == [inactive |-> Inactive(s), paused |-> row[s].paused]
<1>1. /\ memory.inactive \in BOOLEAN /\ memory.paused \in BOOLEAN
      /\ memory.inactive <=> Inactive(s)
  <2>1. row[s] \in Row /\ Inactive(s) \in BOOLEAN
    BY TypeParts DEF IInv, Inactive
  <2>2. row[s].paused \in BOOLEAN
    BY <2>1 DEF Row
  <2> QED BY <2>1, <2>2
<1>2. /\ At(q, "decide") /\ s = proc[q].s /\ proc[q].inactive /\ Affordable(s)
      /\ ChargeFirst(q, s, memory)
  BY DEF ChargeToResume
<1> HIDE DEF memory
<1> QED BY <1>1, <1>2, ChargeFirstStep

LEMMA ActivateStep == ASSUME IInv, NEW t \in TopUp, NEW s \in Daily, Activate(t, s) PROVE IInv'
<1>0. /\ TypeInv /\ t \in Process /\ t # Loop /\ t \notin Door /\ s # None
      /\ proc[t] \in ProcessState /\ At(t, "activate") /\ s = proc[t].s
      /\ UNCHANGED <<balance, queue, batch, behind, missed, owed, today, torn, cut, used>>
  BY TypeParts, Roles, DailyAssumption DEF IInv, Activate
<1> DEFINE new == [proc[t] EXCEPT !.pc = "mark"]
<1>1. /\ new \in ProcessState /\ new.pc = "mark" /\ new.s = s
      /\ new.todo = proc[t].todo /\ new.phase = proc[t].phase /\ new.old = proc[t].old
  BY <1>0 DEF ProcessState, PC
<1>2. GoChanging(t, new, s)
  BY DEF Activate
<1> HIDE DEF new
<1>3. /\ proc' \in [Process -> ProcessState] /\ proc'[t] = new
      /\ \A r \in Others(t) : Warned(r, s) /\ Bystander(r)
  BY <1>0, <1>1, <1>2, GoingChanging DEF Warned
<1>4. /\ row' \in [Daily -> Row] /\ row'[s].status = "ACTIVE" /\ row'[s].due = row[s].due
      /\ \A u \in Daily \ {s} : row'[u] = row[u]
  BY <1>0, Written DEF Activate, Status
<1>5. /\ raced' \subseteq Daily /\ raced \subseteq raced' /\ raced' \subseteq raced \cup {s}
      /\ s \notin raced' => s \notin proc[t].old /\ \A r \in Others(t) : ~ Midway(r, s)
  BY <1>0, Racing DEF Activate
<1>6. TypeInv'
  <2>1. TypeOK'
    BY <1>0, <1>3, <1>4, <1>5, TypeParts, Typed
  <2>2. (Stations /\ Phased /\ \A r \in Process : InTheHand(r))'
    BY <1>0, <1>1, <1>3, Stationed, Roles
  <2> QED BY <2>1, <2>2 DEF TypeInv
<1>7. LaggingIsKnown'
  BY <1>0, <1>3, LaggingStep DEF At
<1>8. (\A u \in Daily \ {s} : SameBooks(u)) /\ Noticed(t, s)
  BY <1>0, <1>3, <1>5 DEF SameBooks, Noticed
<1>9. OneMidway(s)' /\ (Amid(s)' <=> Amid(s))
  <2>1. Midway(t, s)' <=> Midway(t, s)
    BY <1>0, <1>1, <1>3 DEF Midway, At
  <2> QED BY <2>1, <1>0, <1>3, <1>5, Staying DEF IInv, BuyInv
<1>10. BuyInv(s)' /\ ServeInv(s)'
  <2>1. OneOwed(s)'
    BY <1>0, <1>5, <1>9 DEF IInv, BuyInv, OneOwed
  <2>2. DoorView(t, s)'
    BY <1>0 DEF DoorView
  <2>3. BuyInv(s)'
    BY <1>0, <1>5, <1>8, <1>9, <2>1, <2>2, Buys
  <2>4. DayCounted(s) => DayCounted(s)'
    BY <1>0, <1>4, <1>9 DEF DayCounted
  <2>5. Fresh(t, s) => Fresh(t, s)'
    BY <1>0, <1>1, <1>3, <1>4 DEF Fresh, At
  <2> QED BY <1>0, <1>5, <1>8, <2>3, <2>4, <2>5, Serves
<1>11. MindsOnly(t, s)
  BY <1>0, <1>1, <1>3 DEF MindsOnly
<1> QED BY <1>0, <1>3, <1>4, <1>6, <1>7, <1>8, <1>10, <1>11, StepOn

\* The refund, or its failure.
LEMMA ActivationFailsStep ==
  ASSUME IInv, NEW t \in TopUp, NEW s \in Daily, ActivationFails(t, s)
  PROVE  IInv'
<1>0. /\ TypeInv /\ t \in Process /\ t # Loop /\ t \notin Door /\ s # None
      /\ At(t, "activate") /\ s = proc[t].s /\ Go(t, Idle)
      /\ UNCHANGED <<row, queue, batch, behind, missed, raced, cut>>
  BY TypeParts, Roles, DailyAssumption DEF IInv, ActivationFails
<1>1. /\ proc' \in [Process -> ProcessState] /\ proc'[t] = Idle
      /\ \A r \in Others(t) : Bystander(r)
  BY <1>0, IdleType, Going
<1>2. used' \in [{"days", "topups", "events", "faults"} -> Nat]
  BY <1>0, Using DEF ActivationFails
<1>3. /\ balance' \in [Daily -> Nat] /\ today' \in [Daily -> Nat] /\ owed' \in [Daily -> Int]
      /\ torn' \subseteq Daily /\ torn \subseteq torn'
      /\ \A u \in Daily \ {s} : /\ today'[u] = today[u] /\ owed'[u] = owed[u]
                                /\ u \in torn' <=> u \in torn
      /\ s \notin torn' => owed'[s] = owed[s] - 1 /\ today'[s] = IF today[s] > 0 THEN today[s] - 1 ELSE 0
  <2>1. CASE torn' = torn \cup {s} /\ UNCHANGED <<balance, owed, today>>
    BY <2>1, <1>0, TypeParts
  <2>2. CASE /\ balance' = [balance EXCEPT ![s] = @ + Price]
             /\ today' = [today EXCEPT ![s] = IF @ > 0 THEN @ - 1 ELSE 0]
             /\ Owe(s, -1) /\ UNCHANGED torn
    <3>1. balance[s] + Price \in Nat /\ (IF today[s] > 0 THEN today[s] - 1 ELSE 0) \in Nat
      <4>1. balance[s] \in Nat /\ today[s] \in Nat /\ Price \in Nat
        BY <1>0, TypeParts, PriceAssumption
      <4> QED BY <4>1
    <3>2. /\ owed' \in [Daily -> Int] /\ owed'[s] = owed[s] + (-1)
          /\ \A u \in Daily \ {s} : owed'[u] = owed[u]
      BY <2>2, <1>0, Owing
    <3>3. owed'[s] = owed[s] - 1
      BY <3>2, <1>0, TypeParts
    <3>4. /\ balance' = [balance EXCEPT ![s] = balance[s] + Price]
          /\ today' = [today EXCEPT ![s] = IF today[s] > 0 THEN today[s] - 1 ELSE 0]
      BY <2>2
    <3> QED BY <2>2, <3>1, <3>2, <3>3, <3>4, <1>0, TypeParts
  <2> QED BY <2>1, <2>2 DEF ActivationFails
<1>4. TypeInv'
  <2>1. TypeOK'
    BY <1>0, <1>1, <1>2, <1>3, TypeParts, Typed
  <2>2. (Stations /\ Phased /\ \A r \in Process : InTheHand(r))'
    BY <1>0, <1>1, IdleType, Stationed, Roles
  <2> QED BY <2>1, <2>2 DEF TypeInv
<1>5. LaggingIsKnown'
  BY <1>0, <1>1, LaggingStep DEF At
<1>6. (\A u \in Daily \ {s} : SameBooks(u)) /\ SameRow(s) /\ Noticed(t, s)
  BY <1>0, <1>1, <1>3 DEF SameBooks, SameRow, Noticed
<1>7. OneMidway(s)' /\ Amid(s) /\ (s \notin raced => ~ Amid(s)')
  <2>1. Midway(t, s) /\ ~ Midway(t, s)'
    BY <1>0, <1>1, IdleType DEF Midway, At
  <2> QED BY <2>1, <1>0, <1>1, Leaving DEF IInv, BuyInv
<1>8. BuyInv(s)' /\ ServeInv(s)'
  <2>1. OneOwed(s)'
    BY <1>0, <1>3, <1>7 DEF IInv, BuyInv, OneOwed
  <2>2. DoorView(t, s)'
    BY <1>0 DEF DoorView
  <2>3. BuyInv(s)'
    BY <1>0, <1>6, <1>7, <2>1, <2>2, Buys
  <2>4. ~ InDoubt(s)' /\ DayCounted(s) => DayCounted(s)'
    BY <1>0, <1>3, <1>7 DEF DayCounted, InDoubt
  <2>5. Fresh(t, s)'
    BY <1>0, <1>1, IdleType DEF Fresh, At
  <2> QED BY <1>0, <1>3, <1>6, <2>3, <2>4, <2>5, Serves
<1>9. MindsOnly(t, s)
  BY <1>0, <1>1, IdleType DEF MindsOnly
<1> QED BY <1>0, <1>1, <1>4, <1>5, <1>6, <1>8, <1>9, StepOn

\* The day is given: q leaves the middle, and nobody else was in it unless s is
\* raced, so that the day was unpaid and charged once.
LEMMA GiveDayStep ==
  ASSUME IInv, NEW q \in TopUp \cup Door, NEW s \in Daily, Midway(q, s),
         GoChanging(q, Telling(s), s), Race(q, s), behind' = behind \cup {s},
         UNCHANGED <<balance, queue, batch, missed, today, torn, cut, used>>,
         row' \in [Daily -> Row], owed' \in [Daily -> Int],
         \A u \in Daily \ {s} : row'[u] = row[u] /\ owed'[u] = owed[u],
         s \notin raced' => owed'[s] = owed[s] - 1 /\ ~ row'[s].due,
         ~ InDoubt(s)' => row'[s].status = "ACTIVE"
  PROVE  IInv'
<1>0. TypeInv /\ q \in Process /\ q # Loop /\ s # None /\ proc[q].s = s /\ ~ At(q, "sync")
  BY Roles, DailyAssumption DEF IInv, Midway, At
<1>1. /\ proc' \in [Process -> ProcessState] /\ proc'[q] = Telling(s)
      /\ \A r \in Others(q) : Warned(r, s) /\ Bystander(r)
  BY <1>0, TellingType, GoingChanging DEF Warned
<1>2. /\ raced' \subseteq Daily /\ raced \subseteq raced' /\ raced' \subseteq raced \cup {s}
      /\ s \notin raced' => s \notin proc[q].old /\ \A r \in Others(q) : ~ Midway(r, s)
  BY <1>0, Racing
<1>3. TypeInv'
  <2>1. TypeOK'
    BY <1>0, <1>1, <1>2, TypeParts, Typed
  <2>2. (Stations /\ Phased /\ \A r \in Process : InTheHand(r))'
    BY <1>0, <1>1, TellingType, Stationed, Roles
  <2> QED BY <2>1, <2>2 DEF TypeInv
<1>4. LaggingIsKnown'
  BY <1>0, <1>1, TellingType, LaggingStep
<1>5. (\A u \in Daily \ {s} : SameBooks(u)) /\ Noticed(q, s)
  BY <1>0, <1>1, <1>2 DEF SameBooks, Noticed
<1>6. OneMidway(s)' /\ Amid(s) /\ (s \notin raced => ~ Amid(s)')
  <2>1. ~ Midway(q, s)'
    BY <1>1, TellingType DEF Midway
  <2> QED BY <2>1, <1>0, <1>1, <1>2, Leaving DEF IInv, BuyInv
<1>7. BuyInv(s)' /\ ServeInv(s)'
  <2>1. OneOwed(s)'
    BY <1>2, <1>6 DEF IInv, BuyInv, OneOwed
  <2>2. DoorView(q, s)'
    BY <1>1, TellingType DEF DoorView, At
  <2>3. BuyInv(s)'
    BY <1>0, <1>2, <1>5, <1>6, <2>1, <2>2, Buys
  <2>4. ~ InDoubt(s)' /\ DayCounted(s) => DayCounted(s)'
    <3> SUFFICES ASSUME ~ InDoubt(s)', DayCounted(s) PROVE DayCounted(s)'
      OBVIOUS
    <3>1. row[s].due /\ today[s] = 1
      BY <1>6 DEF DayCounted
    <3>2. ~ row'[s].due /\ row'[s].status = "ACTIVE" /\ ~ Amid(s)'
      BY <1>2, <1>6 DEF InDoubt
    <3> QED BY <3>1, <3>2 DEF DayCounted
  <2>5. Fresh(q, s)'
    BY <1>0, <1>1, TellingType DEF Fresh, At
  <2> QED BY <1>0, <1>2, <1>5, <2>3, <2>4, <2>5, Serves
<1>8. MindsOnly(q, s)
  BY <1>0, <1>1, TellingType DEF MindsOnly
<1> QED BY <1>0, <1>1, <1>3, <1>4, <1>5, <1>7, <1>8, StepOn

LEMMA MarkStep == ASSUME IInv, NEW t \in TopUp, NEW s \in Daily, Mark(t, s) PROVE IInv'
<1>0. /\ TypeInv /\ Midway(t, s) /\ At(t, "mark")
      /\ t \in Process /\ t \in TopUp \cup Door
      /\ GoChanging(t, Telling(s), s) /\ Race(t, s) /\ behind' = behind \cup {s}
      /\ UNCHANGED <<balance, queue, batch, missed, today, torn, cut, used>>
  BY Roles DEF IInv, Mark, Midway, At
<1>1. /\ row' \in [Daily -> Row] /\ row'[s].status = row[s].status /\ ~ row'[s].due
      /\ \A u \in Daily \ {s} : row'[u] = row[u]
  BY <1>0, Written DEF Mark
<1>2. /\ owed' \in [Daily -> Int] /\ owed'[s] = owed[s] - 1
      /\ \A u \in Daily \ {s} : owed'[u] = owed[u]
  <2>1. Owe(s, -1) /\ -1 \in Int /\ owed[s] \in Int
    BY <1>0, TypeParts DEF Mark
  <2> QED BY <2>1, <1>0, Owing
<1>3. ASSUME ~ InDoubt(s)' PROVE row'[s].status = "ACTIVE"
  <2>1. s \notin proc[t].old /\ raced \subseteq raced'
    BY <1>0, <1>3, Racing DEF InDoubt
  <2>2. Fresh(t, s)
    BY <1>0, <1>3, <2>1 DEF IInv, ServeInv, InDoubt
  <2> QED BY <1>0, <1>1, <2>1, <2>2 DEF Fresh, Midway
<1> QED BY <1>0, <1>1, <1>2, <1>3, GiveDayStep

\* The day is lost: s is torn, and the panel is told all the same.
LEMMA MarkFailsStep == ASSUME IInv, NEW t \in TopUp, NEW s \in Daily, MarkFails(t, s) PROVE IInv'
<1>0. /\ TypeInv /\ t \in Process /\ t # Loop /\ t \notin Door /\ s # None
      /\ Midway(t, s) /\ proc[t].s = s /\ ~ At(t, "sync")
      /\ Go(t, Telling(s)) /\ torn' = torn \cup {s} /\ behind' = behind \cup {s}
      /\ UNCHANGED <<row, balance, queue, batch, missed, owed, today, raced, cut>>
  BY Roles, DailyAssumption DEF IInv, MarkFails, Midway, At
<1>1. /\ proc' \in [Process -> ProcessState] /\ proc'[t] = Telling(s)
      /\ \A r \in Others(t) : Bystander(r)
  BY <1>0, TellingType, Going
<1>2. used' \in [{"days", "topups", "events", "faults"} -> Nat]
  BY <1>0, Using DEF MarkFails
<1>3. TypeInv'
  <2>1. TypeOK'
    BY <1>0, <1>1, <1>2, TypeParts, Typed
  <2>2. (Stations /\ Phased /\ \A r \in Process : InTheHand(r))'
    BY <1>0, <1>1, TellingType, Stationed, Roles
  <2> QED BY <2>1, <2>2 DEF TypeInv
<1>4. LaggingIsKnown'
  BY <1>0, <1>1, TellingType, LaggingStep
<1>5. (\A u \in Daily \ {s} : SameBooks(u)) /\ SameRow(s) /\ Noticed(t, s)
  BY <1>0, <1>1 DEF SameBooks, SameRow, Noticed
<1>6. OneMidway(s)'
  <2>1. ~ Midway(t, s)'
    BY <1>1, TellingType DEF Midway
  <2> QED BY <2>1, <1>0, <1>1, Leaving DEF IInv, BuyInv
<1>7. BuyInv(s)' /\ ServeInv(s)'
  <2>1. OneOwed(s)' /\ DoorView(t, s)' /\ InDoubt(s)'
    BY <1>0 DEF OneOwed, DoorView, InDoubt
  <2> QED BY <1>0, <1>5, <1>6, <2>1, Buys DEF ServeInv
<1>8. MindsOnly(t, s)
  BY <1>0, <1>1, TellingType DEF MindsOnly
<1> QED BY <1>0, <1>1, <1>3, <1>4, <1>5, <1>7, <1>8, StepOn

-----------------------------------------------------------------------------
(* The toggles. *)

\* Only is_daily_paused is written.
LEMMA PauseStep ==
  ASSUME IInv, NEW q \in Process \ {Loop}, NEW s \in Daily, NEW b \in BOOLEAN,
         proc[q] = Idle \/ (At(q, "decide") /\ proc[q].s = s),
         Write(s, [row[s] EXCEPT !.paused = b]), GoChanging(q, Idle, s),
         used' \in [{"days", "topups", "events", "faults"} -> Nat],
         UNCHANGED <<balance, queue, batch, behind, history>>
  PROVE  IInv'
<1>0. TypeInv /\ s # None /\ ~ At(q, "sync") /\ proc[q].pc \notin {"activate", "mark"}
  BY IdleType, DailyAssumption DEF IInv, At
<1>1. /\ proc' \in [Process -> ProcessState] /\ proc'[q] = Idle
      /\ \A r \in Others(q) : Bystander(r)
  BY <1>0, IdleType, GoingChanging DEF Warned
<1>2. row' \in [Daily -> Row] /\ SameRow(s) /\ \A u \in Daily \ {s} : row'[u] = row[u]
  BY <1>0, Written
<1>3. TypeInv'
  <2>1. TypeOK'
    BY <1>0, <1>1, <1>2, TypeParts, Typed DEF history
  <2>2. (Stations /\ Phased /\ \A r \in Process : InTheHand(r))'
    BY <1>0, <1>1, IdleType, Stationed, Roles
  <2> QED BY <2>1, <2>2 DEF TypeInv
<1>4. LaggingIsKnown'
  BY <1>0, <1>1, LaggingStep DEF history
<1>5. ASSUME NEW u \in Daily PROVE SameRow(u) /\ SameBooks(u) /\ Unmoved(q, u)
  <2>1. u # None
    BY DailyAssumption
  <2>2. Unmoved(q, u)
    BY <2>1, <1>0, <1>1, IdleType DEF Unmoved, Midway
  <2>3. SameRow(u)
    BY <1>2 DEF SameRow
  <2> QED BY <2>2, <2>3 DEF SameBooks, history
<1> QED BY <1>1, <1>3, <1>4, <1>5, QuietStep

\* Whatever is charged and given is charged and given at once, and the panel is
\* told: nobody was in the middle, unless s is raced.
LEMMA AtOnceStep ==
  ASSUME IInv, NEW q \in {Bot, Miniapp}, NEW s \in Daily,
         proc[q] = Idle \/ (At(q, "decide") /\ proc[q].s = s),
         GoChanging(q, Telling(s), s), Race(q, s), behind' = behind \cup {s},
         UNCHANGED <<queue, batch, missed, torn, cut>>,
         row' \in [Daily -> Row], owed' \in [Daily -> Int], today' \in [Daily -> Nat],
         balance' \in [Daily -> Nat], used' \in [{"days", "topups", "events", "faults"} -> Nat],
         \A u \in Daily \ {s} : row'[u] = row[u] /\ owed'[u] = owed[u] /\ today'[u] = today[u],
         s \notin raced' => owed'[s] = owed[s],
         s \notin raced' /\ DayCounted(s) /\ ~ Amid(s) =>
           \/ SameRow(s) /\ today'[s] = today[s]
           \/ ~ row'[s].due /\ row'[s].status = "ACTIVE" /\ today'[s] = 1
  PROVE  IInv'
<1>0. /\ TypeInv /\ q \in Process /\ q # Loop /\ q \notin TopUp /\ s # None
      /\ proc[q].s \in {s, None} /\ ~ At(q, "sync") /\ proc[q].pc \notin {"activate", "mark"}
  BY Roles, IdleType, DailyAssumption DEF IInv, At
<1>1. /\ proc' \in [Process -> ProcessState] /\ proc'[q] = Telling(s)
      /\ \A r \in Others(q) : Warned(r, s) /\ Bystander(r)
  BY <1>0, TellingType, GoingChanging DEF Warned
<1>2. /\ raced' \subseteq Daily /\ raced \subseteq raced' /\ raced' \subseteq raced \cup {s}
      /\ s \notin raced' => s \notin proc[q].old /\ \A r \in Others(q) : ~ Midway(r, s)
  BY <1>0, Racing
<1>3. TypeInv'
  <2>1. TypeOK'
    BY <1>0, <1>1, <1>2, TypeParts, Typed
  <2>2. (Stations /\ Phased /\ \A r \in Process : InTheHand(r))'
    BY <1>0, <1>1, TellingType, Stationed, Roles
  <2> QED BY <2>1, <2>2 DEF TypeInv
<1>4. LaggingIsKnown'
  BY <1>0, <1>1, TellingType, LaggingStep
<1>5. (\A u \in Daily \ {s} : SameBooks(u)) /\ Noticed(q, s)
  BY <1>0, <1>1, <1>2 DEF SameBooks, Noticed
<1>6. ~ Midway(q, s) /\ ~ Midway(q, s)'
  BY <1>0, <1>1, TellingType DEF Midway
<1>7. OneMidway(s)' /\ (Amid(s)' <=> Amid(s)) /\ (s \notin raced' => ~ Amid(s))
  <2>1. OneMidway(s)' /\ (Amid(s)' <=> Amid(s))
    BY <1>0, <1>1, <1>2, <1>6, Staying DEF IInv, BuyInv
  <2> QED BY <2>1, <1>2, <1>6 DEF Amid, Others
<1>8. BuyInv(s)' /\ ServeInv(s)'
  <2>1. OneOwed(s)'
    BY <1>2, <1>7 DEF IInv, BuyInv, OneOwed
  <2>2. DoorView(q, s)'
    BY <1>1, TellingType DEF DoorView, At
  <2>3. BuyInv(s)'
    BY <1>0, <1>2, <1>5, <1>7, <2>1, <2>2, Buys
  <2>4. ~ InDoubt(s)' /\ DayCounted(s) => DayCounted(s)'
    BY <1>7 DEF DayCounted, InDoubt, SameRow
  <2>5. Fresh(q, s)'
    BY <1>0, <1>1, TellingType DEF Fresh, At
  <2> QED BY <1>0, <1>2, <1>5, <2>3, <2>4, <2>5, Serves
<1>9. MindsOnly(q, s)
  BY <1>0, <1>1, TellingType DEF MindsOnly
<1> QED BY <1>0, <1>1, <1>3, <1>4, <1>5, <1>8, <1>9, StepOn

LEMMA PauseDoorStep ==
  ASSUME IInv, NEW s \in Daily,
         (\E q \in Door : Pause(q, s)) \/ CabinetUnpause(s)
  PROVE  IInv'
<1>1. TypeInv /\ used \in [{"days", "topups", "events", "faults"} -> Nat]
  BY TypeParts DEF IInv
<1>2. ASSUME NEW q \in Door, Pause(q, s) PROVE IInv'
  <2>1. /\ q \in Process \ {Loop} /\ At(q, "decide") /\ proc[q].s = s
        /\ Write(s, [row[s] EXCEPT !.paused = TRUE]) /\ GoChanging(q, Idle, s)
        /\ UNCHANGED <<balance, queue, batch, behind, history, used>>
    BY <1>2, Roles DEF Pause
  <2> QED BY <1>1, <2>1, PauseStep
<1>3. ASSUME CabinetUnpause(s) PROVE IInv'
  <2>1. /\ Cabinet \in Process \ {Loop} /\ At(Cabinet, "decide") /\ proc[Cabinet].s = s
        /\ Write(s, [row[s] EXCEPT !.paused = FALSE]) /\ GoChanging(Cabinet, Idle, s)
        /\ UNCHANGED <<balance, queue, batch, behind, history, used>>
    BY <1>3, Roles DEF CabinetUnpause
  <2> QED BY <1>1, <2>1, PauseStep
<1> QED BY <1>2, <1>3

\* The bot goes by what it charged: unless s is raced, that was inactive.
LEMMA BotResumeStep == ASSUME IInv, NEW s \in Daily, BotResume(s) PROVE IInv'
<1>0. /\ TypeInv /\ Bot \in Process /\ Bot \in Door /\ Bot \in TopUp \cup Door /\ Midway(Bot, s)
      /\ At(Bot, "activate") /\ proc[Bot].s = s /\ proc[Bot] \in ProcessState /\ row[s] \in Row
      /\ GoChanging(Bot, Telling(s), s) /\ Race(Bot, s) /\ behind' = behind \cup {s}
      /\ UNCHANGED <<balance, queue, batch, missed, today, torn, cut, used>>
  BY Roles, TypeParts DEF IInv, BotResume, Midway, At, Door
<1> DEFINE unpaused == [row[s] EXCEPT !.paused = @ /\ ~ proc[Bot].paused]
<1>1. /\ unpaused \in Row
      /\ Write(s, IF proc[Bot].inactive THEN Resumed(unpaused) ELSE unpaused)
  <2>1. (row[s].paused /\ ~ proc[Bot].paused) \in BOOLEAN
    OBVIOUS
  <2>2. unpaused \in Row
    BY <2>1, <1>0 DEF Row
  <2> QED BY <2>2 DEF BotResume
<1> HIDE DEF unpaused
<1>2. /\ owed' \in [Daily -> Int] /\ \A u \in Daily \ {s} : owed'[u] = owed[u]
      /\ proc[Bot].inactive => owed'[s] = owed[s] - 1
  <2>1. CASE proc[Bot].inactive
    <3>1. Owe(s, -1) /\ -1 \in Int /\ owed[s] \in Int
      BY <2>1, <1>0, TypeParts DEF BotResume
    <3> QED BY <3>1, <1>0, Owing
  <2>2. CASE ~ proc[Bot].inactive
    <3>1. Owe(s, 0) /\ 0 \in Int
      BY <2>2 DEF BotResume
    <3> QED BY <2>2, <3>1, <1>0, Owing
  <2> QED BY <2>1, <2>2
<1>3. /\ row' \in [Daily -> Row] /\ \A u \in Daily \ {s} : row'[u] = row[u]
      /\ proc[Bot].inactive => row'[s].status = "ACTIVE" /\ ~ row'[s].due
  <2>1. CASE proc[Bot].inactive
    BY <2>1, <1>0, <1>1, ResumedWritten
  <2>2. CASE ~ proc[Bot].inactive
    BY <2>2, <1>0, <1>1, Writing
  <2> QED BY <2>1, <2>2
<1>4. s \notin raced' => proc[Bot].inactive
  BY <1>0, Racing DEF IInv, BuyInv, DoorView
<1> QED BY <1>0, <1>2, <1>3, <1>4, GiveDayStep DEF InDoubt

LEMMA CabinetResumeStep == ASSUME IInv, NEW s \in Daily, CabinetResume(s) PROVE IInv'
<1>0. /\ TypeInv /\ Cabinet \in TopUp \cup Door /\ Midway(Cabinet, s) /\ row[s] \in Row
      /\ GoChanging(Cabinet, Telling(s), s) /\ Race(Cabinet, s) /\ behind' = behind \cup {s}
      /\ UNCHANGED <<balance, queue, batch, missed, today, torn, cut, used>>
  BY Roles, TypeParts DEF IInv, CabinetResume, Midway, At, Door
<1>1. /\ row' \in [Daily -> Row] /\ row'[s].status = "ACTIVE" /\ ~ row'[s].due
      /\ \A u \in Daily \ {s} : row'[u] = row[u]
  BY <1>0, ResumedWritten DEF CabinetResume
<1>2. /\ owed' \in [Daily -> Int] /\ owed'[s] = owed[s] - 1
      /\ \A u \in Daily \ {s} : owed'[u] = owed[u]
  <2>1. Owe(s, -1) /\ -1 \in Int /\ owed[s] \in Int
    BY <1>0, TypeParts DEF CabinetResume
  <2> QED BY <2>1, <1>0, Owing
<1> QED BY <1>0, <1>1, <1>2, GiveDayStep

\* Read as active: unless s is raced it still is, and no day is given.
LEMMA BotUnpauseStep == ASSUME IInv, NEW s \in Daily, BotUnpause(s) PROVE IInv'
<1>0. /\ TypeInv /\ Bot \in Process /\ Bot \in Door /\ Bot \in {Bot, Miniapp} /\ row[s] \in Row
      /\ At(Bot, "decide") /\ proc[Bot].s = s /\ ~ proc[Bot].inactive
      /\ GoChanging(Bot, Telling(s), s) /\ Race(Bot, s) /\ behind' = behind \cup {s}
      /\ UNCHANGED <<balance, queue, batch, missed, today, torn, cut, used>>
      /\ today' \in [Daily -> Nat] /\ balance' \in [Daily -> Nat]
      /\ used' \in [{"days", "topups", "events", "faults"} -> Nat]
  BY Roles, TypeParts DEF IInv, BotUnpause, Door
<1> DEFINE unpaused == [row[s] EXCEPT !.paused = FALSE]
<1>1. /\ unpaused \in Row /\ unpaused.status = row[s].status /\ unpaused.due = row[s].due
      /\ Write(s, IF Inactive(s) THEN Resumed(unpaused) ELSE unpaused)
  <2>1. unpaused \in Row /\ unpaused.status = row[s].status /\ unpaused.due = row[s].due
    BY <1>0 DEF Row
  <2> QED BY <2>1 DEF BotUnpause
<1> HIDE DEF unpaused
<1>2. s \notin raced' => ~ Inactive(s)
  BY <1>0, Racing DEF IInv, BuyInv, DoorView
<1>3. /\ owed' \in [Daily -> Int] /\ \A u \in Daily \ {s} : owed'[u] = owed[u]
      /\ ~ Inactive(s) => owed'[s] = owed[s]
  <2>1. CASE Inactive(s)
    <3>1. Owe(s, -1) /\ -1 \in Int
      BY <2>1 DEF BotUnpause
    <3> QED BY <2>1, <3>1, <1>0, Owing
  <2>2. CASE ~ Inactive(s)
    <3>1. Owe(s, 0) /\ 0 \in Int /\ owed[s] \in Int
      BY <2>2, <1>0, TypeParts DEF BotUnpause
    <3> QED BY <2>2, <3>1, <1>0, Owing
  <2> QED BY <2>1, <2>2
<1>4. /\ row' \in [Daily -> Row] /\ \A u \in Daily \ {s} : row'[u] = row[u]
      /\ ~ Inactive(s) => SameRow(s)
  <2>1. CASE Inactive(s)
    BY <2>1, <1>0, <1>1, ResumedWritten
  <2>2. CASE ~ Inactive(s)
    BY <2>2, <1>0, <1>1, Writing DEF SameRow
  <2> QED BY <2>1, <2>2
<1> QED BY <1>0, <1>2, <1>3, <1>4, AtOnceStep

LEMMA MiniappToggleStep == ASSUME IInv, NEW s \in Daily, MiniappToggle(s) PROVE IInv'
<1>0. /\ TypeInv /\ Miniapp \in Process \ {Loop} /\ Miniapp \in {Bot, Miniapp}
      /\ proc[Miniapp] = Idle /\ row[s] \in Row
      /\ UNCHANGED <<queue, batch, missed, owed, torn, cut>>
      /\ owed' \in [Daily -> Int]
      /\ used' \in [{"days", "topups", "events", "faults"} -> Nat]
  BY Roles, TypeParts, Using DEF IInv, MiniappToggle
<1>1. ASSUME Write(s, [row[s] EXCEPT !.paused = TRUE]) \/ Write(s, [row[s] EXCEPT !.paused = FALSE]),
             GoChanging(Miniapp, Idle, s), UNCHANGED <<balance, behind, today, raced>>
      PROVE  IInv'
  BY <1>0, <1>1, PauseStep DEF history
<1>2. ASSUME Inactive(s), Affordable(s), Pay(s), Race(Miniapp, s),
             Write(s, [Resumed(row[s]) EXCEPT !.paused = FALSE]),
             GoChanging(Miniapp, Telling(s), s), behind' = behind \cup {s}
      PROVE  IInv'
  <2>1. /\ balance' \in [Daily -> Nat] /\ today' \in [Daily -> Nat] /\ today'[s] = today[s] + 1
        /\ \A u \in Daily \ {s} : today'[u] = today[u]
    BY <1>0, <1>2, Paying
  <2> DEFINE new == [Resumed(row[s]) EXCEPT !.paused = FALSE]
  <2>2. new \in Row /\ new.status = "ACTIVE" /\ new.due = FALSE
    BY <1>0 DEF Resumed, Row, Status
  <2> HIDE DEF new
  <2>3. /\ row' \in [Daily -> Row] /\ row'[s].status = "ACTIVE" /\ ~ row'[s].due
        /\ \A u \in Daily \ {s} : row'[u] = row[u]
    BY <1>0, <1>2, <2>2, Writing DEF new
  <2>4. DayCounted(s) /\ ~ Amid(s) => today'[s] = 1
    BY <1>2, <2>1 DEF DayCounted, Inactive
  <2> QED BY <1>0, <1>2, <2>1, <2>3, <2>4, AtOnceStep
<1> QED BY <1>1, <1>2 DEF MiniappToggle

-----------------------------------------------------------------------------
(* The retry queue and the panel. *)

LEMMA Appended ==
  ASSUME NEW S, NEW seq \in Seq(S), NEW i \in S
  PROVE  /\ Append(seq, i) \in Seq(S)
         /\ \A u : RetryQueue!InSeq(seq, u) \/ i.sub = u => RetryQueue!InSeq(Append(seq, i), u)
<1>1. /\ Append(seq, i) \in Seq(S) /\ Len(Append(seq, i)) = Len(seq) + 1
      /\ DOMAIN seq = 1..Len(seq) /\ DOMAIN Append(seq, i) = 1..(Len(seq) + 1) /\ Len(seq) \in Nat
      /\ \A k \in 1..Len(seq) : Append(seq, i)[k] = seq[k]
      /\ Append(seq, i)[Len(seq) + 1] = i
  OBVIOUS
<1>2. ASSUME NEW u, RetryQueue!InSeq(seq, u) \/ i.sub = u
      PROVE  RetryQueue!InSeq(Append(seq, i), u)
  <2>1. CASE i.sub = u
    <3>1. Len(seq) + 1 \in DOMAIN Append(seq, i) /\ Append(seq, i)[Len(seq) + 1].sub = u
      BY <1>1, <2>1
    <3> QED BY <3>1 DEF RetryQueue!InSeq
  <2>2. CASE RetryQueue!InSeq(seq, u)
    <3>1. PICK k \in DOMAIN seq : seq[k].sub = u
      BY <2>2 DEF RetryQueue!InSeq
    <3>2. k \in DOMAIN Append(seq, i) /\ Append(seq, i)[k].sub = u
      BY <1>1, <3>1
    <3> QED BY <3>2 DEF RetryQueue!InSeq
  <2> QED BY <1>2, <2>1, <2>2
<1> QED BY <1>1, <1>2

LEMMA Dropped ==
  ASSUME NEW S, NEW seq \in Seq(S), seq # <<>>
  PROVE  /\ Tail(seq) \in Seq(S) /\ Head(seq) \in S
         /\ \A u : RetryQueue!InSeq(seq, u) /\ u # Head(seq).sub => RetryQueue!InSeq(Tail(seq), u)
<1>1. /\ Tail(seq) \in Seq(S) /\ Head(seq) \in S /\ Head(seq) = seq[1] /\ Len(seq) \in Nat
      /\ Len(Tail(seq)) = Len(seq) - 1
      /\ DOMAIN seq = 1..Len(seq) /\ DOMAIN Tail(seq) = 1..(Len(seq) - 1)
      /\ \A k \in 1..(Len(seq) - 1) : Tail(seq)[k] = seq[k + 1]
  OBVIOUS
<1>2. ASSUME NEW u, RetryQueue!InSeq(seq, u), u # Head(seq).sub
      PROVE  RetryQueue!InSeq(Tail(seq), u)
  <2>1. PICK k \in DOMAIN seq : seq[k].sub = u
    BY <1>2 DEF RetryQueue!InSeq
  <2>2. k # 1
    BY <1>1, <1>2, <2>1
  <2>3. k - 1 \in DOMAIN Tail(seq) /\ Tail(seq)[k - 1].sub = u
    BY <1>1, <2>1, <2>2
  <2> QED BY <2>3 DEF RetryQueue!InSeq
<1> QED BY <1>1, <1>2

LEMMA Enqueued ==
  ASSUME TypeInv, NEW x \in Daily \cup Elsewhere, RetryQueue!Enqueue(x)
  PROVE  /\ queue' \in Seq(RetryQueue!Item) /\ batch' = batch
         /\ RetryQueue!Held(x)' /\ \A u : RetryQueue!Held(u) => RetryQueue!Held(u)'
<1> DEFINE item == [sub |-> x, attempts |-> 0]
<1>1. item \in RetryQueue!Item /\ item.sub = x
  BY PriceAssumption DEF RetryQueue!Item
<1> HIDE DEF item
<1>2. queue' = (IF RetryQueue!InSeq(queue, x) THEN queue ELSE Append(queue, item)) /\ batch' = batch
  BY DEF RetryQueue!Enqueue, item
<1>3. queue \in Seq(RetryQueue!Item)
  BY TypeParts
<1>4. /\ queue' \in Seq(RetryQueue!Item) /\ RetryQueue!InSeq(queue', x)
      /\ \A u : RetryQueue!InSeq(queue, u) => RetryQueue!InSeq(queue', u)
  BY <1>1, <1>2, <1>3, Appended
<1> QED BY <1>2, <1>4 DEF RetryQueue!Held, RetryQueue!InSeq

LEMMA Retry ==
  ASSUME TypeInv
  PROVE  /\ RetryQueue!Take =>
              /\ queue' \in Seq(RetryQueue!Item) /\ batch' \in Seq(RetryQueue!Item)
              /\ \A u : RetryQueue!Held(u) => RetryQueue!Held(u)'
         /\ RetryQueue!Drop =>
              /\ queue' \in Seq(RetryQueue!Item) /\ batch' \in Seq(RetryQueue!Item)
              /\ InHand \in Daily \cup Elsewhere
              /\ \A u : RetryQueue!Held(u) /\ u # InHand => RetryQueue!Held(u)'
         /\ RetryQueue!Requeue =>
              /\ queue' \in Seq(RetryQueue!Item) /\ batch' \in Seq(RetryQueue!Item)
              /\ InHand \in Daily \cup Elsewhere
              /\ \A u : RetryQueue!Held(u) /\ (u # InHand \/ ~ RetryQueue!Exhausted(Head(batch)))
                          => RetryQueue!Held(u)'
<1>1. queue \in Seq(RetryQueue!Item) /\ batch \in Seq(RetryQueue!Item)
  BY TypeParts
<1>2. ASSUME RetryQueue!Take
      PROVE  /\ queue' \in Seq(RetryQueue!Item) /\ batch' \in Seq(RetryQueue!Item)
             /\ \A u : RetryQueue!Held(u) => RetryQueue!Held(u)'
  <2>1. batch = <<>> /\ batch' = queue /\ queue' = <<>>
    BY <1>2 DEF RetryQueue!Take
  <2>2. \A u : ~ RetryQueue!InSeq(batch, u)
    BY <2>1 DEF RetryQueue!InSeq
  <2>3. queue' \in Seq(RetryQueue!Item)
    BY <2>1
  <2> QED BY <1>1, <2>1, <2>2, <2>3 DEF RetryQueue!Held, RetryQueue!InSeq
<1>3. ASSUME batch # <<>>, batch' = Tail(batch), \A u : RetryQueue!InSeq(queue, u) => RetryQueue!InSeq(queue', u)
      PROVE  /\ batch' \in Seq(RetryQueue!Item) /\ InHand \in Daily \cup Elsewhere
             /\ Head(batch) \in RetryQueue!Item
             /\ \A u : RetryQueue!Held(u) /\ u # InHand => RetryQueue!Held(u)'
  <2>1. /\ Tail(batch) \in Seq(RetryQueue!Item) /\ Head(batch) \in RetryQueue!Item
        /\ \A u : RetryQueue!InSeq(batch, u) /\ u # Head(batch).sub => RetryQueue!InSeq(batch', u)
    BY <1>1, <1>3, Dropped
  <2>2. InHand \in Daily \cup Elsewhere
    BY <2>1 DEF RetryQueue!Item, InHand
  <2> QED BY <1>3, <2>1, <2>2 DEF RetryQueue!Held, InHand, RetryQueue!InSeq
<1>4. ASSUME RetryQueue!Drop
      PROVE  /\ queue' \in Seq(RetryQueue!Item) /\ batch' \in Seq(RetryQueue!Item)
             /\ InHand \in Daily \cup Elsewhere
             /\ \A u : RetryQueue!Held(u) /\ u # InHand => RetryQueue!Held(u)'
  <2>1. batch # <<>> /\ batch' = Tail(batch) /\ queue' = queue
    BY <1>4 DEF RetryQueue!Drop
  <2>2. \A u : RetryQueue!InSeq(queue, u) => RetryQueue!InSeq(queue', u)
    BY <2>1
  <2> QED BY <1>1, <1>3, <2>1, <2>2
<1>5. ASSUME RetryQueue!Requeue
      PROVE  /\ queue' \in Seq(RetryQueue!Item) /\ batch' \in Seq(RetryQueue!Item)
             /\ InHand \in Daily \cup Elsewhere
             /\ \A u : RetryQueue!Held(u) /\ (u # InHand \/ ~ RetryQueue!Exhausted(Head(batch)))
                         => RetryQueue!Held(u)'
  <2>1. /\ batch # <<>> /\ batch' = Tail(batch)
        /\ queue' = IF RetryQueue!Exhausted(Head(batch)) THEN queue
                    ELSE Append(queue, [Head(batch) EXCEPT !.attempts = @ + 1])
    BY <1>5 DEF RetryQueue!Requeue
  <2>2. Head(batch) \in RetryQueue!Item
    BY <1>1, <2>1, Dropped
  <2>3. CASE RetryQueue!Exhausted(Head(batch))
    <3>1. queue' = queue
      BY <2>1, <2>3
    <3>2. \A u : RetryQueue!InSeq(queue, u) => RetryQueue!InSeq(queue', u)
      BY <3>1
    <3> QED BY <1>1, <1>3, <2>1, <2>3, <3>1, <3>2
  <2>4. CASE ~ RetryQueue!Exhausted(Head(batch))
    <3> DEFINE item == [Head(batch) EXCEPT !.attempts = Head(batch).attempts + 1]
    <3>1. item \in RetryQueue!Item /\ item.sub = InHand
      BY <2>2, <2>4, PriceAssumption DEF RetryQueue!Item, RetryQueue!Exhausted, InHand
    <3>2. queue' = Append(queue, item)
      BY <2>1, <2>4
    <3> HIDE DEF item
    <3>3. /\ queue' \in Seq(RetryQueue!Item) /\ RetryQueue!InSeq(queue', InHand)
          /\ \A u : RetryQueue!InSeq(queue, u) => RetryQueue!InSeq(queue', u)
      BY <1>1, <3>1, <3>2, Appended
    <3>4. /\ batch' \in Seq(RetryQueue!Item) /\ InHand \in Daily \cup Elsewhere
          /\ \A u : RetryQueue!Held(u) /\ u # InHand => RetryQueue!Held(u)'
      BY <1>3, <2>1, <3>3
    <3>5. \A u : u = InHand => RetryQueue!Held(u)'
      BY <3>3 DEF RetryQueue!Held, RetryQueue!InSeq
    <3> QED BY <3>3, <3>4, <3>5
  <2> QED BY <2>3, <2>4
<1> QED BY <1>2, <1>4, <1>5

LEMMA ToldStep ==
  ASSUME IInv, NEW q \in Process, At(q, "sync"), NEW new, Go(q, new),
         new = Told(q) \/ (q = Loop /\ new = BrokenOff),
         UNCHANGED <<row, balance, owed, today, raced, torn, cut>>,
         used' \in [{"days", "topups", "events", "faults"} -> Nat],
         queue' \in Seq(RetryQueue!Item), batch' \in Seq(RetryQueue!Item),
         behind' \subseteq behind, missed' \subseteq Daily,
         \A u \in behind' \ missed' :
           \/ RetryQueue!Held(u)'
           \/ u # proc[q].s /\ u \notin missed /\ (RetryQueue!Held(u) => RetryQueue!Held(u)')
  PROVE  IInv'
<1>0. TypeInv
  BY DEF IInv
<1>1. PICK s \in Daily : s = proc[q].s
  <2>1. proc[q] \in ProcessState /\ InTheHand(q)
    BY <1>0, TypeParts DEF TypeInv
  <2> QED BY <2>1 DEF ProcessState, InTheHand, At
<1>2. /\ new \in ProcessState /\ new.s = None /\ new.pc \in {"idle", "next"}
      /\ s \notin new.todo
      /\ new.pc # "idle" => q = Loop /\ new.phase = proc[q].phase
      /\ new.todo # {} => /\ new.todo \subseteq proc[q].todo
                          /\ new.phase = proc[q].phase
                          /\ proc[q].old \ {s} \subseteq new.old
  <2>1. CASE new = Told(q) /\ q = Loop
    BY <2>1, <1>0, <1>1, OnwardType DEF Told
  <2>2. CASE new = Told(q) /\ q # Loop
    BY <2>2, IdleType DEF Told
  <2>3. CASE q = Loop /\ new = BrokenOff
    BY <2>3, <1>0, BrokenOffType
  <2> QED BY <2>1, <2>2, <2>3
<1>3. /\ proc' \in [Process -> ProcessState] /\ proc'[q] = new
      /\ \A r \in Others(q) : Bystander(r)
  BY <1>0, <1>2, Going
<1>4. TypeInv'
  <2>1. TypeOK'
    BY <1>0, <1>3, TypeParts, Typed
  <2>2. q = Loop => proc[q].phase # "none"
    BY <1>0 DEF TypeInv, Phased, At
  <2>3. (Stations /\ Phased /\ \A r \in Process : InTheHand(r))'
    BY <1>0, <1>2, <1>3, <2>2, Stationed, Roles
  <2> QED BY <2>1, <2>3 DEF TypeInv
<1>5. LaggingIsKnown'
  <2> SUFFICES ASSUME NEW u \in behind' \ missed', ~ RetryQueue!Held(u)'
               PROVE  \E r \in Process : proc'[r].pc = "sync" /\ proc'[r].s = u
    BY DEF LaggingIsKnown, At
  <2>1. u # s /\ u \in behind \ missed /\ ~ RetryQueue!Held(u)
    BY <1>1
  <2>2. PICK r \in Process : At(r, "sync") /\ proc[r].s = u
    BY <2>1 DEF IInv, LaggingIsKnown
  <2>3. r \in Others(q)
    BY <1>1, <2>1, <2>2 DEF Others
  <2> QED BY <1>3, <2>2, <2>3 DEF Bystander, At
<1>6. ASSUME NEW u \in Daily PROVE SameRow(u) /\ SameBooks(u) /\ Unmoved(q, u)
  <2>1. u # None
    BY DailyAssumption
  <2>2. Unmoved(q, u)
    BY <2>1, <1>2, <1>3 DEF Unmoved, Midway, At
  <2> QED BY <2>2 DEF SameRow, SameBooks
<1> QED BY <1>3, <1>4, <1>5, <1>6, QuietStep

LEMMA SyncStep ==
  ASSUME IInv, NEW q \in Process, Sync(q) \/ SyncSwallowed(q) \/ SyncRaises(q)
  PROVE  IInv'
<1>0. /\ TypeInv /\ At(q, "sync") /\ Go(q, Told(q))
      /\ UNCHANGED <<row, balance, owed, today, raced, torn, cut>>
  BY DEF IInv, Sync, SyncSwallowed, SyncRaises, history
<1>1. proc[q].s \in Daily
  <2>1. proc[q] \in ProcessState /\ InTheHand(q)
    BY <1>0, TypeParts DEF TypeInv
  <2> QED BY <1>0, <2>1 DEF ProcessState, InTheHand, At
<1>2. used' \in [{"days", "topups", "events", "faults"} -> Nat]
  BY <1>0, TypeParts, Using DEF Sync, SyncSwallowed, SyncRaises
<1>3. CASE Sync(q) \/ SyncSwallowed(q)
  <2>1. /\ queue' = queue /\ batch' = batch /\ behind' \subseteq behind /\ missed' \subseteq Daily
        /\ queue' \in Seq(RetryQueue!Item) /\ batch' \in Seq(RetryQueue!Item)
        /\ \A u \in behind' \ missed' : u # proc[q].s /\ u \notin missed
    BY <1>0, <1>1, <1>3, TypeParts DEF Sync, SyncSwallowed
  <2>2. \A u : RetryQueue!Held(u) => RetryQueue!Held(u)'
    BY <2>1 DEF RetryQueue!Held, RetryQueue!InSeq
  <2> QED BY <1>0, <1>2, <2>1, <2>2, ToldStep
<1>4. CASE SyncRaises(q)
  <2>1. PICK y \in Daily : y = proc[q].s
    BY <1>1
  <2>2. RetryQueue!Enqueue(y) /\ behind' = behind /\ missed' = missed
    BY <1>4, <2>1 DEF SyncRaises, history
  <2>3. /\ queue' \in Seq(RetryQueue!Item) /\ batch' = batch
        /\ RetryQueue!Held(y)' /\ \A u : RetryQueue!Held(u) => RetryQueue!Held(u)'
    BY <1>0, <2>2, Enqueued
  <2>4. batch' \in Seq(RetryQueue!Item) /\ missed' \subseteq Daily
    BY <1>0, <2>2, <2>3, TypeParts
  <2>5. ASSUME NEW u \in behind' \ missed'
        PROVE  \/ RetryQueue!Held(u)'
               \/ u # proc[q].s /\ u \notin missed /\ (RetryQueue!Held(u) => RetryQueue!Held(u)')
    <3>1. CASE u = y
      BY <2>3, <3>1
    <3>2. CASE u # y
      BY <2>1, <2>2, <2>3, <3>2
    <3> QED BY <3>1, <3>2
  <2> QED BY <1>0, <1>2, <2>2, <2>3, <2>4, <2>5, ToldStep
<1> QED BY <1>3, <1>4

LEMMA LoopBreaksOffStep == ASSUME IInv, LoopBreaksOff PROVE IInv'
<1>0. /\ TypeInv /\ Loop \in Process /\ Go(Loop, BrokenOff)
      /\ used' \in [{"days", "topups", "events", "faults"} -> Nat]
      /\ UNCHANGED <<row, balance, queue, batch, behind, owed, today, raced, torn, cut>>
  BY Roles, Using DEF LoopBreaksOff, IInv
<1>1. BrokenOff \in ProcessState /\ proc[Loop] \in ProcessState /\ InTheHand(Loop)
  BY <1>0, BrokenOffType, TypeParts DEF TypeInv
<1>2. CASE At(Loop, "sync")
  <2>1. missed' = missed \cup {proc[Loop].s} /\ proc[Loop].s \in Daily
    BY <1>1, <1>2 DEF LoopBreaksOff, InTheHand, At, ProcessState
  <2>2. /\ queue' \in Seq(RetryQueue!Item) /\ batch' \in Seq(RetryQueue!Item)
        /\ behind' \subseteq behind /\ missed' \subseteq Daily
    BY <1>0, <2>1, TypeParts
  <2>3. \A u : RetryQueue!Held(u) => RetryQueue!Held(u)'
    BY <1>0 DEF RetryQueue!Held, RetryQueue!InSeq
  <2>4. \A u \in behind' \ missed' : u # proc[Loop].s /\ u \notin missed
    BY <2>1
  <2> QED BY <1>0, <1>2, <2>2, <2>3, <2>4, ToldStep
<1>3. CASE ~ At(Loop, "sync")
  <2>1. At(Loop, "charge") \/ (At(Loop, "next") /\ proc[Loop].todo # {})
    BY <1>3 DEF LoopBreaksOff
  <2>2. PICK s \in Daily : proc[Loop].s \in {s, None}
    BY <1>1, <2>1 DEF InTheHand, At, ProcessState
  <2>3. ~ Midway(Loop, s) /\ proc[Loop].phase # "none"
    BY <1>0, <2>1 DEF Midway, At, TypeInv, Phased
  <2>4. UNCHANGED <<row, balance, queue, batch, behind, history>>
    BY <1>0, <1>3 DEF LoopBreaksOff, history
  <2> QED BY <1>0, <1>1, <1>3, <2>2, <2>3, <2>4, GiveUpStep
<1> QED BY <1>2, <1>3

\* Steps that no process takes: the rows and the books stay, and the panel
\* lags behind in nothing else.
LEMMA StillStep ==
  ASSUME IInv, proc' = proc, \A u \in Daily : SameRow(u) /\ SameBooks(u), TypeOK', LaggingIsKnown'
  PROVE  IInv'
<1>1. (Stations /\ Phased /\ \A r \in Process : InTheHand(r))'
  BY DEF IInv, TypeInv, Stations, Phased, InTheHand
<1>2. ASSUME NEW u \in Daily PROVE BuyInv(u)' /\ ServeInv(u)'
  <2>1. \A r \in Process : Unmoved(r, u)
    BY DEF Unmoved, Midway
  <2> QED BY <2>1, Nothing DEF IInv
<1> QED BY <1>1, <1>2 DEF IInv, TypeInv

LEMMA RetryingStep ==
  ASSUME IInv,
         (\E x \in Elsewhere : EnqueueElsewhere(x)) \/ RetryStep
  PROVE  IInv'
<1>0. /\ TypeInv /\ proc' = proc
      /\ UNCHANGED <<row, balance, owed, today, raced, torn, cut>>
      /\ used' \in [{"days", "topups", "events", "faults"} -> Nat]
  <2>1. TypeInv
    BY DEF IInv
  <2> QED BY <2>1, TypeParts, Using
       DEF EnqueueElsewhere, RetryStep, Take, Retried, RetryFindsNothing, RetrySwallowed, RetryRaises,
           history
<1>1. ASSUME queue' \in Seq(RetryQueue!Item), batch' \in Seq(RetryQueue!Item),
             behind' \subseteq behind, missed' \subseteq Daily,
             \A u \in behind' \ missed' :
               u \in behind \ missed /\ (RetryQueue!Held(u) => RetryQueue!Held(u)')
      PROVE  IInv'
  <2>1. TypeOK'
    BY <1>0, <1>1, TypeParts, Typed
  <2>2. LaggingIsKnown'
    <3> SUFFICES ASSUME NEW u \in behind' \ missed'
                 PROVE  \/ RetryQueue!Held(u)'
                        \/ \E r \in Process : proc'[r].pc = "sync" /\ proc'[r].s = u
      BY DEF LaggingIsKnown, At
    <3> QED BY <1>0, <1>1 DEF IInv, LaggingIsKnown, At
  <2> QED BY <1>0, <2>1, <2>2, StillStep DEF SameRow, SameBooks
<1>2. ASSUME NEW x \in Elsewhere, EnqueueElsewhere(x) PROVE IInv'
  <2>1. /\ queue' \in Seq(RetryQueue!Item) /\ batch' = batch
        /\ \A u : RetryQueue!Held(u) => RetryQueue!Held(u)'
    BY <1>0, <1>2, Enqueued DEF EnqueueElsewhere
  <2>2. batch' \in Seq(RetryQueue!Item) /\ behind' = behind /\ missed' = missed /\ missed \subseteq Daily
    BY <1>0, <1>2, <2>1, TypeParts DEF EnqueueElsewhere, history
  <2> QED BY <1>1, <2>1, <2>2
<1>3. ASSUME Take PROVE IInv'
  <2>1. behind' = behind /\ missed' = missed /\ missed \subseteq Daily /\ RetryQueue!Take
    BY <1>0, <1>3, TypeParts DEF Take, history
  <2> QED BY <1>0, <1>1, <2>1, Retry
<1>4. ASSUME Retried PROVE IInv'
  <2>1. RetryQueue!Drop /\ behind' = behind \ {InHand} /\ missed' = missed \ {InHand}
    BY <1>4 DEF Retried
  <2>2. missed' \subseteq Daily /\ behind' \subseteq behind
    BY <1>0, <2>1, TypeParts
  <2> QED BY <1>0, <1>1, <2>1, <2>2, Retry
<1>5. ASSUME RetryFindsNothing PROVE IInv'
  <2>1. RetryQueue!Drop /\ InHand \in Gone /\ behind' = behind /\ missed' = missed
    BY <1>5 DEF RetryFindsNothing, history
  <2>2. missed \subseteq Daily /\ \A u \in behind : u # InHand
    BY <1>0, <2>1, TypeParts, DailyAssumption
  <2> QED BY <1>0, <1>1, <2>1, <2>2, Retry
<1>6. ASSUME RetrySwallowed PROVE IInv'
  <2>1. RetryQueue!Drop /\ behind' = behind /\ missed' = missed \cup ({InHand} \cap Daily)
    BY <1>6 DEF RetrySwallowed
  <2>2. missed' \subseteq Daily /\ \A u \in behind \ missed' : u # InHand /\ u \notin missed
    BY <1>0, <2>1, TypeParts
  <2> QED BY <1>0, <1>1, <2>1, <2>2, Retry
<1>7. ASSUME RetryRaises PROVE IInv'
  <2>1. /\ RetryQueue!Requeue /\ behind' = behind
        /\ missed' = IF RetryQueue!Exhausted(Head(batch)) THEN missed \cup ({InHand} \cap Daily)
                     ELSE missed
    BY <1>7 DEF RetryRaises
  <2>2. /\ missed' \subseteq Daily
        /\ \A u \in behind \ missed' :
             u \notin missed /\ (u # InHand \/ ~ RetryQueue!Exhausted(Head(batch)))
    BY <1>0, <2>1, TypeParts
  <2> QED BY <1>0, <1>1, <2>1, <2>2, Retry
<1> QED BY <1>2, <1>3, <1>4, <1>5, <1>6, <1>7 DEF RetryStep

-----------------------------------------------------------------------------
(* Time, the panel's webhooks, restarts. *)

LEMMA StillLagging ==
  ASSUME IInv, UNCHANGED <<queue, batch, behind, missed>>,
         \A r \in Process : proc'[r].pc = proc[r].pc /\ proc'[r].s = proc[r].s
  PROVE  LaggingIsKnown'
<1>1. \A u : RetryQueue!Held(u) => RetryQueue!Held(u)'
  BY DEF RetryQueue!Held, RetryQueue!InSeq
<1> SUFFICES ASSUME NEW u \in behind' \ missed'
             PROVE  \/ RetryQueue!Held(u)'
                    \/ \E r \in Process : proc'[r].pc = "sync" /\ proc'[r].s = u
  BY DEF LaggingIsKnown, At
<1> QED BY <1>1 DEF IInv, LaggingIsKnown, At

LEMMA MinuteStep == ASSUME IInv, NEW s \in Daily, Minute(s) PROVE IInv'
<1>0. /\ TypeInv /\ row[s] \in Row /\ row' = [row EXCEPT ![s].recent = FALSE]
      /\ UNCHANGED <<balance, proc, queue, batch, behind, history, used>>
  BY TypeParts DEF IInv, Minute
<1>1. row' \in [Daily -> Row] /\ \A u \in Daily : SameRow(u)
  <2>1. row' = [row EXCEPT ![s] = [row[s] EXCEPT !.recent = FALSE]]
    BY <1>0
  <2>2. /\ [row[s] EXCEPT !.recent = FALSE] \in Row
        /\ [row[s] EXCEPT !.recent = FALSE].status = row[s].status
        /\ [row[s] EXCEPT !.recent = FALSE].due = row[s].due
    BY <1>0 DEF Row
  <2> QED BY <1>0, <2>1, <2>2, TypeParts DEF SameRow
<1>2. TypeOK'
  BY <1>0, <1>1, TypeParts, Typed DEF history
<1>3. LaggingIsKnown'
  BY <1>0, StillLagging DEF history
<1> QED BY <1>0, <1>1, <1>2, <1>3, StillStep DEF SameBooks, history

\* The day begins while nobody is in the middle: it is unpaid and not charged.
LEMMA DayStep == ASSUME IInv, NEW s \in Daily, Day(s) PROVE IInv'
<1>0. /\ TypeInv /\ Alone(s) /\ row[s] \in Row
      /\ row' = [row EXCEPT ![s].due = TRUE, ![s].recent = FALSE]
      /\ today' = [today EXCEPT ![s] = 0]
      /\ UNCHANGED <<balance, proc, queue, batch, behind, missed, owed, raced, torn, cut>>
      /\ used' \in [{"days", "topups", "events", "faults"} -> Nat]
  <2>1. TypeInv
    BY DEF IInv
  <2> QED BY <2>1, TypeParts, Using DEF Day
<1>1. /\ row' \in [Daily -> Row] /\ row'[s].status = row[s].status /\ row'[s].due
      /\ \A u \in Daily \ {s} : row'[u] = row[u]
  <2> DEFINE new == [row[s] EXCEPT !.due = TRUE, !.recent = FALSE]
  <2>1. new \in Row /\ new.status = row[s].status /\ new.due = TRUE
    BY <1>0 DEF Row
  <2>2. row' = [row EXCEPT ![s] = new]
    BY <1>0, TypeParts DEF Row
  <2> HIDE DEF new
  <2> QED BY <1>0, <2>1, <2>2, TypeParts
<1>2. /\ today' \in [Daily -> Nat] /\ today'[s] = 0
      /\ \A u \in Daily \ {s} : today'[u] = today[u]
  BY <1>0, TypeParts
<1>3. TypeInv'
  <2>1. TypeOK'
    BY <1>0, <1>1, <1>2, TypeParts, Typed
  <2>2. (Stations /\ Phased /\ \A r \in Process : InTheHand(r))'
    BY <1>0 DEF TypeInv, Stations, Phased, InTheHand
  <2> QED BY <2>1, <2>2 DEF TypeInv
<1>4. LaggingIsKnown'
  BY <1>0, StillLagging
<1>5. \A u \in Daily, r \in Process : Unmoved(r, u) /\ (Midway(r, u)' <=> Midway(r, u))
  BY <1>0 DEF Unmoved, Midway
<1>6. BuyInv(s)' /\ ServeInv(s)'
  <2>1. (Amid(s)' <=> Amid(s)) /\ OneMidway(s)' /\ ~ Amid(s)
    BY <1>0, <1>5, MidwaySame DEF IInv, BuyInv, Alone, Amid
  <2>2. Inactive(s)' <=> Inactive(s)
    BY <1>1 DEF Inactive
  <2>3. OneOwed(s)'
    BY <1>0, <2>1 DEF IInv, BuyInv, OneOwed
  <2>4. ASSUME NEW r \in Process PROVE DoorView(r, s)'
    BY <1>0, <2>2 DEF IInv, BuyInv, DoorView, At
  <2>5. ASSUME ~ InDoubt(s)' PROVE DayCounted(s)' /\ \A r \in Process : Fresh(r, s)'
    <3>1. DayCounted(s) /\ \A r \in Process : Fresh(r, s)
      BY <1>0, <2>5 DEF IInv, ServeInv, InDoubt
    <3>2. DayCounted(s)'
      BY <1>1, <1>2, <2>1 DEF DayCounted
    <3>3. ASSUME NEW r \in Process PROVE Fresh(r, s)'
      BY <3>1, <1>0, <1>1, <2>2 DEF Fresh, At
    <3> QED BY <3>2, <3>3
  <2> QED BY <2>1, <2>3, <2>4, <2>5 DEF BuyInv, ServeInv
<1>7. ASSUME NEW u \in Daily \ {s} PROVE BuyInv(u)' /\ ServeInv(u)'
  <2>1. SameRow(u) /\ SameBooks(u)
    BY <1>0, <1>1, <1>2 DEF SameRow, SameBooks
  <2> QED BY <1>5, <2>1, Nothing DEF IInv
<1> QED BY <1>3, <1>4, <1>6, <1>7 DEF IInv

\* The status is written by somebody who is no process, and all are warned.
LEMMA OutsideStep ==
  ASSUME IInv, NEW s \in Daily, NEW status \in Status, ChangedOutside(s, status),
         cut \subseteq cut', cut' \subseteq cut \cup {s},
         s \notin cut' /\ DayCounted(s) => row[s].due \/ status = "ACTIVE",
         used' \in [{"days", "topups", "events", "faults"} -> Nat]
  PROVE  IInv'
<1>0. /\ TypeInv /\ proc' = [r \in Process |-> Aged(r, s)]
      /\ UNCHANGED <<balance, queue, batch, behind, missed, owed, today, raced, torn>>
  BY DEF IInv, ChangedOutside
<1>1. /\ row' \in [Daily -> Row] /\ row'[s].status = status /\ row'[s].due = row[s].due
      /\ \A u \in Daily \ {s} : row'[u] = row[u]
  BY <1>0, Written DEF ChangedOutside
<1>2. proc' \in [Process -> ProcessState] /\ \A r \in Process : Warned(r, s) /\ Bystander(r)
  <2>1. \A r \in Process : proc'[r] = Aged(r, s)
    BY <1>0
  <2>2. proc' \in [Process -> ProcessState]
    BY <1>0, AgedType
  <2> QED BY <1>0, <2>1, <2>2, AgedType DEF Warned, Bystander
<1>3. TypeInv'
  <2>1. cut' \subseteq Daily
    BY <1>0, TypeParts
  <2>2. TypeOK'
    BY <1>0, <1>1, <1>2, <2>1, TypeParts, Typed
  <2>3. (Stations /\ Phased /\ \A r \in Process : InTheHand(r))'
    BY <1>0, <1>2, Roles DEF TypeInv, Stations, Phased, InTheHand, Bystander
  <2> QED BY <2>2, <2>3 DEF TypeInv
<1>4. LaggingIsKnown'
  BY <1>0, <1>2, StillLagging DEF Bystander
<1>5. \A u \in Daily, r \in Process : Unmoved(r, u) /\ (Midway(r, u)' <=> Midway(r, u))
  BY <1>2, BystanderUnmoved
<1>6. BuyInv(s)' /\ ServeInv(s)'
  <2>1. (Amid(s)' <=> Amid(s)) /\ OneMidway(s)'
    BY <1>0, <1>5, MidwaySame DEF IInv, BuyInv
  <2>2. OneOwed(s)'
    BY <1>0, <2>1 DEF IInv, BuyInv, OneOwed
  <2>3. ASSUME NEW r \in Process PROVE DoorView(r, s)' /\ Fresh(r, s)'
    BY <1>0, <1>2, OthersWarned DEF IInv, BuyInv
  <2>4. ~ InDoubt(s)' => DayCounted(s)'
    BY <1>0, <1>1, <2>1 DEF IInv, ServeInv, InDoubt, DayCounted
  <2> QED BY <2>1, <2>2, <2>3, <2>4 DEF BuyInv, ServeInv
<1>7. ASSUME NEW u \in Daily \ {s} PROVE BuyInv(u)' /\ ServeInv(u)'
  <2>1. SameRow(u) /\ SameBooks(u)
    BY <1>0, <1>1 DEF SameRow, SameBooks
  <2> QED BY <1>5, <2>1, Nothing DEF IInv
<1> QED BY <1>3, <1>4, <1>6, <1>7 DEF IInv

LEMMA StatusStep ==
  ASSUME IInv, NEW s \in Daily, Expire(s) \/ PanelLimits(s) \/ PanelDeletes(s) \/ PanelResets(s)
  PROVE  IInv'
<1>0. TypeInv /\ used \in [{"days", "topups", "events", "faults"} -> Nat]
  BY TypeParts DEF IInv
<1>1. CASE Expire(s)
  BY <1>0, <1>1, OutsideStep DEF Expire, Status
<1>2. CASE PanelLimits(s)
  BY <1>0, <1>2, OutsideStep, Using DEF PanelLimits, Status
<1>3. CASE PanelDeletes(s)
  BY <1>0, <1>3, OutsideStep, Using DEF PanelDeletes, Status
<1>4. CASE PanelResets(s)
  BY <1>0, <1>4, OutsideStep, Using DEF PanelResets, Status
<1> QED BY <1>1, <1>2, <1>3, <1>4

\* All are idle again: who was in the middle has torn a charge from its day.
LEMMA RestartStep == ASSUME IInv, Restart PROVE IInv'
<1>0. /\ TypeInv /\ proc' = [q \in Process |-> Idle] /\ queue' = <<>> /\ batch' = <<>>
      /\ torn' = torn \cup {s \in Daily : ~ Alone(s)} /\ missed' = missed \cup behind
      /\ UNCHANGED <<row, balance, behind, owed, today, raced, cut>>
      /\ used' \in [{"days", "topups", "events", "faults"} -> Nat]
  <2>1. TypeInv
    BY DEF IInv
  <2> QED BY <2>1, Using DEF Restart, RetryQueue!Forget
<1>1. proc' \in [Process -> ProcessState] /\ \A r \in Process : proc'[r] = Idle
  BY <1>0, IdleType
<1>2. TypeInv'
  <2>1. torn' \subseteq Daily /\ missed' \subseteq Daily
    BY <1>0, TypeParts
  <2>2. queue' \in Seq(RetryQueue!Item) /\ batch' \in Seq(RetryQueue!Item)
    BY <1>0
  <2>3. TypeOK'
    BY <1>0, <1>1, <2>1, <2>2, TypeParts, Typed
  <2>4. (Stations /\ Phased /\ \A r \in Process : InTheHand(r))'
    BY <1>1, IdleType, Roles DEF Stations, Phased, InTheHand
  <2> QED BY <2>3, <2>4 DEF TypeInv
<1>3. LaggingIsKnown'
  BY <1>0 DEF LaggingIsKnown
<1>4. ASSUME NEW u \in Daily PROVE BuyInv(u)' /\ ServeInv(u)'
  <2>0. u # None
    BY DailyAssumption
  <2>1. \A r \in Process : ~ Midway(r, u)'
    BY <2>0, <1>1, IdleType DEF Midway
  <2>2. OneMidway(u)' /\ ~ Amid(u)'
    BY <2>1 DEF OneMidway, Amid
  <2>3. u \notin torn' => u \notin torn /\ ~ Amid(u)
    BY <1>0 DEF Alone, Amid
  <2>4. OneOwed(u)'
    BY <1>0, <2>2, <2>3 DEF IInv, BuyInv, OneOwed
  <2>5. ASSUME NEW r \in Process PROVE DoorView(r, u)' /\ Fresh(r, u)'
    BY <2>0, <1>1, IdleType DEF DoorView, Fresh
  <2>6. ~ InDoubt(u)' => DayCounted(u)'
    BY <1>0, <2>2, <2>3 DEF IInv, ServeInv, InDoubt, DayCounted
  <2> QED BY <2>2, <2>4, <2>5, <2>6 DEF BuyInv, ServeInv
<1> QED BY <1>2, <1>3, <1>4 DEF IInv

-----------------------------------------------------------------------------
(* The theorems. *)

LEMMA Initially1 == Init => IInv
<1> SUFFICES ASSUME Init PROVE IInv
  OBVIOUS
<1>1. \A q \in Process : proc[q] = Idle
  BY DEF Init
<1>2. TypeInv
  <2>1. row \in [Daily -> Row]
    BY DEF Init, Row, Status
  <2>2. /\ balance \in [Daily -> Nat] /\ owed \in [Daily -> Int] /\ today \in [Daily -> Nat]
        /\ proc \in [Process -> ProcessState]
    <3>1. balance \in [Daily -> Initially] /\ Initially \subseteq Nat
      BY PriceAssumption DEF Init
    <3>2. owed = [s \in Daily |-> 0] /\ today = [s \in Daily |-> 1]
      BY DEF Init
    <3>3. proc = [q \in Process |-> Idle]
      BY DEF Init
    <3>4. balance \in [Daily -> Nat]
      BY <3>1
    <3>5. owed \in [Daily -> Int] /\ today \in [Daily -> Nat]
      BY <3>2
    <3>6. proc \in [Process -> ProcessState]
      BY <3>3, IdleType
    <3> QED BY <3>4, <3>5, <3>6
  <2>3. {queue, batch} \subseteq Seq(RetryQueue!Item)
    <3>1. queue = <<>> /\ batch = <<>>
      BY DEF Init, RetryQueue!QueueInit
    <3> QED BY <3>1
  <2>4. used \in [{"days", "topups", "events", "faults"} -> Nat]
    BY DEF Init
  <2>5. {behind, missed, raced, torn, cut} \subseteq SUBSET Daily
    BY DEF Init
  <2>6. Stations /\ Phased /\ \A r \in Process : InTheHand(r)
    BY <1>1, IdleType, Roles DEF Stations, Phased, InTheHand
  <2> QED BY <2>1, <2>2, <2>3, <2>4, <2>5, <2>6 DEF TypeInv, TypeOK
<1>3. LaggingIsKnown
  BY DEF Init, LaggingIsKnown
<1>4. ASSUME NEW s \in Daily PROVE BuyInv(s) /\ ServeInv(s)
  <2>1. /\ row[s].status = "ACTIVE" /\ ~ row[s].due
        /\ owed[s] = 0 /\ today[s] = 1 /\ s # None
    BY DailyAssumption DEF Init
  <2>2. \A r \in Process : ~ Midway(r, s) /\ DoorView(r, s) /\ Fresh(r, s)
    BY <1>1, <2>1, IdleType DEF Midway, DoorView, Fresh
  <2> QED BY <2>1, <2>2 DEF BuyInv, ServeInv, OneMidway, OneOwed, Amid, DayCounted
<1> QED BY <1>2, <1>3, <1>4 DEF IInv

LEMMA Invariance == IInv /\ [Next]_vars => IInv'
<1> SUFFICES ASSUME IInv, [Next]_vars PROVE IInv'
  OBVIOUS
<1>1. CASE UNCHANGED vars
  <2>1. \A u \in Daily : SameRow(u) /\ SameBooks(u)
    BY <1>1 DEF vars, history, SameRow, SameBooks
  <2>2. TypeOK'
    BY <1>1, TypeParts, Typed DEF vars, history, IInv
  <2>3. LaggingIsKnown'
    BY <1>1, StillLagging DEF vars, history
  <2> QED BY <1>1, <2>1, <2>2, <2>3, StillStep DEF vars
<1>2. CASE Begin \/ LoopStep
  <2>1. CASE Begin \/ Proceed \/ Sync(Loop) \/ LoopBreaksOff
    BY <2>1, BeginStep, ProceedStep, SyncStep, LoopBreaksOffStep, Roles
  <2>2. ASSUME NEW s \in Daily, Wake(s) \/ LoopCharge(s) \/ Suspend(s)
        PROVE  IInv'
    BY <2>2, WakeStep, LoopChargeStep, SuspendStep
  <2> QED BY <1>2, <2>1, <2>2 DEF LoopStep
<1>3. ASSUME NEW t \in TopUp, NEW s \in Daily,
             TopUpStep(t, s) \/ \E a \in Amount : Credit(t, s, a)
      PROVE  IInv'
  <2>1. CASE GiveUp(t, s)
    BY <2>1, NotResumedStep, Roles
  <2>2. CASE \E a \in Amount : Credit(t, s, a)
    BY <2>2, CreditStep
  <2> QED BY <1>3, <2>1, <2>2, ChargeAfterTopUpStep, ActivateStep, ActivationFailsStep,
             MarkStep, MarkFailsStep DEF TopUpStep
<1>4. ASSUME NEW s \in Daily, DoorStep(s) PROVE IInv'
  <2>1. ASSUME NEW q \in Door, Press(q, s) \/ Pause(q, s) \/ Refuse(q, s) \/ ChargeToResume(q, s)
        PROVE  IInv'
    <3>1. CASE Refuse(q, s)
      BY <3>1, NotResumedStep, Roles
    <3> QED BY <2>1, <3>1, PressStep, PauseDoorStep, ChargeToResumeStep
  <2> QED BY <1>4, <2>1, BotResumeStep, BotUnpauseStep, CabinetResumeStep, PauseDoorStep,
             MiniappToggleStep DEF DoorStep
<1>5. CASE \E q \in Process : Sync(q) \/ SyncSwallowed(q) \/ SyncRaises(q)
  BY <1>5, SyncStep
<1>6. CASE (\E x \in Elsewhere : EnqueueElsewhere(x)) \/ RetryStep
  BY <1>6, RetryingStep
<1>7. ASSUME NEW s \in Daily,
             Day(s) \/ Minute(s) \/ Expire(s) \/ PanelLimits(s) \/ PanelDeletes(s) \/ PanelResets(s)
      PROVE  IInv'
  BY <1>7, DayStep, MinuteStep, StatusStep
<1>8. CASE Restart
  BY <1>8, RestartStep
<1> QED BY <1>1, <1>2, <1>3, <1>4, <1>5, <1>6, <1>7, <1>8 DEF Next

\* The inductive invariant: it holds of every state the daily subscriptions,
\* their handlers and the retry queue can be in.
THEOREM DailyInductive == Spec => []IInv
BY Initially1, Invariance, PTL DEF Spec

\* Rows, processes and the retry queue keep their types, and no balance falls
\* below zero, however the charges of the loop, of top-ups and of the toggles
\* interleave: each looks at the balance under the lock.
THEOREM DailyTypes == Spec => []TypeOK
<1>1. IInv => TypeOK
  BY DEF IInv, TypeInv
<1> QED BY <1>1, DailyInductive, PTL

\* A charge buys a day and a day takes a charge: the charge of a handler and
\* the day it gives are two commits (subscription_auto_purchase_service.py,
\* try_resume_disabled_daily_after_topup; handlers/subscription/purchase.py), so
\* that a day is owed while a handler is between them, and never else, unless
\* handlers overtook each other or one failed in between.
THEOREM ChargeIsForADay == Spec => []ChargeBuysDay
<1>1. ASSUME IInv PROVE ChargeBuysDay
  <2> SUFFICES ASSUME NEW s \in Daily \ (raced \cup torn)
               PROVE  owed[s] = Cardinality({q \in Process : Midway(q, s)})
    BY DEF ChargeBuysDay
  <2>0. s \in Daily /\ OneMidway(s) /\ OneOwed(s)
    BY <1>1 DEF IInv, BuyInv
  <2>1. CASE Amid(s)
    <3>1. PICK q \in Process : Midway(q, s)
      BY <2>1 DEF Amid
    <3>2. {r \in Process : Midway(r, s)} = {q}
      BY <2>0, <3>1 DEF OneMidway
    <3> QED BY <2>0, <2>1, <3>2, FS_Singleton DEF OneOwed
  <2>2. CASE ~ Amid(s)
    <3>1. {r \in Process : Midway(r, s)} = {}
      BY <2>2 DEF Amid
    <3> QED BY <2>0, <2>2, <3>1, FS_EmptySet DEF OneOwed
  <2> QED BY <2>1, <2>2
<1> QED BY <1>1, DailyInductive, PTL

\* No day is charged twice by the loop, a top-up and the toggles together,
\* though the loop charges what it listed before it took the lock
\* (daily_subscription_service.py, process_daily_charges).
THEOREM ChargedOnce == Spec => []ChargedOnceADay
<1>1. ASSUME IInv PROVE ChargedOnceADay
  <2> SUFFICES ASSUME NEW s \in Daily \ (raced \cup torn \cup cut) PROVE today[s] <= 1
    BY DEF ChargedOnceADay
  <2>1. DayCounted(s) /\ row[s] \in Row
    BY <1>1, TypeParts DEF IInv, ServeInv, InDoubt
  <2>2. row[s].due \in BOOLEAN
    BY <2>1 DEF Row
  <2>3. CASE Amid(s)
    BY <2>1, <2>2, <2>3 DEF DayCounted
  <2>4. CASE ~ Amid(s)
    BY <2>1, <2>2, <2>4 DEF DayCounted
  <2> QED BY <2>3, <2>4
<1> QED BY <1>1, DailyInductive, PTL

\* A subscription whose day is paid is active: nobody suspends one that was
\* charged meanwhile, and every resume that pays also activates.
THEOREM PaidIsServed == Spec => []PaidDayIsServed
<1>1. IInv => PaidDayIsServed
  BY DEF IInv, ServeInv, InDoubt, DayCounted, PaidDayIsServed
<1> QED BY <1>1, DailyInductive, PTL

\* What the panel has not been told is in the hands of a process or in the
\* retry queue, whatever the task of the queue takes, drops and puts back while
\* handlers enqueue (remnawave_retry_queue.py): or its update failed without an
\* exception, was given up after max_retries, or was lost at a restart.
THEOREM PanelIsToldOrKnownLate == Spec => []LaggingIsKnown
<1>1. IInv => LaggingIsKnown
  BY DEF IInv
<1> QED BY <1>1, DailyInductive, PTL
=============================================================================
