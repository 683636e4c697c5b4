-------------------------- MODULE RedemptionsProofs --------------------------
(***************************************************************************)
(* For any users, codes and sessions: what a code gives is given once for  *)
(* a use, the amount of a withdrawal is taken once, and a user never has   *)
(* two requests pending.                                                   *)
(*                                                                         *)
(* The inductive invariant says what a session at work holds: the key of   *)
(* the use it has reserved, the row of the user it files a request for.    *)
(***************************************************************************)
EXTENDS Redemptions, FiniteSums, SequenceTheorems, FiniteSetTheorems, TLAPS

SesState == [op : Op, pc : PC, u : User \cup {None}, c : Code \cup {None}, r : Nat,
             pay : {"none", "balance", "days"}, n : Nat, days : Nat,
             flag : BOOLEAN, debt : BOOLEAN, dirty : BOOLEAN]

Working(s) == ses[s].op # "idle"

\* What each kind of session has read, and where it can be.
Shape(s) ==
  /\ ses[s].op \in {"activate", "deactivate"} <=> ses[s].c \in Code
  /\ Working(s) <=> ses[s].u \in User
  /\ Busy(s, "activate") => ses[s].pc \in {"check", "reserve", "apply", "count"}
  /\ Busy(s, "deactivate") => ses[s].pc = "write"
  /\ Busy(s, "spin") => ses[s].pc \in {"pay", "prize", "record"} /\ ses[s].pay # "none"
  /\ Busy(s, "request") => ses[s].pc \in {"hold", "ask", "file"} /\ ses[s].u \in Partner
  /\ Busy(s, "review") => /\ ses[s].pc \in RequestStatus /\ ses[s].r \in DOMAIN requests
                          /\ ses[s].u = requests[ses[s].r].user

\* A reserved use is not used yet, and nobody else has reserved it.
Reserved(s) ==
  \/ At(s, "activate", "apply")
  \/ At(s, "activate", "count") /\ Kind[ses[s].c] = "discount"
Unused(s) == Reserved(s) => <<ses[s].c, ses[s].u>> \notin uses
Unrivalled(s) ==
  At(s, "activate", "apply") \/ At(s, "activate", "count") =>
    \A t \in Session \ {s} : ~ Rival(t, ses[s].u, ses[s].c)

\* Whoever files a request holds the user's row, and has looked whether one is
\* pending.
Filing(s) ==
  /\ At(s, "request", "ask") \/ At(s, "request", "file") => lock[ses[s].u] = s
  /\ At(s, "request", "file") => RequestsOf(ses[s].u, {"pending"}) = {} /\ ses[s].n # 0

SessionInv(s) == Shape(s) /\ Unused(s) /\ Unrivalled(s) /\ Filing(s)

PendingIsLast ==
  \A i, j \in DOMAIN requests :
    requests[i].status = "pending" /\ requests[i].user = requests[j].user => j <= i
NotYetCharged == \A i \in 1..MaxRequests : i > Len(requests) => charged[i] = 0
RequestInv == PendingIsLast /\ NotYetCharged /\ PayoutOnce

IInv ==
  /\ TypeOK
  /\ \A s \in Session : SessionInv(s)
  /\ BonusOncePerUse /\ RequestInv

-----------------------------------------------------------------------------
(* What a step does to its session, and to the rows it holds. *)

\* A step of s leaves the other sessions alone, but for the flag of those that
\* are about to give the same discount back.
Apart(s) ==
  /\ ses' \in [Session -> SesState]
  /\ \A t \in Session \ {s} :
       /\ ses[t].op # "deactivate" => ses'[t] = ses[t]
       /\ ses[t].c # ses[s].c => ses'[t] = ses[t]
       /\ ses'[t].op = ses[t].op /\ ses'[t].pc = ses[t].pc
       /\ ses'[t].u = ses[t].u /\ ses'[t].c = ses[t].c
       /\ ses'[t].r = ses[t].r /\ ses'[t].n = ses[t].n /\ ses'[t].debt = ses[t].debt

\* A session goes on with what it has read.
Goes(s, pc) ==
  /\ Apart(s) /\ ses'[s].op = ses[s].op /\ ses'[s].pc = pc
  /\ ses'[s].u = ses[s].u /\ ses'[s].c = ses[s].c /\ ses'[s].r = ses[s].r
  /\ ses'[s].pay = ses[s].pay /\ ses'[s].n = ses[s].n

Starts(s, op, pc, u) ==
  /\ Apart(s) /\ ~Working(s) /\ ses'[s].op = op /\ ses'[s].pc = pc /\ ses'[s].u = u

Ends(s) == Apart(s) /\ ses'[s] = Idle

LEMMA IdleType == Idle \in SesState /\ None \notin User /\ None \notin Session /\ None \notin Code
BY UserAssumption DEF Idle, SesState, Op, PC

LEMMA Types ==
  ASSUME TypeOK
  PROVE  /\ ses \in [Session -> SesState] /\ lock \in [User -> Session \cup {None}]
         /\ balance \in [User -> Nat] /\ days \in [User -> Nat] /\ booked \in [User -> Int]
         /\ crowded \subseteq User /\ started \in 0..MaxStarts
BY DEF TypeOK, RowTypeOK, SesState

LEMMA GotoEffect ==
  ASSUME TypeOK, NEW s \in Session, NEW pc \in PC, Goto(s, pc)
  PROVE  Goes(s, pc) /\ ses'[s] = [ses[s] EXCEPT !.pc = pc]
<1> DEFINE x == [ses[s] EXCEPT !.pc = pc]
<1>1. ses \in [Session -> SesState] /\ ses[s] \in SesState
  BY Types
<1>2. /\ x \in SesState /\ x.pc = pc /\ x.op = ses[s].op /\ x.u = ses[s].u /\ x.c = ses[s].c
      /\ x.r = ses[s].r /\ x.pay = ses[s].pay /\ x.n = ses[s].n
  BY <1>1 DEF SesState
<1>3. ses' = [ses EXCEPT ![s] = x]
  BY DEF Goto
<1> HIDE DEF x
<1>4. Goes(s, pc) /\ ses'[s] = x
  BY <1>1, <1>2, <1>3 DEF Goes, Apart
<1> QED
  BY <1>4 DEF x

LEMMA EndEffect ==
  ASSUME TypeOK, NEW s \in Session, End(s)
  PROVE  /\ Ends(s) /\ lock' = Released(s) /\ UNCHANGED notes
BY Types, IdleType DEF End, Release, Ends, Apart

LEMMA ReleasedType ==
  ASSUME TypeOK, NEW s \in Session
  PROVE  /\ Released(s) \in [User -> Session \cup {None}]
         /\ \A u \in User : lock[u] # s => Released(s)[u] = lock[u]
         /\ \A u \in User : Released(s)[u] # s
BY Types, IdleType DEF Released

LEMMA Written ==
  ASSUME TypeOK, NEW s \in Session, NEW x \in SesState, ses' = [ses EXCEPT ![s] = x]
  PROVE  Apart(s) /\ ses'[s] = x
BY Types DEF Apart

LEMMA BeginRead ==
  ASSUME TypeOK, NEW s \in Session, NEW op \in Op, NEW u \in User,
         NEW read \in SesState, Begin(s, op, u, read)
  PROVE  Apart(s) /\ ses'[s] = [read EXCEPT !.op = op, !.u = u] /\ ses[s] = Idle
<1> DEFINE x == [read EXCEPT !.op = op, !.u = u]
<1>1. x \in SesState
  BY DEF SesState
<1>2. ses' = [ses EXCEPT ![s] = x] /\ ses[s] = Idle
  BY DEF Begin
<1> HIDE DEF x
<1>3. Apart(s) /\ ses'[s] = x
  BY <1>1, <1>2, Written
<1> QED
  BY <1>2, <1>3 DEF x

LEMMA BeginEffect ==
  ASSUME TypeOK, NEW s \in Session, NEW op \in Op, NEW u \in User,
         NEW read \in SesState, Begin(s, op, u, read)
  PROVE  /\ Starts(s, op, read.pc, u)
         /\ ses'[s].c = read.c /\ ses'[s].r = read.r /\ ses'[s].pay = read.pay
         /\ crowded' \subseteq User /\ crowded \subseteq crowded' /\ started' \in 0..MaxStarts
<1>1. Apart(s) /\ ses'[s] = [read EXCEPT !.op = op, !.u = u] /\ ses[s] = Idle
  BY BeginRead
<1>2. /\ ses'[s].op = op /\ ses'[s].u = u /\ ses'[s].pc = read.pc
      /\ ses'[s].c = read.c /\ ses'[s].r = read.r /\ ses'[s].pay = read.pay
  BY <1>1 DEF SesState
<1>3. crowded' \subseteq User /\ crowded \subseteq crowded'
  BY Types DEF Begin
<1>4. started' \in 0..MaxStarts
  BY Types, StartAssumption DEF Begin
<1> QED
  BY <1>1, <1>2, <1>3, <1>4 DEF Starts, Working, Idle

LEMMA LockEffect ==
  ASSUME TypeOK, NEW s \in Session, NEW u \in User, Lock(s, u)
  PROVE  /\ lock' \in [User -> Session \cup {None}] /\ lock[u] \in {None, s} /\ lock'[u] = s
         /\ \A v \in User \ {u} : lock'[v] = lock[v]
BY Types DEF Lock, Lockable

LEMMA AddBalanceEffect ==
  ASSUME TypeOK, NEW s \in Session, NEW u \in User, NEW amount \in Nat, AddBalance(s, u, amount)
  PROVE  /\ balance' \in [User -> Nat] /\ booked' \in [User -> Int]
         /\ lock' = Released(s) /\ lock[u] \in {None, s}
<1>1. balance \in [User -> Nat] /\ booked \in [User -> Int]
  BY Types
<1>2. balance' \in [User -> Nat]
  BY <1>1 DEF AddBalance
<1>3. booked' \in [User -> Int]
  BY <1>1 DEF AddBalance
<1> QED
  BY <1>2, <1>3 DEF AddBalance, Release, Lockable

-----------------------------------------------------------------------------
(* What the steps that write more than the place do to their session. *)

\* What every step of a session starts from.
LEMMA Knows ==
  ASSUME IInv, NEW s \in Session
  PROVE  /\ TypeOK /\ SessionInv(s) /\ Shape(s) /\ ses[s] \in SesState
         /\ Working(s) => ses[s].u \in User
         /\ ses[s].op \in {"activate", "deactivate"} => ses[s].c \in Code
BY Types DEF IInv, SessionInv, Shape

LEMMA PayStarsEffect ==
  ASSUME TypeOK, NEW s \in Session, ses[s].u \in User, balance[ses[s].u] >= SpinCost,
         ses' = [ses EXCEPT ![s].pc = "prize", ![s].n = balance[ses[s].u] - SpinCost, ![s].debt = TRUE]
  PROVE  /\ Apart(s)
         /\ ses'[s] = [ses[s] EXCEPT !.pc = "prize", !.n = balance[ses[s].u] - SpinCost, !.debt = TRUE]
<1> DEFINE x == [ses[s] EXCEPT !.pc = "prize", !.n = balance[ses[s].u] - SpinCost, !.debt = TRUE]
<1>1. ses \in [Session -> SesState] /\ ses[s] \in SesState
  BY Types
<1>2. balance[ses[s].u] - SpinCost \in Nat
  BY Types, WheelAssumption
<1>3. x \in SesState
  BY <1>1, <1>2 DEF SesState, PC
<1>4. ses' = [ses EXCEPT ![s] = x]
  BY <1>1
<1> HIDE DEF x
<1>5. Apart(s) /\ ses'[s] = x
  BY <1>3, <1>4, Written
<1> QED
  BY <1>5 DEF x

AfterSync(s) == IF ses[s].pc = "pay" THEN "prize" ELSE "record"

LEMMA SyncedEffect ==
  ASSUME TypeOK, NEW s \in Session, ses[s].u \in User, NEW d \in Nat, Synced(s, d)
  PROVE  /\ Apart(s)
         /\ ses'[s] = [ses[s] EXCEPT !.pc = AfterSync(s), !.days = d, !.debt = FALSE, !.dirty = FALSE]
         /\ balance' \in [User -> Nat] /\ days' \in [User -> Nat] /\ lock' = Released(s)
<1> DEFINE x == [ses[s] EXCEPT !.pc = AfterSync(s), !.days = d, !.debt = FALSE, !.dirty = FALSE]
<1>1. ses \in [Session -> SesState] /\ ses[s] \in SesState
  BY Types
<1>2. x \in SesState
  BY <1>1 DEF SesState, PC, AfterSync
<1>3. ses' = [ses EXCEPT ![s] = x]
  BY <1>1 DEF Synced, AfterSync
<1> HIDE DEF x
<1>4. Apart(s) /\ ses'[s] = x
  BY <1>2, <1>3, Written
<1>5. days' \in [User -> Nat]
  BY Types DEF Synced
<1>6. balance' \in [User -> Nat]
  BY <1>1, Types DEF Synced, SesState
<1> QED
  BY <1>4, <1>5, <1>6 DEF x, Synced, Release

LEMMA NotSyncedEffect ==
  ASSUME TypeOK, NEW s \in Session, NEW d \in Nat, NotSynced(s, d)
  PROVE  /\ Apart(s) /\ ses'[s] = [ses[s] EXCEPT !.pc = AfterSync(s), !.days = d, !.dirty = TRUE]
         /\ UNCHANGED <<balance, days, lock>>
<1> DEFINE x == [ses[s] EXCEPT !.pc = AfterSync(s), !.days = d, !.dirty = TRUE]
<1>1. ses \in [Session -> SesState] /\ ses[s] \in SesState
  BY Types
<1>2. x \in SesState
  BY <1>1 DEF SesState, PC, AfterSync
<1>3. ses' = [ses EXCEPT ![s] = x]
  BY <1>1 DEF NotSynced, AfterSync
<1> HIDE DEF x
<1>4. Apart(s) /\ ses'[s] = x
  BY <1>2, <1>3, Written
<1> QED
  BY <1>4 DEF x, NotSynced

LEMMA WinCashEffect ==
  ASSUME TypeOK, NEW s \in Session,
         ses' = [ses EXCEPT ![s].pc = "record", ![s].r = 1, ![s].flag = Lost(s),
                            ![s].debt = FALSE, ![s].dirty = FALSE]
  PROVE  /\ Apart(s)
         /\ ses'[s] = [ses[s] EXCEPT !.pc = "record", !.r = 1, !.flag = Lost(s),
                                     !.debt = FALSE, !.dirty = FALSE]
<1> DEFINE x == [ses[s] EXCEPT !.pc = "record", !.r = 1, !.flag = Lost(s),
                               !.debt = FALSE, !.dirty = FALSE]
<1>1. ses \in [Session -> SesState] /\ ses[s] \in SesState
  BY Types
<1>2. Lost(s) \in BOOLEAN
  BY <1>1 DEF Lost, SesState
<1>3. x \in SesState
  BY <1>1, <1>2 DEF SesState, PC
<1>4. ses' = [ses EXCEPT ![s] = x]
  <2> DEFINE b == Lost(s)
  <2>1. ses' = [ses EXCEPT ![s].pc = "record", ![s].r = 1, ![s].flag = b,
                           ![s].debt = FALSE, ![s].dirty = FALSE]
    OBVIOUS
  <2> HIDE DEF b
  <2>2. ses' = [ses EXCEPT ![s] = [ses[s] EXCEPT !.pc = "record", !.r = 1, !.flag = b,
                                                 !.debt = FALSE, !.dirty = FALSE]]
    BY <1>1, <2>1
  <2> QED
    BY <2>2 DEF b
<1> HIDE DEF x
<1>5. Apart(s) /\ ses'[s] = x
  BY <1>3, <1>4, Written
<1> QED
  BY <1>5 DEF x

LEMMA WinOtherEffect ==
  ASSUME TypeOK, NEW s \in Session, ses' = [ses EXCEPT ![s].pc = "record", ![s].r = 2]
  PROVE  Apart(s) /\ ses'[s] = [ses[s] EXCEPT !.pc = "record", !.r = 2]
<1> DEFINE x == [ses[s] EXCEPT !.pc = "record", !.r = 2]
<1>1. ses \in [Session -> SesState] /\ ses[s] \in SesState
  BY Types
<1>2. x \in SesState
  BY <1>1 DEF SesState, PC
<1>3. ses' = [ses EXCEPT ![s] = x]
  BY <1>1
<1> HIDE DEF x
<1>4. Apart(s) /\ ses'[s] = x
  BY <1>2, <1>3, Written
<1> QED
  BY <1>4 DEF x

LEMMA AskEffect ==
  ASSUME TypeOK, NEW s \in Session, NEW a \in Nat,
         ses' = [ses EXCEPT ![s].pc = "file", ![s].n = a]
  PROVE  Apart(s) /\ ses'[s] = [ses[s] EXCEPT !.pc = "file", !.n = a]
<1> DEFINE x == [ses[s] EXCEPT !.pc = "file", !.n = a]
<1>1. ses \in [Session -> SesState] /\ ses[s] \in SesState
  BY Types
<1>2. x \in SesState
  BY <1>1 DEF SesState, PC
<1>3. ses' = [ses EXCEPT ![s] = x]
  BY <1>1
<1> HIDE DEF x
<1>4. Apart(s) /\ ses'[s] = x
  BY <1>2, <1>3, Written
<1> QED
  BY <1>4 DEF x

LEMMA GiveBackEffect ==
  ASSUME TypeOK, NEW s \in Session, GiveBack(s)
  PROVE  Ends(s)
<1>1. ses \in [Session -> SesState]
  BY Types
<1>2. ses' = [t \in Session |->
                IF t = s THEN Idle
                ELSE [ses[t] EXCEPT !.flag = @ /\ ~(Busy(t, "deactivate") /\ ses[t].u = ses[s].u
                                                    /\ ses[t].c = ses[s].c)]]
  BY DEF GiveBack
<1>3. ASSUME NEW t \in Session, t # s
      PROVE  /\ ses'[t] \in SesState /\ (ses[t].op # "deactivate" => ses'[t] = ses[t])
             /\ (ses[t].c # ses[s].c => ses'[t] = ses[t])
             /\ ses'[t].op = ses[t].op /\ ses'[t].pc = ses[t].pc
             /\ ses'[t].u = ses[t].u /\ ses'[t].c = ses[t].c
             /\ ses'[t].r = ses[t].r /\ ses'[t].n = ses[t].n /\ ses'[t].debt = ses[t].debt
  <2> DEFINE b == ses[t].flag /\ ~(Busy(t, "deactivate") /\ ses[t].u = ses[s].u /\ ses[t].c = ses[s].c)
             x == [ses[t] EXCEPT !.flag = b]
  <2>1. ses[t] \in SesState /\ ses'[t] = x
    BY <1>1, <1>2, <1>3
  <2>2. /\ b \in BOOLEAN /\ (ses[t].op # "deactivate" => b = ses[t].flag)
        /\ (ses[t].c # ses[s].c => b = ses[t].flag)
    BY <2>1 DEF SesState, Busy
  <2> HIDE DEF b
  <2>3. /\ x \in SesState /\ (b = ses[t].flag => x = ses[t])
        /\ x.op = ses[t].op /\ x.pc = ses[t].pc /\ x.u = ses[t].u /\ x.c = ses[t].c
        /\ x.r = ses[t].r /\ x.n = ses[t].n /\ x.debt = ses[t].debt
    BY <2>1, <2>2 DEF SesState
  <2> QED
    BY <2>1, <2>2, <2>3
<1> QED
  BY <1>2, <1>3, IdleType DEF Ends, Apart

-----------------------------------------------------------------------------
(* Types. *)

LEMMA ReadType ==
  ASSUME TypeOK, NEW u \in User, NEW c \in Code \cup {None}
  PROVE  /\ [Idle EXCEPT !.pc = "check", !.c = c, !.days = days[u], !.flag = discount[u] # None] \in SesState
         /\ \A p \in {"balance", "days"} :
              [Idle EXCEPT !.pc = "pay", !.pay = p, !.days = days[u]] \in SesState
         /\ [Idle EXCEPT !.pc = "hold", !.n = balance[u]] \in SesState
BY Types, IdleType DEF Idle, SesState, PC

LEMMA DiscountReadType ==
  ASSUME TypeOK, NEW u \in User, NEW c \in Code
  PROVE  [Idle EXCEPT !.pc = "write", !.c = c, !.n = count[c], !.r = IF <<c, u>> \in uses THEN 1 ELSE 0,
                      !.flag = <<c, u>> \in uses] \in SesState
<1> DEFINE b == <<c, u>> \in uses
           k == IF <<c, u>> \in uses THEN 1 ELSE 0
<1>1. count[c] \in Nat
  BY DEF TypeOK, PromoTypeOK
<1>2. b \in BOOLEAN /\ k \in Nat
  OBVIOUS
<1> HIDE DEF b, k
<1>3. [Idle EXCEPT !.pc = "write", !.c = c, !.n = count[c], !.r = k, !.flag = b] \in SesState
  BY <1>1, <1>2, IdleType DEF Idle, SesState, PC
<1> QED
  BY <1>3 DEF b, k

LEMMA RequestType ==
  ASSUME TypeOK, NEW i \in DOMAIN requests
  PROVE  /\ requests[i].user \in Partner /\ requests[i].user \in User
         /\ requests[i].amount \in Nat \ {0} /\ requests[i].status \in RequestStatus
         /\ i \in Nat /\ i \in 1..Len(requests) /\ i \in 1..MaxRequests
         /\ charged[i] \in Nat /\ Len(requests) \in Nat /\ Len(requests) <= MaxRequests
<1> DEFINE S == [user : Partner, amount : Nat \ {0}, status : RequestStatus]
<1>1. /\ requests \in Seq(S) /\ Len(requests) <= MaxRequests
      /\ charged \in [1..MaxRequests -> Nat]
  BY DEF TypeOK, WithdrawalTypeOK
<1> HIDE DEF S
<1>2. requests[i] \in S /\ i \in 1..Len(requests) /\ Len(requests) \in Nat
  BY <1>1, ElementOfSeq
<1>3. requests[i].user \in Partner /\ requests[i].amount \in Nat \ {0} /\ requests[i].status \in RequestStatus
  BY <1>2 DEF S
<1>4. i \in 1..MaxRequests
  BY <1>1, <1>2, WithdrawalAssumption
<1> QED
  BY <1>1, <1>2, <1>3, <1>4, WithdrawalAssumption

LEMMA ReviewType ==
  ASSUME TypeOK, NEW i \in DOMAIN requests
  PROVE  [Idle EXCEPT !.pc = requests[i].status, !.r = i] \in SesState
BY RequestType, IdleType DEF Idle, SesState, PC, RequestStatus

\* A status written over another.
LEMMA DecidedType ==
  ASSUME TypeOK, NEW i \in DOMAIN requests, NEW status \in RequestStatus,
         requests' = [requests EXCEPT ![i].status = status]
  PROVE  /\ requests' \in Seq([user : Partner, amount : Nat \ {0}, status : RequestStatus])
         /\ DOMAIN requests' = DOMAIN requests /\ Len(requests') = Len(requests)
         /\ requests'[i].status = status
         /\ \A j \in DOMAIN requests : /\ requests'[j].user = requests[j].user
                                       /\ requests'[j].amount = requests[j].amount
         /\ \A j \in DOMAIN requests \ {i} : requests'[j] = requests[j]
<1> DEFINE S == [user : Partner, amount : Nat \ {0}, status : RequestStatus]
           x == [requests[i] EXCEPT !.status = status]
<1>1. requests \in Seq(S)
  BY DEF TypeOK, WithdrawalTypeOK
<1>2. x \in S /\ x.status = status /\ x.user = requests[i].user /\ x.amount = requests[i].amount
  <2>1. requests[i] \in S
    <3> HIDE DEF S
    <3> QED
      BY <1>1, ElementOfSeq
  <2>2. \A y \in S : LET z == [y EXCEPT !.status = status] IN
          z \in S /\ z.status = status /\ z.user = y.user /\ z.amount = y.amount
    OBVIOUS
  <2> QED
    BY <2>1, <2>2
<1>3. requests' = [requests EXCEPT ![i] = x]
  OBVIOUS
<1> HIDE DEF S, x
<1>4. /\ requests' \in Seq(S) /\ Len(requests') = Len(requests)
      /\ \A j \in 1..Len(requests) : requests'[j] = IF j = i THEN x ELSE requests[j]
  BY <1>1, <1>2, <1>3, ExceptSeq
<1>5. DOMAIN requests = 1..Len(requests) /\ DOMAIN requests' = 1..Len(requests')
  BY <1>1, <1>4, LenProperties
<1> QED
  BY <1>2, <1>4, <1>5 DEF S

\* What the other sessions have read stays what it was.
LEMMA ShapeFrame ==
  ASSUME IInv, NEW s \in Session, Apart(s), Shape(s)',
         \A i \in DOMAIN requests : i \in DOMAIN requests' /\ requests'[i].user = requests[i].user
  PROVE  \A t \in Session : Shape(t)'
<1>1. ASSUME NEW t \in Session, t # s
      PROVE  Shape(t)'
  <2>1. Shape(t) /\ ses'[t].op = ses[t].op /\ ses'[t].pc = ses[t].pc
        /\ ses'[t].u = ses[t].u /\ ses'[t].c = ses[t].c
        /\ (ses[t].op # "deactivate" => ses'[t] = ses[t])
    BY <1>1, Knows DEF Apart
  <2> QED
    BY <2>1 DEF Shape, Busy, Working
<1> QED
  BY <1>1

LEMMA EndShape ==
  ASSUME NEW s \in Session, Ends(s)
  PROVE  Shape(s)'
BY IdleType DEF Ends, Shape, Busy, Working, Idle

LEMMA GoShape ==
  ASSUME IInv, NEW s \in Session, NEW pc \in PC, Goes(s, pc), ~Busy(s, "review"),
         Busy(s, "activate") => pc \in {"reserve", "apply", "count"},
         Busy(s, "deactivate") => FALSE,
         Busy(s, "spin") => pc \in {"prize", "record"},
         Busy(s, "request") => pc \in {"ask", "file"}
  PROVE  Shape(s)'
BY Knows DEF Goes, Shape, Busy, Working

LEMMA StartShape ==
  ASSUME NEW s \in Session, NEW op \in Op \ {"idle"}, NEW pc, NEW u \in User, Starts(s, op, pc, u),
         op \in {"activate", "deactivate"} <=> ses'[s].c \in Code,
         op = "activate" => pc = "check",
         op = "deactivate" => pc = "write",
         op = "spin" => pc = "pay" /\ ses'[s].pay # "none",
         op = "request" => pc = "hold" /\ u \in Partner,
         op = "review" => /\ pc \in RequestStatus /\ ses'[s].r \in DOMAIN requests'
                          /\ u = requests'[ses'[s].r].user
  PROVE  Shape(s)'
<1>1. ses'[s].op = op /\ ses'[s].pc = pc /\ ses'[s].u = u
  BY DEF Starts
<1> QED
  BY <1>1 DEF Shape, Busy, Working

LEMMA PromoTyping ==
  ASSUME IInv, NEW s \in Session, PromoNext(s), UNCHANGED <<wheelVars, withdrawalVars>>
  PROVE  TypeOK' /\ Apart(s) /\ \A t \in Session : Shape(t)'
<1>0. /\ TypeOK /\ Shape(s) /\ ses[s] \in SesState /\ RowTypeOK /\ PromoTypeOK
      /\ Working(s) => ses[s].u \in User
      /\ ses[s].op \in {"activate", "deactivate"} => ses[s].c \in Code
  BY Knows DEF TypeOK
<1>1. WheelTypeOK' /\ WithdrawalTypeOK' /\ UNCHANGED requests
  BY <1>0 DEF TypeOK, WheelTypeOK, WithdrawalTypeOK, wheelVars, withdrawalVars
<1>2. RowTypeOK <=> /\ balance \in [User -> Nat] /\ days \in [User -> Nat] /\ booked \in [User -> Int]
                    /\ lock \in [User -> Session \cup {None}] /\ ses \in [Session -> SesState]
                    /\ crowded \subseteq User /\ started \in 0..MaxStarts
  BY DEF RowTypeOK, SesState
<1>3. RowTypeOK' <=> /\ balance' \in [User -> Nat] /\ days' \in [User -> Nat] /\ booked' \in [User -> Int]
                     /\ lock' \in [User -> Session \cup {None}] /\ ses' \in [Session -> SesState]
                     /\ crowded' \subseteq User /\ started' \in 0..MaxStarts
  BY DEF RowTypeOK, SesState
<1>4. SUFFICES RowTypeOK' /\ PromoTypeOK' /\ Apart(s) /\ Shape(s)'
  BY <1>1, ShapeFrame DEF TypeOK
<1>5. ASSUME NEW u \in User, NEW c \in Code, Look(s, u, c)
      PROVE  RowTypeOK' /\ PromoTypeOK' /\ Apart(s) /\ Shape(s)'
  <2>1. PICK read \in SesState :
          read = [Idle EXCEPT !.pc = "check", !.c = c, !.days = days[u], !.flag = discount[u] # None]
    BY <1>0, ReadType
  <2>2. /\ Begin(s, "activate", u, read) /\ read.pc = "check" /\ read.c = c
        /\ UNCHANGED <<rows, lock, discount, uses, count, granted>> /\ loose' \subseteq loose \cup {c}
    <3>1. Begin(s, "activate", u, read)
      BY <1>5, <2>1 DEF Look, Begin
    <3>2. read.pc = "check" /\ read.c = c
      BY <2>1 DEF Idle
    <3> QED
      BY <1>5, <3>1, <3>2 DEF Look, Watched
  <2>3. /\ Starts(s, "activate", "check", u) /\ ses'[s].c = c
        /\ crowded' \subseteq User /\ started' \in 0..MaxStarts
    BY <1>0, <2>2, BeginEffect DEF Op
  <2>4. RowTypeOK'
    BY <1>0, <1>2, <1>3, <2>2, <2>3 DEF Starts, Apart, rows
  <2>5. PromoTypeOK'
    BY <1>0, <2>2 DEF PromoTypeOK
  <2>6. Shape(s)'
    BY <2>3, StartShape DEF Op
  <2> QED
    BY <2>3, <2>4, <2>5, <2>6 DEF Starts
<1>6. CASE Check(s) \/ Reserve(s) \/ Inapplicable(s)
  <2>1. UNCHANGED <<rows, promoVars, notes>> /\ Busy(s, "activate")
        /\ (End(s) \/ (UNCHANGED lock /\ (Goto(s, "reserve") \/ Goto(s, "apply"))))
    BY <1>6 DEF Check, Reserve, Inapplicable, End, Continue, At, Busy
  <2>2. /\ Apart(s) /\ Shape(s)' /\ lock' \in [User -> Session \cup {None}]
    <3>1. CASE End(s)
      BY <1>0, <3>1, EndEffect, EndShape, ReleasedType DEF Ends
    <3>2. CASE UNCHANGED lock /\ (Goto(s, "reserve") \/ Goto(s, "apply"))
      <4>1. PICK pc \in {"reserve", "apply"} : Goes(s, pc)
        BY <1>0, <3>2, GotoEffect DEF PC
      <4> QED
        BY <1>0, <1>2, <2>1, <3>2, <4>1, GoShape DEF Goes, Busy, PC
    <3> QED
      BY <2>1, <3>1, <3>2
  <2>3. PromoTypeOK'
    BY <1>0, <2>1 DEF PromoTypeOK, promoVars
  <2> QED
    BY <1>0, <1>2, <1>3, <2>1, <2>2, <2>3 DEF Apart, rows, notes
<1>7. CASE ApplyBalance(s) \/ ApplyDays(s) \/ ApplyDiscount(s)
  <2>1. /\ Busy(s, "activate") /\ Goto(s, "count") /\ UNCHANGED <<notes, discount, count, loose>>
        /\ (Use(ses[s].u, ses[s].c) \/ UNCHANGED <<uses, granted>>)
    BY <1>7 DEF ApplyBalance, ApplyDays, ApplyDiscount, Continue, At, Busy, promoVars
  <2>2. ses[s].u \in User /\ ses[s].c \in Code
    BY <1>0, <2>1 DEF Busy, Working
  <2>3. Goes(s, "count") /\ Shape(s)'
    BY <1>0, <2>1, GotoEffect, GoShape DEF Busy, PC
  <2>4. granted' \in [Code \X User -> Nat] /\ uses' \subseteq Code \X User
    <3>1. CASE UNCHANGED <<uses, granted>>
      BY <1>0, <3>1 DEF PromoTypeOK
    <3>2. CASE Use(ses[s].u, ses[s].c)
      <4>1. <<ses[s].c, ses[s].u>> \in Code \X User
        BY <2>2
      <4>2. /\ granted \in [Code \X User -> Nat] /\ uses \subseteq Code \X User
            /\ granted' = [granted EXCEPT ![<<ses[s].c, ses[s].u>>] = @ + 1]
            /\ uses' = uses \cup {<<ses[s].c, ses[s].u>>}
        BY <1>0, <3>2 DEF PromoTypeOK, Use
      <4> QED
        BY <4>1, <4>2
    <3> QED
      BY <2>1, <3>1, <3>2
  <2>5. PromoTypeOK'
    BY <1>0, <2>1, <2>4 DEF PromoTypeOK
  <2>6. /\ balance' \in [User -> Nat] /\ days' \in [User -> Nat] /\ booked' \in [User -> Int]
        /\ lock' \in [User -> Session \cup {None}]
    <3>1. CASE ApplyBalance(s)
      <4>1. Bonus \in Nat /\ AddBalance(s, ses[s].u, Bonus) /\ UNCHANGED days
        BY <3>1, PromoAssumption DEF ApplyBalance
      <4> QED
        BY <1>0, <1>2, <2>2, <4>1, AddBalanceEffect, ReleasedType
    <3>2. CASE ApplyDays(s)
      <4>1. /\ days' = [days EXCEPT ![ses[s].u] = ses[s].days + BonusDays]
            /\ UNCHANGED <<balance, booked, lock>>
        BY <3>2 DEF ApplyDays
      <4>2. ses[s].days + BonusDays \in Nat
        BY <1>0, PromoAssumption DEF SesState
      <4> QED
        BY <1>0, <1>2, <4>1, <4>2
    <3>3. CASE ApplyDiscount(s)
      BY <1>0, <1>2, <2>2, <3>3, LockEffect DEF ApplyDiscount, rows
    <3> QED
      BY <1>7, <3>1, <3>2, <3>3
  <2> QED
    BY <1>0, <1>2, <1>3, <2>1, <2>3, <2>5, <2>6 DEF Goes, Apart, notes
<1>8. CASE Count(s)
  <2>1. ses[s].u \in User /\ ses[s].c \in Code
    BY <1>0, <1>8 DEF Count, At, Working
  <2>2. /\ Ends(s) /\ Shape(s)' /\ lock' \in [User -> Session \cup {None}] /\ UNCHANGED <<rows, notes>>
    BY <1>0, <1>8, EndEffect, EndShape, ReleasedType DEF Count
  <2>3. /\ count' = [count EXCEPT ![ses[s].c] = @ + 1] /\ UNCHANGED loose
        /\ \/ Use(ses[s].u, ses[s].c) /\ discount' = [discount EXCEPT ![ses[s].u] = ses[s].c]
           \/ UNCHANGED <<uses, granted, discount>>
    BY <1>8 DEF Count
  <2>4. granted' \in [Code \X User -> Nat] /\ uses' \subseteq Code \X User
    <3>1. CASE UNCHANGED <<uses, granted, discount>>
      BY <1>0, <3>1 DEF PromoTypeOK
    <3>2. CASE Use(ses[s].u, ses[s].c)
      <4>1. <<ses[s].c, ses[s].u>> \in Code \X User
        BY <2>1
      <4>2. /\ granted \in [Code \X User -> Nat] /\ uses \subseteq Code \X User
            /\ granted' = [granted EXCEPT ![<<ses[s].c, ses[s].u>>] = @ + 1]
            /\ uses' = uses \cup {<<ses[s].c, ses[s].u>>}
        BY <1>0, <3>2 DEF PromoTypeOK, Use
      <4> QED
        BY <4>1, <4>2
    <3> QED
      BY <2>3, <3>1, <3>2
  <2>5. count' \in [Code -> Nat]
    BY <1>0, <2>1, <2>3 DEF PromoTypeOK
  <2>6. discount' \in [User -> Code \cup {None}]
    BY <1>0, <2>1, <2>3 DEF PromoTypeOK
  <2>7. PromoTypeOK'
    BY <1>0, <2>3, <2>4, <2>5, <2>6 DEF PromoTypeOK
  <2> QED
    BY <1>0, <1>2, <1>3, <2>2, <2>7 DEF Ends, Apart, rows, notes
<1>9. ASSUME NEW u \in User, LookDiscount(s, u)
      PROVE  RowTypeOK' /\ PromoTypeOK' /\ Apart(s) /\ Shape(s)'
  <2>1. PICK c \in Code : c = discount[u]
    BY <1>0, <1>9 DEF LookDiscount, PromoTypeOK
  <2>2. PICK read \in SesState :
          read = [Idle EXCEPT !.pc = "write", !.c = c, !.n = count[c],
                              !.r = IF <<c, u>> \in uses THEN 1 ELSE 0, !.flag = <<c, u>> \in uses]
    BY <1>0, DiscountReadType
  <2>3. /\ Begin(s, "deactivate", u, read) /\ read.pc = "write" /\ read.c = c
        /\ UNCHANGED <<rows, lock, discount, uses, count, granted>> /\ loose' \subseteq loose \cup {c}
    <3>1. Begin(s, "deactivate", u, read)
      BY <1>9, <2>1, <2>2 DEF LookDiscount, Begin
    <3>2. read.pc = "write" /\ read.c = c
      BY <2>2 DEF Idle
    <3> QED
      BY <1>9, <2>1, <3>1, <3>2 DEF LookDiscount, Watched
  <2>4. /\ Starts(s, "deactivate", "write", u) /\ ses'[s].c = c
        /\ crowded' \subseteq User /\ started' \in 0..MaxStarts
    BY <1>0, <1>9, <2>3, BeginEffect DEF Op
  <2>5. RowTypeOK'
    BY <1>0, <1>2, <1>3, <2>3, <2>4 DEF Starts, Apart, rows
  <2>6. PromoTypeOK'
    BY <1>0, <2>3 DEF PromoTypeOK
  <2>7. Shape(s)'
    BY <2>4, StartShape DEF Op
  <2> QED
    BY <2>4, <2>5, <2>6, <2>7 DEF Starts
<1>10. CASE GiveBack(s)
  <2>1. ses[s].u \in User /\ ses[s].c \in Code
    BY <1>0, <1>10 DEF GiveBack, At, Working
  <2>2. Ends(s) /\ Shape(s)' /\ UNCHANGED <<rows, lock, notes, loose>>
    BY <1>0, <1>10, GiveBackEffect, EndShape DEF GiveBack
  <2>3. Uncount(s, ses[s].c) \in Nat
    BY <1>0, <2>1 DEF Uncount, SesState, PromoTypeOK
  <2>4. discount' \in [User -> Code \cup {None}] /\ count' \in [Code -> Nat]
    BY <1>0, <1>10, <2>1, <2>3 DEF GiveBack, PromoTypeOK
  <2>5. uses' \subseteq Code \X User /\ granted' \in [Code \X User -> Nat]
    <3>1. uses' \subseteq uses
          /\ (granted' = granted \/ granted' = [granted EXCEPT ![<<ses[s].c, ses[s].u>>] = 0])
      BY <1>10 DEF GiveBack
    <3> QED
      BY <1>0, <3>1 DEF PromoTypeOK
  <2>6. PromoTypeOK'
    BY <1>0, <2>2, <2>4, <2>5 DEF PromoTypeOK
  <2> QED
    BY <1>0, <1>2, <1>3, <2>2, <2>6 DEF Ends, Apart, rows, notes
<1> QED
  BY <1>5, <1>6, <1>7, <1>8, <1>9, <1>10 DEF PromoNext

\* What the steps of a spin have in common.
LEMMA SpinShape ==
  ASSUME IInv, NEW s \in Session, Busy(s, "spin"), Apart(s), ses'[s].op = ses[s].op,
         ses'[s].pc \in {"prize", "record"}, ses'[s].u = ses[s].u, ses'[s].c = ses[s].c,
         ses'[s].pay = ses[s].pay
  PROVE  Shape(s)'
BY Knows DEF Shape, Busy, Working

LEMMA WheelTyping ==
  ASSUME IInv, NEW s \in Session, WheelNext(s), UNCHANGED <<promoVars, withdrawalVars>>
  PROVE  TypeOK' /\ Apart(s) /\ \A t \in Session : Shape(t)'
<1>0. /\ TypeOK /\ Shape(s) /\ ses[s] \in SesState /\ RowTypeOK /\ WheelTypeOK
      /\ Busy(s, "spin") => ses[s].u \in User /\ ses[s].pay \in {"balance", "days"}
  <2>1. TypeOK /\ Shape(s) /\ ses[s] \in SesState
    BY Knows
  <2> QED
    BY <2>1 DEF TypeOK, Shape, Busy, Working, SesState
<1>1. PromoTypeOK' /\ WithdrawalTypeOK' /\ UNCHANGED requests
  BY <1>0 DEF TypeOK, PromoTypeOK, WithdrawalTypeOK, promoVars, withdrawalVars
<1>2. RowTypeOK <=> /\ balance \in [User -> Nat] /\ days \in [User -> Nat] /\ booked \in [User -> Int]
                    /\ lock \in [User -> Session \cup {None}] /\ ses \in [Session -> SesState]
                    /\ crowded \subseteq User /\ started \in 0..MaxStarts
  BY DEF RowTypeOK, SesState
<1>3. RowTypeOK' <=> /\ balance' \in [User -> Nat] /\ days' \in [User -> Nat] /\ booked' \in [User -> Int]
                     /\ lock' \in [User -> Session \cup {None}] /\ ses' \in [Session -> SesState]
                     /\ crowded' \subseteq User /\ started' \in 0..MaxStarts
  BY DEF RowTypeOK, SesState
<1>4. SUFFICES RowTypeOK' /\ WheelTypeOK' /\ Apart(s) /\ Shape(s)'
  BY <1>1, ShapeFrame DEF TypeOK
<1>5. ASSUME NEW u \in Player, NEW pay \in {"balance", "days"}, Available(s, u, pay)
      PROVE  RowTypeOK' /\ WheelTypeOK' /\ Apart(s) /\ Shape(s)'
  <2>1. u \in User
    BY <1>5, WheelAssumption
  <2>2. PICK read \in SesState : read = [Idle EXCEPT !.pc = "pay", !.pay = pay, !.days = days[u]]
    BY <1>0, <2>1, ReadType
  <2>3. /\ Begin(s, "spin", u, read) /\ read.pc = "pay" /\ read.c = None /\ read.pay = pay
        /\ UNCHANGED <<rows, lock, wheelVars>>
    <3>1. Begin(s, "spin", u, read)
      BY <1>5, <2>2 DEF Available, Begin
    <3>2. read.pc = "pay" /\ read.c = None /\ read.pay = pay
      BY <2>2 DEF Idle
    <3> QED
      BY <1>5, <3>1, <3>2 DEF Available
  <2>4. /\ Starts(s, "spin", "pay", u) /\ ses'[s].c = None /\ ses'[s].pay = pay
        /\ crowded' \subseteq User /\ started' \in 0..MaxStarts
    BY <1>0, <2>1, <2>3, BeginEffect DEF Op
  <2>5. RowTypeOK'
    BY <1>0, <1>2, <1>3, <2>3, <2>4 DEF Starts, Apart, rows
  <2>6. WheelTypeOK'
    BY <1>0, <2>3 DEF WheelTypeOK, wheelVars
  <2>7. Shape(s)'
    BY <2>1, <2>4, StartShape, IdleType DEF Op
  <2> QED
    BY <2>4, <2>5, <2>6, <2>7 DEF Starts
<1>6. CASE PayStars(s)
  <2>1. /\ Busy(s, "spin") /\ UNCHANGED <<rows, notes, wheelVars>> /\ ses[s].u \in User
        /\ \/ End(s)
           \/ /\ balance[ses[s].u] >= SpinCost /\ Lock(s, ses[s].u)
              /\ ses' = [ses EXCEPT ![s].pc = "prize", ![s].n = balance[ses[s].u] - SpinCost, ![s].debt = TRUE]
    BY <1>0, <1>6 DEF PayStars, At, Busy, Enough, End
  <2>2. Apart(s) /\ Shape(s)' /\ lock' \in [User -> Session \cup {None}]
    <3>1. CASE End(s)
      BY <1>0, <3>1, EndEffect, EndShape, ReleasedType DEF Ends
    <3>2. CASE /\ balance[ses[s].u] >= SpinCost /\ Lock(s, ses[s].u)
               /\ ses' = [ses EXCEPT ![s].pc = "prize", ![s].n = balance[ses[s].u] - SpinCost, ![s].debt = TRUE]
      <4>1. /\ Apart(s)
            /\ ses'[s] = [ses[s] EXCEPT !.pc = "prize", !.n = balance[ses[s].u] - SpinCost, !.debt = TRUE]
        BY <1>0, <2>1, <3>2, PayStarsEffect
      <4>2. /\ ses'[s].op = ses[s].op /\ ses'[s].pc = "prize" /\ ses'[s].u = ses[s].u
            /\ ses'[s].c = ses[s].c /\ ses'[s].pay = ses[s].pay
        BY <1>0, <4>1 DEF SesState
      <4>3. lock' \in [User -> Session \cup {None}]
        BY <1>0, <2>1, <3>2, LockEffect
      <4> QED
        BY <2>1, <4>1, <4>2, <4>3, SpinShape
    <3> QED
      BY <2>1, <3>1, <3>2
  <2> QED
    BY <1>0, <1>2, <1>3, <2>1, <2>2 DEF Apart, rows, notes, WheelTypeOK, wheelVars
<1>7. CASE PayDays(s) \/ WinDays(s)
  <2>1. /\ Busy(s, "spin") /\ UNCHANGED <<booked, notes, wheelVars>> /\ ses[s].u \in User
    BY <1>0, <1>7 DEF PayDays, WinDays, At, Busy
  <2>2. PICK d \in Nat : Synced(s, d) \/ NotSynced(s, d)
    <3>1. ses[s].days \in Nat /\ SpinDays \in Nat /\ PrizeDays \in Nat
      BY <1>0, WheelAssumption DEF SesState
    <3>2. CASE PayDays(s)
      <4>1. PICK d : d = ses[s].days - SpinDays /\ (Synced(s, d) \/ NotSynced(s, d)) /\ ses[s].days >= SpinDays
        BY <3>2 DEF PayDays, Synced, NotSynced
      <4> QED
        BY <3>1, <4>1
    <3>3. CASE WinDays(s)
      <4>1. PICK d : d = ses[s].days + PrizeDays /\ (Synced(s, d) \/ NotSynced(s, d))
        BY <3>3 DEF WinDays, Synced, NotSynced
      <4> QED
        BY <3>1, <4>1
    <3> QED
      BY <1>7, <3>2, <3>3
  <2>3. AfterSync(s) \in {"prize", "record"}
    BY DEF AfterSync
  <2>4. /\ Apart(s) /\ ses'[s].op = ses[s].op /\ ses'[s].pc \in {"prize", "record"} /\ ses'[s].u = ses[s].u
        /\ ses'[s].c = ses[s].c /\ ses'[s].pay = ses[s].pay
        /\ balance' \in [User -> Nat] /\ days' \in [User -> Nat]
        /\ lock' \in [User -> Session \cup {None}]
    <3>1. CASE Synced(s, d)
      <4>1. /\ Apart(s)
            /\ ses'[s] = [ses[s] EXCEPT !.pc = AfterSync(s), !.days = d, !.debt = FALSE, !.dirty = FALSE]
            /\ balance' \in [User -> Nat] /\ days' \in [User -> Nat] /\ lock' = Released(s)
        BY <1>0, <2>1, <3>1, SyncedEffect
      <4>2. /\ ses'[s].op = ses[s].op /\ ses'[s].pc = AfterSync(s) /\ ses'[s].u = ses[s].u
            /\ ses'[s].c = ses[s].c /\ ses'[s].pay = ses[s].pay
        BY <1>0, <4>1 DEF SesState
      <4> QED
        BY <1>0, <2>3, <4>1, <4>2, ReleasedType
    <3>2. CASE NotSynced(s, d)
      <4>1. /\ Apart(s) /\ ses'[s] = [ses[s] EXCEPT !.pc = AfterSync(s), !.days = d, !.dirty = TRUE]
            /\ UNCHANGED <<balance, days, lock>>
        BY <1>0, <3>2, NotSyncedEffect
      <4>2. /\ ses'[s].op = ses[s].op /\ ses'[s].pc = AfterSync(s) /\ ses'[s].u = ses[s].u
            /\ ses'[s].c = ses[s].c /\ ses'[s].pay = ses[s].pay
        BY <1>0, <4>1 DEF SesState
      <4> QED
        BY <1>0, <1>2, <2>3, <4>1, <4>2
    <3> QED
      BY <2>2, <3>1, <3>2
  <2>5. Shape(s)'
    BY <2>1, <2>4, SpinShape
  <2> QED
    BY <1>0, <1>2, <1>3, <2>1, <2>4, <2>5 DEF Apart, notes, WheelTypeOK, wheelVars
<1>8. CASE WinCash(s)
  <2>1. /\ Busy(s, "spin") /\ UNCHANGED <<days, notes, wheelVars>> /\ ses[s].u \in User
        /\ AddBalance(s, ses[s].u, Prize) /\ Prize \in Nat
        /\ ses' = [ses EXCEPT ![s].pc = "record", ![s].r = 1, ![s].flag = Lost(s),
                              ![s].debt = FALSE, ![s].dirty = FALSE]
    BY <1>0, <1>8, WheelAssumption DEF WinCash, At, Busy
  <2>2. /\ Apart(s)
        /\ ses'[s] = [ses[s] EXCEPT !.pc = "record", !.r = 1, !.flag = Lost(s), !.debt = FALSE, !.dirty = FALSE]
    BY <1>0, <2>1, WinCashEffect
  <2>3. /\ ses'[s].op = ses[s].op /\ ses'[s].pc = "record" /\ ses'[s].u = ses[s].u
        /\ ses'[s].c = ses[s].c /\ ses'[s].pay = ses[s].pay
    BY <1>0, <2>2 DEF SesState
  <2>4. /\ balance' \in [User -> Nat] /\ booked' \in [User -> Int]
        /\ lock' \in [User -> Session \cup {None}]
    BY <1>0, <2>1, AddBalanceEffect, ReleasedType
  <2>5. Shape(s)'
    BY <2>1, <2>2, <2>3, SpinShape
  <2> QED
    BY <1>0, <1>2, <1>3, <2>1, <2>2, <2>4, <2>5 DEF Apart, notes, WheelTypeOK, wheelVars
<1>9. CASE WinOther(s)
  <2>1. /\ Busy(s, "spin") /\ UNCHANGED <<rows, lock, notes, wheelVars>>
        /\ ses' = [ses EXCEPT ![s].pc = "record", ![s].r = 2]
    BY <1>9 DEF WinOther, At, Busy
  <2>2. Apart(s) /\ ses'[s] = [ses[s] EXCEPT !.pc = "record", !.r = 2]
    BY <1>0, <2>1, WinOtherEffect
  <2>3. /\ ses'[s].op = ses[s].op /\ ses'[s].pc = "record" /\ ses'[s].u = ses[s].u
        /\ ses'[s].c = ses[s].c /\ ses'[s].pay = ses[s].pay
    BY <1>0, <2>2 DEF SesState
  <2>4. Shape(s)'
    BY <2>1, <2>2, <2>3, SpinShape
  <2> QED
    BY <1>0, <1>2, <1>3, <2>1, <2>2, <2>4 DEF Apart, rows, notes, WheelTypeOK, wheelVars
<1>10. CASE RecordSpin(s)
  <2>1. /\ Busy(s, "spin") /\ UNCHANGED <<booked, broken>> /\ ses[s].u \in User /\ End(s)
        /\ spins' = Append(spins, Recorded(s))
        /\ balance' = [balance EXCEPT ![ses[s].u] = IF ses[s].debt THEN ses[s].n ELSE @]
        /\ days' = [days EXCEPT ![ses[s].u] = IF ses[s].dirty THEN ses[s].days ELSE @]
    BY <1>0, <1>10 DEF RecordSpin, At, Busy
  <2>2. Ends(s) /\ Shape(s)' /\ lock' \in [User -> Session \cup {None}] /\ UNCHANGED notes
    BY <1>0, <2>1, EndEffect, EndShape, ReleasedType
  <2>3. balance' \in [User -> Nat]
    BY <1>0, <1>2, <2>1 DEF SesState
  <2>4. days' \in [User -> Nat]
    BY <1>0, <1>2, <2>1 DEF SesState
  <2>5. PrizeDrawn(s) \in {"cash", "days", "other"}
    BY DEF PrizeDrawn
  <2>6. Recorded(s) \in Spin
    BY <1>0, <2>1, <2>5 DEF Recorded, Spin, SesState
  <2>7. spins' \in Seq(Spin)
    BY <1>0, <2>1, <2>6, AppendProperties DEF WheelTypeOK
  <2> QED
    BY <1>0, <1>2, <1>3, <2>1, <2>2, <2>3, <2>4, <2>7 DEF Ends, Apart, notes, WheelTypeOK
<1> QED
  BY <1>5, <1>6, <1>7, <1>8, <1>9, <1>10 DEF WheelNext

\* A request that is filed comes last, pending.
LEMMA FiledType ==
  ASSUME TypeOK, NEW s \in Session, ses[s].u \in Partner, ses[s].n \in Nat \ {0},
         Len(requests) < MaxRequests,
         requests' = Append(requests, [user |-> ses[s].u, amount |-> ses[s].n, status |-> "pending"])
  PROVE  /\ requests' \in Seq([user : Partner, amount : Nat \ {0}, status : RequestStatus])
         /\ Len(requests') = Len(requests) + 1 /\ Len(requests') <= MaxRequests /\ Len(requests) \in Nat
         /\ DOMAIN requests = 1..Len(requests) /\ DOMAIN requests' = 1..(Len(requests) + 1)
         /\ \A j \in DOMAIN requests : requests'[j] = requests[j]
         /\ requests'[Len(requests) + 1] =
              [user |-> ses[s].u, amount |-> ses[s].n, status |-> "pending"]
<1> DEFINE S == [user : Partner, amount : Nat \ {0}, status : RequestStatus]
           x == [user |-> ses[s].u, amount |-> ses[s].n, status |-> "pending"]
<1>1. requests \in Seq(S) /\ x \in S
  BY DEF TypeOK, WithdrawalTypeOK, RequestStatus
<1> HIDE DEF S, x
<1>2. /\ requests' \in Seq(S) /\ Len(requests') = Len(requests) + 1 /\ Len(requests) \in Nat
      /\ \A j \in 1..Len(requests) : requests'[j] = requests[j]
      /\ requests'[Len(requests) + 1] = x
  <2>1. requests' = Append(requests, x)
    BY DEF x
  <2> QED
    BY <1>1, <2>1, AppendProperties, LenProperties
<1>3. DOMAIN requests = 1..Len(requests) /\ DOMAIN requests' = 1..Len(requests')
  BY <1>1, <1>2, LenProperties
<1>4. Len(requests') <= MaxRequests
  BY <1>2, WithdrawalAssumption
<1> QED
  BY <1>2, <1>3, <1>4 DEF S, x

\* What the steps of an administrator have in common.
LEMMA Decision ==
  ASSUME IInv, NEW s \in Session, NEW status \in RequestStatus, Busy(s, "review"), Decide(s, status)
  PROVE  /\ Ends(s) /\ lock' = Released(s) /\ UNCHANGED notes
         /\ ses[s].r \in DOMAIN requests /\ ses[s].u = requests[ses[s].r].user
         /\ ses[s].u \in User /\ ses[s].pc \in RequestStatus
         /\ requests' = [requests EXCEPT ![ses[s].r].status = status]
         /\ misread' = IF requests[ses[s].r].status = ses[s].pc THEN misread ELSE misread \cup {ses[s].r}
         /\ misread' \subseteq 1..MaxRequests
<1>1. /\ TypeOK /\ ses[s].r \in DOMAIN requests /\ ses[s].u = requests[ses[s].r].user
      /\ ses[s].pc \in RequestStatus
  BY Knows DEF Shape
<1>2. ses[s].r \in 1..MaxRequests /\ ses[s].u \in User /\ misread \subseteq 1..MaxRequests
  BY <1>1, RequestType DEF TypeOK, WithdrawalTypeOK
<1>3. Ends(s) /\ lock' = Released(s) /\ UNCHANGED notes
  BY <1>1, EndEffect DEF Decide
<1>4. /\ requests' = [requests EXCEPT ![ses[s].r].status = status]
      /\ misread' = IF requests[ses[s].r].status = ses[s].pc THEN misread ELSE misread \cup {ses[s].r}
  BY DEF Decide
<1> QED
  BY <1>1, <1>2, <1>3, <1>4

LEMMA WithdrawalTyping ==
  ASSUME IInv, NEW s \in Session, WithdrawalNext(s), UNCHANGED <<promoVars, wheelVars>>
  PROVE  TypeOK' /\ Apart(s) /\ \A t \in Session : Shape(t)'
<1>0. /\ TypeOK /\ Shape(s) /\ ses[s] \in SesState /\ RowTypeOK /\ WithdrawalTypeOK
      /\ Busy(s, "request") => ses[s].u \in User /\ ses[s].u \in Partner
  <2>1. TypeOK /\ Shape(s) /\ ses[s] \in SesState
    BY Knows
  <2> QED
    BY <2>1 DEF TypeOK, Shape, Busy, Working, SesState
<1>1. PromoTypeOK' /\ WheelTypeOK'
  BY <1>0 DEF TypeOK, PromoTypeOK, WheelTypeOK, promoVars, wheelVars
<1>2. RowTypeOK <=> /\ balance \in [User -> Nat] /\ days \in [User -> Nat] /\ booked \in [User -> Int]
                    /\ lock \in [User -> Session \cup {None}] /\ ses \in [Session -> SesState]
                    /\ crowded \subseteq User /\ started \in 0..MaxStarts
  BY DEF RowTypeOK, SesState
<1>3. RowTypeOK' <=> /\ balance' \in [User -> Nat] /\ days' \in [User -> Nat] /\ booked' \in [User -> Int]
                     /\ lock' \in [User -> Session \cup {None}] /\ ses' \in [Session -> SesState]
                     /\ crowded' \subseteq User /\ started' \in 0..MaxStarts
  BY DEF RowTypeOK, SesState
<1> DEFINE Earlier == \A i \in DOMAIN requests : i \in DOMAIN requests' /\ requests'[i].user = requests[i].user
<1>4. SUFFICES RowTypeOK' /\ WithdrawalTypeOK' /\ Apart(s) /\ Shape(s)' /\ Earlier
  BY <1>1, ShapeFrame DEF TypeOK
<1>5. ASSUME NEW u \in Partner, LoadUser(s, u)
      PROVE  RowTypeOK' /\ WithdrawalTypeOK' /\ Apart(s) /\ Shape(s)' /\ Earlier
  <2>1. u \in User
    BY <1>5, WithdrawalAssumption
  <2>2. PICK read \in SesState : read = [Idle EXCEPT !.pc = "hold", !.n = balance[u]]
    BY <1>0, <2>1, ReadType
  <2>3. /\ Begin(s, "request", u, read) /\ read.pc = "hold" /\ read.c = None
        /\ UNCHANGED <<rows, lock, withdrawalVars>>
    <3>1. Begin(s, "request", u, read)
      BY <1>5, <2>2 DEF LoadUser, Begin
    <3>2. read.pc = "hold" /\ read.c = None
      BY <2>2 DEF Idle
    <3> QED
      BY <1>5, <3>1, <3>2 DEF LoadUser
  <2>4. /\ Starts(s, "request", "hold", u) /\ ses'[s].c = None
        /\ crowded' \subseteq User /\ started' \in 0..MaxStarts
    BY <1>0, <2>1, <2>3, BeginEffect DEF Op
  <2>5. RowTypeOK'
    BY <1>0, <1>2, <1>3, <2>3, <2>4 DEF Starts, Apart, rows
  <2>6. WithdrawalTypeOK' /\ Earlier
    BY <1>0, <2>3 DEF WithdrawalTypeOK, withdrawalVars
  <2>7. Shape(s)'
    BY <1>5, <2>1, <2>4, StartShape, IdleType DEF Op
  <2> QED
    BY <2>4, <2>5, <2>6, <2>7 DEF Starts
<1>6. CASE HoldUser(s)
  <2>1. /\ Busy(s, "request") /\ ses[s].u \in User /\ Lock(s, ses[s].u) /\ Goto(s, "ask")
        /\ UNCHANGED <<rows, notes, withdrawalVars>>
    BY <1>0, <1>6 DEF HoldUser, At, Busy, Continue
  <2>2. Goes(s, "ask") /\ Shape(s)'
    BY <1>0, <2>1, GotoEffect, GoShape DEF Busy, PC
  <2>3. lock' \in [User -> Session \cup {None}]
    BY <1>0, <2>1, LockEffect
  <2> QED
    BY <1>0, <1>2, <1>3, <2>1, <2>2, <2>3 DEF Goes, Apart, rows, notes, WithdrawalTypeOK, withdrawalVars
<1>7. CASE AskAmount(s)
  <2>1. /\ Busy(s, "request") /\ UNCHANGED <<rows, notes, withdrawalVars>> /\ ses[s].u \in User
    BY <1>0, <1>7 DEF AskAmount, At, Busy, End
  <2>2. Apart(s) /\ Shape(s)' /\ lock' \in [User -> Session \cup {None}]
    <3>1. CASE End(s)
      BY <1>0, <3>1, EndEffect, EndShape, ReleasedType DEF Ends
    <3>2. CASE ~End(s)
      <4>1. PICK a \in MinAmount..AvailableAmount(s) : ses' = [ses EXCEPT ![s].pc = "file", ![s].n = a]
        BY <1>7, <3>2 DEF AskAmount
      <4>2. a \in Nat \ {0} /\ UNCHANGED lock
        BY <1>7, <3>2, <4>1, WithdrawalAssumption DEF AskAmount
      <4>3. Apart(s) /\ ses'[s] = [ses[s] EXCEPT !.pc = "file", !.n = a]
        BY <1>0, <4>1, <4>2, AskEffect
      <4>4. /\ ses'[s].op = ses[s].op /\ ses'[s].pc = "file" /\ ses'[s].u = ses[s].u
            /\ ses'[s].c = ses[s].c
        BY <1>0, <4>3 DEF SesState
      <4>5. Shape(s)'
        BY <1>0, <2>1, <4>4 DEF Shape, Busy, Working
      <4> QED
        BY <1>0, <1>2, <4>2, <4>3, <4>5
    <3> QED
      BY <3>1, <3>2
  <2> QED
    BY <1>0, <1>2, <1>3, <2>1, <2>2 DEF Apart, rows, notes, WithdrawalTypeOK, withdrawalVars
<1>8. CASE FileRequest(s)
  <2>1. /\ Busy(s, "request") /\ UNCHANGED <<rows, charged, misread>> /\ End(s) /\ ses[s].u \in Partner
        /\ Len(requests) < MaxRequests
        /\ requests' = Append(requests, [user |-> ses[s].u, amount |-> ses[s].n, status |-> "pending"])
    BY <1>0, <1>8 DEF FileRequest, At, Busy
  <2>2. ses[s].n \in Nat \ {0}
    BY <1>0, <1>8, Knows DEF SessionInv, Filing, FileRequest, SesState
  <2>3. Ends(s) /\ Shape(s)' /\ lock' \in [User -> Session \cup {None}] /\ UNCHANGED notes
    BY <1>0, <2>1, EndEffect, EndShape, ReleasedType
  <2>4. WithdrawalTypeOK'
    BY <1>0, <2>1, <2>2, FiledType DEF WithdrawalTypeOK
  <2>5. Earlier
    BY <1>0, <2>1, <2>2, FiledType
  <2> QED
    BY <1>0, <1>2, <1>3, <2>1, <2>3, <2>4, <2>5 DEF Ends, Apart, rows, notes
<1>9. ASSUME NEW i \in DOMAIN requests, OpenRequest(s, i)
      PROVE  RowTypeOK' /\ WithdrawalTypeOK' /\ Apart(s) /\ Shape(s)' /\ Earlier
  <2>1. PICK u \in User : u = requests[i].user
    BY <1>0, <1>9, RequestType
  <2>2. PICK read \in SesState : read = [Idle EXCEPT !.pc = requests[i].status, !.r = i]
    BY <1>0, <1>9, ReviewType
  <2>3. /\ Begin(s, "review", u, read) /\ read.pc \in RequestStatus /\ read.c = None /\ read.r = i
        /\ UNCHANGED <<rows, lock, withdrawalVars>>
    <3>1. Begin(s, "review", u, read)
      BY <1>9, <2>1, <2>2 DEF OpenRequest, Begin
    <3>2. read.pc = requests[i].status /\ read.c = None /\ read.r = i
      BY <2>2 DEF Idle
    <3>3. requests[i].status \in RequestStatus
      BY <1>0, <1>9, RequestType
    <3> QED
      BY <1>9, <3>1, <3>2, <3>3 DEF OpenRequest
  <2>4. /\ Starts(s, "review", read.pc, u) /\ ses'[s].c = None /\ ses'[s].r = i
        /\ crowded' \subseteq User /\ started' \in 0..MaxStarts
    BY <1>0, <2>1, <2>3, BeginEffect DEF Op
  <2>5. RowTypeOK'
    BY <1>0, <1>2, <1>3, <2>3, <2>4 DEF Starts, Apart, rows
  <2>6. WithdrawalTypeOK' /\ Earlier
    BY <1>0, <2>3 DEF WithdrawalTypeOK, withdrawalVars
  <2>7. Shape(s)'
    <3>1. requests' = requests
      BY <2>3 DEF withdrawalVars
    <3> QED
      BY <1>9, <2>1, <2>3, <2>4, <3>1, StartShape, IdleType DEF Op
  <2> QED
    BY <2>4, <2>5, <2>6, <2>7 DEF Starts
<1>10. CASE Approve(s) \/ Reject(s) \/ Complete(s)
  <2>1. Busy(s, "review") /\ UNCHANGED days
    BY <1>10 DEF Approve, Reject, Complete, rows
  <2>2. PICK status \in RequestStatus : Decide(s, status)
    BY <1>10 DEF Approve, Reject, Complete, RequestStatus
  <2>3. Ends(s) /\ Shape(s)' /\ lock' \in [User -> Session \cup {None}] /\ UNCHANGED notes
    BY <1>0, <2>1, <2>2, Decision, EndShape, ReleasedType
  <2>4. /\ ses[s].r \in DOMAIN requests /\ ses[s].r \in 1..MaxRequests
        /\ ses[s].u \in User /\ requests[ses[s].r].amount \in Nat
        /\ misread' \subseteq 1..MaxRequests
        /\ requests' = [requests EXCEPT ![ses[s].r].status = status]
    BY <1>0, <2>1, <2>2, Decision, RequestType
  <2>5. /\ requests' \in Seq([user : Partner, amount : Nat \ {0}, status : RequestStatus])
        /\ Len(requests') <= MaxRequests /\ Earlier
    BY <1>0, <2>2, <2>4, DecidedType DEF WithdrawalTypeOK
  <2>6. /\ balance' \in [User -> Nat] /\ booked' \in [User -> Int]
        /\ charged' \in [1..MaxRequests -> Nat]
    <3>1. CASE UNCHANGED <<rows, charged>>
      BY <1>0, <1>2, <3>1 DEF rows, WithdrawalTypeOK
    <3>2. CASE Approve(s)
      <4>1. PICK m \in Nat : m = requests[ses[s].r].amount
        BY <2>4
      <4>2. /\ balance[ses[s].u] >= m
            /\ balance' = [balance EXCEPT ![ses[s].u] = @ - m]
            /\ booked' = [booked EXCEPT ![ses[s].u] = @ - m]
            /\ charged' = [charged EXCEPT ![ses[s].r] = @ + 1]
        BY <3>2, <4>1 DEF Approve, Covered
      <4>3. balance' \in [User -> Nat]
        BY <1>0, <1>2, <2>4, <4>2
      <4>4. booked' \in [User -> Int]
        BY <1>0, <1>2, <2>4, <4>2
      <4>5. charged' \in [1..MaxRequests -> Nat]
        BY <1>0, <2>4, <4>2 DEF WithdrawalTypeOK
      <4> QED
        BY <4>3, <4>4, <4>5
    <3> QED
      BY <1>10, <3>1, <3>2 DEF Reject, Complete
  <2> QED
    BY <1>0, <1>2, <1>3, <2>1, <2>3, <2>4, <2>5, <2>6 DEF Ends, Apart, notes, WithdrawalTypeOK
<1>11. CASE Decline(s)
  <2>1. UNCHANGED <<rows, withdrawalVars>> /\ End(s)
    BY <1>11 DEF Decline
  <2>2. Ends(s) /\ Shape(s)' /\ lock' \in [User -> Session \cup {None}] /\ UNCHANGED notes
    BY <1>0, <2>1, EndEffect, EndShape, ReleasedType
  <2> QED
    BY <1>0, <1>2, <1>3, <2>1, <2>2 DEF Ends, Apart, rows, notes, WithdrawalTypeOK, withdrawalVars
<1> QED
  BY <1>5, <1>6, <1>7, <1>8, <1>9, <1>10, <1>11 DEF WithdrawalNext

\* A user cancels a request: no session is touched.
LEMMA CancelTyping ==
  ASSUME IInv, NEW i \in DOMAIN requests, Cancel(i), UNCHANGED <<promoVars, wheelVars>>
  PROVE  TypeOK' /\ UNCHANGED ses /\ \A t \in Session : Shape(t)'
<1>1. TypeOK /\ WithdrawalTypeOK
  BY DEF IInv, TypeOK
<1>2. /\ requests' = [requests EXCEPT ![i].status = "cancelled"] /\ "cancelled" \in RequestStatus
      /\ UNCHANGED <<rowVars, charged, misread>>
  BY DEF Cancel, RequestStatus
<1>3. /\ requests' \in Seq([user : Partner, amount : Nat \ {0}, status : RequestStatus])
      /\ DOMAIN requests' = DOMAIN requests /\ Len(requests') = Len(requests)
      /\ \A j \in DOMAIN requests : requests'[j].user = requests[j].user
  BY <1>1, <1>2, DecidedType
<1>4. WithdrawalTypeOK'
  BY <1>1, <1>2, <1>3 DEF WithdrawalTypeOK
<1>5. RowTypeOK' /\ PromoTypeOK' /\ WheelTypeOK' /\ UNCHANGED ses
  BY <1>1, <1>2 DEF TypeOK, RowTypeOK, PromoTypeOK, WheelTypeOK, rowVars, rows, notes, promoVars, wheelVars
<1>6. \A t \in Session : Shape(t)'
  <2> SUFFICES ASSUME NEW t \in Session PROVE Shape(t)'
    OBVIOUS
  <2>1. Shape(t) /\ UNCHANGED ses
    BY <1>5, Knows
  <2> QED
    BY <1>3, <2>1 DEF Shape, Busy, Working
<1> QED
  BY <1>4, <1>5, <1>6 DEF TypeOK

LEMMA BreakOffTyping ==
  ASSUME IInv, NEW s \in Session, BreakOff(s)
  PROVE  TypeOK' /\ Ends(s) /\ \A t \in Session : Shape(t)'
<1>1. TypeOK /\ RowTypeOK /\ PromoTypeOK /\ WheelTypeOK /\ WithdrawalTypeOK /\ Shape(s)
  BY Knows DEF TypeOK
<1>2. Ends(s) /\ Shape(s)' /\ lock' \in [User -> Session \cup {None}] /\ UNCHANGED notes
  BY <1>1, EndEffect, EndShape, ReleasedType DEF BreakOff
<1>3. UNCHANGED <<rows, discount, uses, count, granted, spins, withdrawalVars>>
  BY DEF BreakOff
<1>4. RowTypeOK'
  BY <1>1, <1>2, <1>3 DEF RowTypeOK, SesState, rows, notes, Ends, Apart
<1>5. loose' \subseteq Code /\ broken' \subseteq User
  <2>1. /\ At(s, "activate", "count") => ses[s].c \in Code
        /\ Busy(s, "spin") => ses[s].u \in User
    BY <1>1 DEF Shape, At, Busy, Working
  <2> QED
    BY <1>1, <2>1 DEF BreakOff, PromoTypeOK, WheelTypeOK
<1>6. PromoTypeOK' /\ WheelTypeOK' /\ WithdrawalTypeOK'
  BY <1>1, <1>3, <1>5 DEF PromoTypeOK, WheelTypeOK, WithdrawalTypeOK, withdrawalVars
<1>7. \A t \in Session : Shape(t)'
  BY <1>2, <1>3, ShapeFrame DEF Ends, withdrawalVars
<1> QED
  BY <1>2, <1>4, <1>6, <1>7 DEF TypeOK

-----------------------------------------------------------------------------
(* The uses of a code. *)

Key(s) == <<ses[s].c, ses[s].u>>
AtWorkOnUse(s) == Busy(s, "activate") /\ ses[s].pc \in {"apply", "count"}

\* The ways a step of s can bear on the uses.
Reserves(s) ==
  /\ Busy(s, "activate") /\ Key(s) \notin uses /\ UNCHANGED <<uses, granted>>
  /\ \A t \in Session \ {s} : ~ Rival(t, ses[s].u, ses[s].c)
  /\ Goes(s, "apply")
Applies(s) ==
  /\ At(s, "activate", "apply") /\ Goes(s, "count")
  /\ IF Kind[ses[s].c] = "discount" THEN UNCHANGED <<uses, granted>> ELSE Use(ses[s].u, ses[s].c)
Counts(s) ==
  /\ At(s, "activate", "count") /\ Ends(s)
  /\ IF Kind[ses[s].c] = "discount" THEN Use(ses[s].u, ses[s].c) ELSE UNCHANGED <<uses, granted>>
GivesBack(s) ==
  /\ Busy(s, "deactivate") /\ Ends(s)
  /\ \/ uses' = uses \ {Key(s)} /\ granted' = [granted EXCEPT ![Key(s)] = 0]
     \/ UNCHANGED <<uses, granted>>
LeavesUses(s) == Apart(s) /\ UNCHANGED <<uses, granted>> /\ ~ AtWorkOnUse(s)'

LEMMA PromoMoves ==
  ASSUME IInv, NEW s \in Session, PromoNext(s), Apart(s)
  PROVE  LeavesUses(s) \/ Reserves(s) \/ Applies(s) \/ Counts(s) \/ GivesBack(s)
<1>0. TypeOK
  BY Knows
<1>1. ASSUME NEW u \in User, NEW c \in Code, Look(s, u, c)
      PROVE  LeavesUses(s)
  <2>1. PICK read \in SesState :
          read = [Idle EXCEPT !.pc = "check", !.c = c, !.days = days[u], !.flag = discount[u] # None]
    BY <1>0, ReadType
  <2>2. Begin(s, "activate", u, read) /\ read.pc = "check" /\ UNCHANGED <<uses, granted>>
    <3>1. Begin(s, "activate", u, read)
      BY <1>1, <2>1 DEF Look, Begin
    <3>2. read.pc = "check"
      BY <2>1 DEF Idle
    <3> QED
      BY <1>1, <3>1, <3>2 DEF Look
  <2>3. Starts(s, "activate", "check", u)
    BY <1>0, <2>2, BeginEffect DEF Op
  <2> QED
    BY <2>2, <2>3 DEF LeavesUses, Starts, AtWorkOnUse, Busy
<1>2. ASSUME NEW u \in User, LookDiscount(s, u)
      PROVE  LeavesUses(s)
  <2>1. PICK c \in Code : c = discount[u]
    BY <1>0, <1>2 DEF LookDiscount, TypeOK, PromoTypeOK
  <2>2. PICK read \in SesState :
          read = [Idle EXCEPT !.pc = "write", !.c = c, !.n = count[c],
                              !.r = IF <<c, u>> \in uses THEN 1 ELSE 0, !.flag = <<c, u>> \in uses]
    BY <1>0, DiscountReadType
  <2>3. Begin(s, "deactivate", u, read) /\ UNCHANGED <<uses, granted>>
    <3>1. Begin(s, "deactivate", u, read)
      BY <1>2, <2>1, <2>2 DEF LookDiscount, Begin
    <3> QED
      BY <1>2, <2>1, <3>1 DEF LookDiscount
  <2>4. Starts(s, "deactivate", read.pc, u)
    BY <1>0, <2>3, BeginEffect DEF Op
  <2> QED
    BY <2>3, <2>4 DEF LeavesUses, Starts, AtWorkOnUse, Busy
<1>3. CASE Check(s)
  <2>1. UNCHANGED <<uses, granted>> /\ (End(s) \/ Goto(s, "reserve"))
    BY <1>3 DEF Check, Continue, promoVars
  <2>2. Ends(s) \/ Goes(s, "reserve")
    BY <1>0, <2>1, EndEffect, GotoEffect DEF PC
  <2> QED
    BY <2>1, <2>2, IdleType DEF LeavesUses, Ends, Goes, AtWorkOnUse, Busy, Idle
<1>4. CASE Reserve(s)
  <2>1. UNCHANGED <<uses, granted>>
    BY <1>4 DEF Reserve, promoVars
  <2>2. CASE Key(s) \in uses
    <3>1. Ends(s)
      BY <1>0, <1>4, <2>2, EndEffect DEF Reserve, Key
    <3> QED
      BY <2>1, <3>1 DEF LeavesUses, Ends, AtWorkOnUse, Busy, Idle
  <2>3. CASE Key(s) \notin uses
    <3>1. /\ Busy(s, "activate") /\ Goto(s, "apply")
          /\ \A t \in Session \ {s} : ~ Rival(t, ses[s].u, ses[s].c)
      BY <1>4, <2>3 DEF Reserve, Key, At, Busy, Continue
    <3>2. Goes(s, "apply")
      BY <1>0, <3>1, GotoEffect DEF PC
    <3> QED
      BY <2>1, <2>3, <3>1, <3>2 DEF Reserves
  <2> QED
    BY <2>2, <2>3
<1>5. CASE ApplyBalance(s) \/ ApplyDays(s) \/ ApplyDiscount(s)
  <2>1. At(s, "activate", "apply") /\ Goto(s, "count")
    BY <1>5 DEF ApplyBalance, ApplyDays, ApplyDiscount, Continue
  <2>2. Goes(s, "count")
    BY <1>0, <2>1, GotoEffect DEF PC
  <2>3. IF Kind[ses[s].c] = "discount" THEN UNCHANGED <<uses, granted>> ELSE Use(ses[s].u, ses[s].c)
    BY <1>5 DEF ApplyBalance, ApplyDays, ApplyDiscount, promoVars
  <2> QED
    BY <2>1, <2>2, <2>3 DEF Applies
<1>6. CASE Inapplicable(s)
  <2>1. Ends(s) /\ UNCHANGED <<uses, granted>>
    BY <1>0, <1>6, EndEffect DEF Inapplicable, promoVars
  <2> QED
    BY <2>1 DEF LeavesUses, Ends, AtWorkOnUse, Busy, Idle
<1>7. CASE Count(s)
  BY <1>0, <1>7, EndEffect DEF Count, Counts
<1>8. CASE GiveBack(s)
  <2>1. Busy(s, "deactivate") /\ Ends(s)
    BY <1>0, <1>8, GiveBackEffect DEF GiveBack, At, Busy
  <2> QED
    BY <1>8, <2>1 DEF GiveBack, GivesBack, Key
<1> QED
  BY <1>1, <1>2, <1>3, <1>4, <1>5, <1>6, <1>7, <1>8 DEF PromoNext

\* Whoever is at work on a use is the only one, and no use is reserved twice.
LEMMA UsesFrame ==
  ASSUME IInv, NEW s \in Session,
         LeavesUses(s) \/ Reserves(s) \/ Applies(s) \/ Counts(s) \/ GivesBack(s)
  PROVE  \A t \in Session : Unused(t)' /\ Unrivalled(t)'
<1>1. Apart(s)
  BY DEF LeavesUses, Reserves, Applies, Counts, GivesBack, Goes, Ends
<1>2. \A t \in Session : Unused(t) /\ Unrivalled(t)
  BY Knows DEF SessionInv
<1>3. /\ uses' \subseteq uses \cup {Key(s)}
      /\ uses' \subseteq uses \/ AtWorkOnUse(s)
  BY DEF LeavesUses, Reserves, Applies, Counts, GivesBack, Use, Key, At, Busy, AtWorkOnUse
<1>4. AtWorkOnUse(s)' =>
        /\ Busy(s, "activate") /\ ses'[s].u = ses[s].u /\ ses'[s].c = ses[s].c
        /\ \A t \in Session \ {s} : ~ Rival(t, ses[s].u, ses[s].c)
  <2>1. CASE Reserves(s)
    BY <2>1 DEF Reserves, Goes
  <2>2. CASE Applies(s)
    BY <1>2, <2>2 DEF Applies, Goes, Unrivalled, At, Busy
  <2>3. CASE Counts(s) \/ GivesBack(s)
    BY <2>3 DEF Counts, GivesBack, Ends, AtWorkOnUse, Busy, Idle
  <2> QED
    BY <2>1, <2>2, <2>3 DEF LeavesUses
<1>5. Reserved(s)' => Key(s) \notin uses'
  <2>1. CASE Reserves(s)
    BY <2>1 DEF Reserves
  <2>2. CASE Applies(s)
    BY <1>2, <2>2 DEF Applies, Goes, Unused, Reserved, Key, At
  <2>3. CASE Counts(s) \/ GivesBack(s) \/ LeavesUses(s)
    BY <2>3 DEF Counts, GivesBack, LeavesUses, Ends, AtWorkOnUse, Reserved, At, Busy, Idle
  <2> QED
    BY <2>1, <2>2, <2>3
<1>6. Unused(s)' /\ Unrivalled(s)'
  <2>2. Unused(s)'
    BY <1>4, <1>5 DEF Unused, Reserved, At, AtWorkOnUse, Busy, Key
  <2>3. Unrivalled(s)'
    BY <1>1, <1>4 DEF Unrivalled, Rival, At, AtWorkOnUse, Busy, Apart
  <2> QED
    BY <2>2, <2>3
<1>7. ASSUME NEW t \in Session, t # s
      PROVE  Unused(t)' /\ Unrivalled(t)'
  <2>1. /\ ses'[t].op = ses[t].op /\ ses'[t].pc = ses[t].pc
        /\ ses'[t].u = ses[t].u /\ ses'[t].c = ses[t].c
    BY <1>1, <1>7 DEF Apart
  <2>2. Unused(t)'
    <3>1. SUFFICES ASSUME Reserved(t)', Key(t)' \in uses'
                   PROVE  FALSE
      BY DEF Unused, Key
    <3>2. Reserved(t) /\ Key(t) \notin uses /\ Key(t)' = Key(t)
      BY <1>2, <1>7, <2>1, <3>1 DEF Unused, Reserved, At, Key
    <3>3. Key(t) = Key(s) /\ AtWorkOnUse(s)
      BY <1>3, <3>1, <3>2
    <3>4. Rival(t, ses[s].u, ses[s].c)
      BY <3>2, <3>3 DEF Rival, Reserved, At, Busy, Key
    <3> QED
      BY <1>2, <1>7, <3>3, <3>4 DEF Unrivalled, AtWorkOnUse, At, Busy
  <2>3. Unrivalled(t)'
    <3>1. SUFFICES ASSUME AtWorkOnUse(t)', NEW v \in Session \ {t}, AtWorkOnUse(v)',
                          ses'[v].u = ses'[t].u, ses'[v].c = ses'[t].c
                   PROVE  FALSE
      BY DEF Unrivalled, AtWorkOnUse, At, Busy, Rival
    <3>2. AtWorkOnUse(t)
      BY <2>1, <3>1 DEF AtWorkOnUse, Busy
    <3>3. CASE v = s
      <4>1. AtWorkOnUse(s)' /\ ses'[s].u = ses[t].u /\ ses'[s].c = ses[t].c
        BY <2>1, <3>1, <3>3
      <4>2. Rival(t, ses[s].u, ses[s].c)
        BY <1>4, <3>2, <4>1 DEF Rival, AtWorkOnUse
      <4> QED
        BY <1>4, <1>7, <4>1, <4>2
    <3>4. CASE v # s
      <4>1. Rival(v, ses[t].u, ses[t].c)
        BY <1>1, <2>1, <3>1, <3>4 DEF Apart, Rival, AtWorkOnUse, Busy
      <4> QED
        BY <1>2, <1>7, <3>1, <3>2, <4>1 DEF Unrivalled, AtWorkOnUse, At, Busy
    <3> QED
      BY <3>3, <3>4
  <2> QED
    BY <2>2, <2>3
<1> QED
  BY <1>6, <1>7

\* A use that is written was not there before.
LEMMA BonusFrame ==
  ASSUME IInv, NEW s \in Session,
         LeavesUses(s) \/ Reserves(s) \/ Applies(s) \/ Counts(s) \/ GivesBack(s)
  PROVE  BonusOncePerUse'
<1>0. /\ TypeOK /\ Unused(s) /\ Shape(s) /\ BonusOncePerUse
      /\ granted \in [Code \X User -> Nat]
  BY Knows DEF SessionInv, IInv, TypeOK, PromoTypeOK
<1>1. CASE UNCHANGED <<uses, granted>>
  BY <1>0, <1>1 DEF BonusOncePerUse
<1>2. CASE /\ AtWorkOnUse(s) /\ Reserved(s) /\ Use(ses[s].u, ses[s].c)
  <2>1. PICK k \in Code \X User : k = Key(s)
    BY <1>0, <1>2, Knows DEF Key, AtWorkOnUse, Busy, Working
  <2>2. k \notin uses /\ uses' = uses \cup {k} /\ granted' = [granted EXCEPT ![k] = @ + 1]
    BY <1>0, <1>2, <2>1 DEF Unused, Use, Key
  <2> QED
    BY <1>0, <2>2 DEF BonusOncePerUse
<1>3. CASE GivesBack(s)
  <2>1. PICK k \in Code \X User : k = Key(s)
    BY <1>0, <1>3, Knows DEF Key, GivesBack, Busy, Working
  <2>2. \/ uses' = uses \ {k} /\ granted' = [granted EXCEPT ![k] = 0]
        \/ UNCHANGED <<uses, granted>>
    BY <1>3, <2>1 DEF GivesBack
  <2> QED
    BY <1>0, <2>2 DEF BonusOncePerUse
<1> QED
  BY <1>1, <1>2, <1>3 DEF LeavesUses, Reserves, Applies, Counts, AtWorkOnUse, Reserved, At, Busy

-----------------------------------------------------------------------------
(* The requests, and the rows that are held for them. *)

\* What s does not hold stays as it was held.
LocksKept(s) == \A v \in User : lock[v] \notin {None, s} => lock'[v] = lock[v]

\* A step that does not bear on the requests.
LeavesRequests(s) ==
  /\ Apart(s) /\ LocksKept(s) /\ UNCHANGED withdrawalVars
  /\ ~ At(s, "request", "ask")' /\ ~ At(s, "request", "file")'

LEMMA EndLeaves ==
  ASSUME IInv, NEW s \in Session, End(s), UNCHANGED withdrawalVars
  PROVE  LeavesRequests(s)
<1>1. TypeOK
  BY Knows
<1>2. Ends(s) /\ lock' = Released(s)
  BY <1>1, EndEffect
<1>3. LocksKept(s)
  BY <1>1, <1>2, ReleasedType DEF LocksKept
<1> QED
  BY <1>2, <1>3 DEF LeavesRequests, Ends, At, Idle

LEMMA PromoLeaves ==
  ASSUME IInv, NEW s \in Session, PromoNext(s), UNCHANGED withdrawalVars, Apart(s)
  PROVE  LeavesRequests(s)
<1>0. TypeOK /\ (Working(s) => ses[s].u \in User)
  BY Knows
<1>1. CASE /\ UNCHANGED lock /\ ses'[s].pc \notin {"ask", "file"}
  BY <1>1 DEF LeavesRequests, LocksKept, At
<1>2. ASSUME NEW u \in User, NEW c \in Code, Look(s, u, c)
      PROVE  ses'[s].pc = "check"
  <2>1. PICK read \in SesState :
          read = [Idle EXCEPT !.pc = "check", !.c = c, !.days = days[u], !.flag = discount[u] # None]
    BY <1>0, ReadType
  <2>2. Begin(s, "activate", u, read)
    BY <1>2, <2>1 DEF Look, Begin
  <2>3. Starts(s, "activate", read.pc, u)
    BY <1>0, <2>2, BeginEffect DEF Op
  <2> QED
    BY <2>1, <2>3 DEF Starts, Idle
<1>3. ASSUME NEW u \in User, LookDiscount(s, u)
      PROVE  ses'[s].pc = "write"
  <2>1. PICK c \in Code : c = discount[u]
    BY <1>0, <1>3 DEF LookDiscount, TypeOK, PromoTypeOK
  <2>2. PICK read \in SesState :
          read = [Idle EXCEPT !.pc = "write", !.c = c, !.n = count[c],
                              !.r = IF <<c, u>> \in uses THEN 1 ELSE 0, !.flag = <<c, u>> \in uses]
    BY <1>0, DiscountReadType
  <2>3. Begin(s, "deactivate", u, read)
    BY <1>3, <2>1, <2>2 DEF LookDiscount, Begin
  <2>4. Starts(s, "deactivate", read.pc, u)
    BY <1>0, <2>3, BeginEffect DEF Op
  <2> QED
    BY <2>2, <2>4 DEF Starts, Idle
<1>4. CASE ApplyBalance(s) \/ ApplyDays(s) \/ ApplyDiscount(s)
  <2>1. Goto(s, "count") /\ ses[s].u \in User
    BY <1>0, <1>4 DEF ApplyBalance, ApplyDays, ApplyDiscount, Continue, At, Working
  <2>2. ses'[s].pc = "count"
    BY <1>0, <2>1, GotoEffect DEF Goes, PC
  <2>3. LocksKept(s)
    <3>1. CASE lock' = Released(s) \/ UNCHANGED lock
      BY <1>0, <3>1, ReleasedType DEF LocksKept
    <3>2. CASE Lock(s, ses[s].u)
      BY <1>0, <2>1, <3>2, LockEffect DEF LocksKept
    <3> QED
      BY <1>4, <3>1, <3>2 DEF ApplyBalance, ApplyDays, ApplyDiscount, AddBalance, Release
  <2> QED
    BY <2>2, <2>3 DEF LeavesRequests, At
<1>5. CASE Check(s) \/ Reserve(s)
  <2>1. End(s) \/ (UNCHANGED lock /\ \E pc \in {"reserve", "apply"} : Goto(s, pc))
    BY <1>5 DEF Check, Reserve, Continue
  <2>2. CASE UNCHANGED lock /\ \E pc \in {"reserve", "apply"} : Goto(s, pc)
    <3>1. PICK pc \in {"reserve", "apply"} : Goto(s, pc)
      BY <2>2
    <3>2. ses'[s].pc = pc
      BY <1>0, <3>1, GotoEffect DEF Goes, PC
    <3> QED
      BY <1>1, <2>2, <3>2
  <2> QED
    BY <2>1, <2>2, EndLeaves
<1>6. CASE Inapplicable(s) \/ Count(s)
  BY <1>6, EndLeaves DEF Inapplicable, Count
<1>7. CASE GiveBack(s)
  <2>1. Ends(s) /\ UNCHANGED lock
    BY <1>0, <1>7, GiveBackEffect DEF GiveBack
  <2> QED
    BY <1>1, <2>1 DEF Ends, Idle
<1> QED
  BY <1>1, <1>2, <1>3, <1>4, <1>5, <1>6, <1>7 DEF PromoNext, Look, LookDiscount

LEMMA WheelLeaves ==
  ASSUME IInv, NEW s \in Session, WheelNext(s), UNCHANGED withdrawalVars, Apart(s)
  PROVE  LeavesRequests(s) /\ ~ AtWorkOnUse(s)'
<1>0. TypeOK /\ ses[s] \in SesState /\ (Working(s) => ses[s].u \in User)
  BY Knows
<1>1. CASE LocksKept(s) /\ ses'[s].op = "spin"
  BY <1>1 DEF LeavesRequests, At, AtWorkOnUse, Busy
<1>2. CASE End(s)
  BY <1>0, <1>2, EndLeaves, EndEffect DEF Ends, AtWorkOnUse, Busy, Idle
<1>3. ASSUME NEW u \in Player, NEW pay \in {"balance", "days"}, Available(s, u, pay)
      PROVE  LocksKept(s) /\ ses'[s].op = "spin"
  <2>1. u \in User
    BY <1>3, WheelAssumption
  <2>2. PICK read \in SesState : read = [Idle EXCEPT !.pc = "pay", !.pay = pay, !.days = days[u]]
    BY <1>0, <2>1, ReadType
  <2>3. Begin(s, "spin", u, read) /\ UNCHANGED lock
    BY <1>3, <2>2 DEF Available, Begin
  <2> QED
    BY <1>0, <2>1, <2>3, BeginEffect DEF Starts, LocksKept, Op
<1>4. CASE PayStars(s) /\ ~End(s)
  <2>1. /\ ses[s].op = "spin" /\ ses[s].u \in User /\ balance[ses[s].u] >= SpinCost /\ Lock(s, ses[s].u)
        /\ ses' = [ses EXCEPT ![s].pc = "prize", ![s].n = balance[ses[s].u] - SpinCost, ![s].debt = TRUE]
    BY <1>0, <1>4 DEF PayStars, At, Enough, Working
  <2>2. ses'[s] = [ses[s] EXCEPT !.pc = "prize", !.n = balance[ses[s].u] - SpinCost, !.debt = TRUE]
    BY <1>0, <2>1, PayStarsEffect
  <2>3. ses'[s].op = ses[s].op
    BY <1>0, <2>2 DEF SesState
  <2> QED
    BY <1>0, <1>1, <2>1, <2>3, LockEffect DEF LocksKept
<1>5. CASE PayDays(s) \/ WinDays(s)
  <2>1. ses[s].op = "spin" /\ ses[s].u \in User
    BY <1>0, <1>5 DEF PayDays, WinDays, At, Working
  <2>2. PICK d \in Nat : Synced(s, d) \/ NotSynced(s, d)
    <3>1. ses[s].days \in Nat /\ SpinDays \in Nat /\ PrizeDays \in Nat
      BY <1>0, WheelAssumption DEF SesState
    <3>2. CASE PayDays(s)
      <4>1. PICK d : d = ses[s].days - SpinDays /\ (Synced(s, d) \/ NotSynced(s, d)) /\ ses[s].days >= SpinDays
        BY <3>2 DEF PayDays, Synced, NotSynced
      <4> QED
        BY <3>1, <4>1
    <3>3. CASE WinDays(s)
      <4>1. PICK d : d = ses[s].days + PrizeDays /\ (Synced(s, d) \/ NotSynced(s, d))
        BY <3>3 DEF WinDays, Synced, NotSynced
      <4> QED
        BY <3>1, <4>1
    <3> QED
      BY <1>5, <3>2, <3>3
  <2>3. ses'[s].op = "spin"
    <3>1. CASE Synced(s, d)
      <4>1. ses'[s] = [ses[s] EXCEPT !.pc = AfterSync(s), !.days = d, !.debt = FALSE, !.dirty = FALSE]
        BY <1>0, <2>1, <3>1, SyncedEffect
      <4> QED
        BY <1>0, <2>1, <4>1 DEF SesState
    <3>2. CASE NotSynced(s, d)
      <4>1. ses'[s] = [ses[s] EXCEPT !.pc = AfterSync(s), !.days = d, !.dirty = TRUE]
        BY <1>0, <3>2, NotSyncedEffect
      <4> QED
        BY <1>0, <2>1, <4>1 DEF SesState
    <3> QED
      BY <2>2, <3>1, <3>2
  <2>4. LocksKept(s)
    BY <1>0, <2>2, ReleasedType DEF Synced, NotSynced, Release, LocksKept
  <2> QED
    BY <1>1, <2>3, <2>4
<1>6. CASE WinCash(s)
  <2>1. /\ ses[s].op = "spin" /\ lock' = Released(s)
        /\ ses' = [ses EXCEPT ![s].pc = "record", ![s].r = 1, ![s].flag = Lost(s),
                              ![s].debt = FALSE, ![s].dirty = FALSE]
    BY <1>6 DEF WinCash, At, AddBalance, Release
  <2>2. ses'[s] = [ses[s] EXCEPT !.pc = "record", !.r = 1, !.flag = Lost(s), !.debt = FALSE, !.dirty = FALSE]
    BY <1>0, <2>1, WinCashEffect
  <2>3. ses'[s].op = ses[s].op
    BY <1>0, <2>2 DEF SesState
  <2> QED
    BY <1>0, <1>1, <2>1, <2>3, ReleasedType DEF LocksKept
<1>7. CASE WinOther(s)
  <2>1. /\ ses[s].op = "spin" /\ UNCHANGED lock
        /\ ses' = [ses EXCEPT ![s].pc = "record", ![s].r = 2]
    BY <1>7 DEF WinOther, At
  <2>2. ses'[s] = [ses[s] EXCEPT !.pc = "record", !.r = 2]
    BY <1>0, <2>1, WinOtherEffect
  <2>3. ses'[s].op = ses[s].op
    BY <1>0, <2>2 DEF SesState
  <2> QED
    BY <1>1, <2>1, <2>3 DEF LocksKept
<1>8. CASE RecordSpin(s)
  BY <1>2, <1>8 DEF RecordSpin
<1> QED
  BY <1>1, <1>2, <1>3, <1>4, <1>5, <1>6, <1>7, <1>8 DEF WheelNext

\* Where no request becomes pending, what holds of those that file stays true.
LEMMA FilingFrame ==
  ASSUME IInv, NEW s \in Session, Apart(s), LocksKept(s), Filing(s)',
         DOMAIN requests' = DOMAIN requests,
         \A i \in DOMAIN requests :
           /\ requests'[i].user = requests[i].user
           /\ requests'[i].status = "pending" => requests[i].status = "pending"
  PROVE  \A t \in Session : Filing(t)'
<1> SUFFICES ASSUME NEW t \in Session, t # s PROVE Filing(t)'
  OBVIOUS
<1>1. /\ ses'[t].op = ses[t].op /\ ses'[t].pc = ses[t].pc /\ ses'[t].u = ses[t].u
      /\ ses[t].op = "request" => ses'[t] = ses[t]
  BY DEF Apart
<1>2. Filing(t) /\ (Working(t) => ses[t].u \in User) /\ None \notin Session
  BY Knows, IdleType DEF SessionInv
<1>3. ASSUME At(t, "request", "ask")' \/ At(t, "request", "file")'
      PROVE  /\ ses[t].u \in User /\ lock[ses[t].u] = t /\ ses'[t] = ses[t]
             /\ At(t, "request", "file")' => RequestsOf(ses[t].u, {"pending"}) = {} /\ ses[t].n # 0
  BY <1>1, <1>2, <1>3 DEF Filing, At, Working
<1>4. ASSUME At(t, "request", "ask")' \/ At(t, "request", "file")'
      PROVE  lock'[ses'[t].u] = t
  BY <1>1, <1>2, <1>3, <1>4 DEF LocksKept
<1>5. ASSUME At(t, "request", "file")'
      PROVE  /\ {i \in DOMAIN requests' : requests'[i].user = ses'[t].u /\ requests'[i].status \in {"pending"}} = {}
             /\ ses'[t].n # 0
  <2>1. RequestsOf(ses[t].u, {"pending"}) = {} /\ ses'[t].u = ses[t].u /\ ses'[t].n # 0
    BY <1>1, <1>3, <1>5
  <2> QED
    BY <2>1 DEF RequestsOf
<1> QED
  BY <1>4, <1>5 DEF Filing, RequestsOf

LEMMA RequestFrame ==
  ASSUME IInv, NEW s \in Session, LeavesRequests(s)
  PROVE  RequestInv' /\ \A t \in Session : Filing(t)'
<1>1. Filing(s)' /\ UNCHANGED <<requests, charged, misread>>
  BY DEF LeavesRequests, Filing, withdrawalVars
<1>2. RequestInv'
  BY <1>1 DEF IInv, RequestInv, PendingIsLast, NotYetCharged, PayoutOnce
<1> QED
  BY <1>1, <1>2, FilingFrame DEF LeavesRequests

\* A status that is written over another.
LEMMA DecisionFrame ==
  ASSUME IInv, NEW i \in DOMAIN requests, NEW status \in RequestStatus \ {"pending"},
         requests' = [requests EXCEPT ![i].status = status],
         misread \subseteq misread',
         \A j \in 1..MaxRequests \ {i} : charged'[j] = charged[j],
         i \in misread' \/ charged'[i] = IF status \in {"approved", "completed"} THEN 1 ELSE 0
  PROVE  /\ RequestInv' /\ DOMAIN requests' = DOMAIN requests
         /\ \A j \in DOMAIN requests : /\ requests'[j].user = requests[j].user
                                       /\ requests'[j].status = "pending" => requests[j].status = "pending"
<1>0. TypeOK /\ PendingIsLast /\ NotYetCharged /\ PayoutOnce
  BY DEF IInv, RequestInv
<1>1. /\ DOMAIN requests' = DOMAIN requests /\ Len(requests') = Len(requests)
      /\ requests'[i].status = status
      /\ \A j \in DOMAIN requests : requests'[j].user = requests[j].user
      /\ \A j \in DOMAIN requests \ {i} : requests'[j] = requests[j]
  BY <1>0, DecidedType
<1>2. \A j \in DOMAIN requests : requests'[j].status = "pending" => requests[j].status = "pending"
  BY <1>1
<1>3. PendingIsLast'
  BY <1>0, <1>1, <1>2 DEF PendingIsLast
<1>4. NotYetCharged'
  BY <1>0, <1>1, RequestType DEF NotYetCharged
<1>5. PayoutOnce'
  <2> SUFFICES ASSUME NEW j \in DOMAIN requests, j \notin misread'
               PROVE  charged'[j] = IF requests'[j].status \in {"approved", "completed"} THEN 1 ELSE 0
    BY <1>1 DEF PayoutOnce
  <2>1. CASE j = i
    BY <1>1, <2>1
  <2>2. CASE j # i
    <3>1. j \in 1..MaxRequests
      BY <1>0, RequestType
    <3> QED
      BY <1>0, <1>1, <2>2, <3>1 DEF PayoutOnce
  <2> QED
    BY <2>1, <2>2
<1> QED
  BY <1>1, <1>2, <1>3, <1>4, <1>5 DEF RequestInv

\* The next request of a user who has none pending.
LEMMA FileFrame ==
  ASSUME IInv, NEW s \in Session, FileRequest(s)
  PROVE  RequestInv' /\ \A t \in Session : Filing(t)'
<1>0. /\ TypeOK /\ PendingIsLast /\ NotYetCharged /\ PayoutOnce
      /\ charged \in [1..MaxRequests -> Nat]
  BY DEF IInv, RequestInv, TypeOK, WithdrawalTypeOK
<1>1. /\ ses[s].u \in Partner /\ ses[s].u \in User /\ ses[s].n \in Nat \ {0}
      /\ lock[ses[s].u] = s /\ RequestsOf(ses[s].u, {"pending"}) = {}
  <2>1. Filing(s) /\ Shape(s) /\ ses[s] \in SesState
    BY Knows DEF SessionInv
  <2> QED
    BY <2>1 DEF Filing, Shape, FileRequest, SesState, At, Busy, Working
<1>2. /\ Ends(s) /\ lock' = Released(s) /\ UNCHANGED <<charged, misread>>
      /\ Len(requests) < MaxRequests
      /\ requests' = Append(requests, [user |-> ses[s].u, amount |-> ses[s].n, status |-> "pending"])
  BY <1>0, EndEffect DEF FileRequest
<1>3. PICK k \in Nat :
        /\ k = Len(requests) + 1 /\ k = Len(requests') /\ k <= MaxRequests
        /\ DOMAIN requests = 1..(k - 1) /\ DOMAIN requests' = 1..k
        /\ \A j \in DOMAIN requests : requests'[j] = requests[j]
        /\ requests'[k].user = ses[s].u /\ requests'[k].status = "pending"
  <2>1. /\ Len(requests') = Len(requests) + 1 /\ Len(requests') <= MaxRequests /\ Len(requests) \in Nat
        /\ DOMAIN requests = 1..Len(requests) /\ DOMAIN requests' = 1..(Len(requests) + 1)
        /\ \A j \in DOMAIN requests : requests'[j] = requests[j]
        /\ requests'[Len(requests) + 1] =
             [user |-> ses[s].u, amount |-> ses[s].n, status |-> "pending"]
    BY <1>0, <1>1, <1>2, FiledType
  <2> QED
    BY <2>1
<1>4. \A j \in DOMAIN requests : requests[j].user = ses[s].u => requests[j].status # "pending"
  BY <1>1 DEF RequestsOf
<1>5. PendingIsLast'
  <2> SUFFICES ASSUME NEW i \in 1..k, NEW j \in 1..k, requests'[i].status = "pending",
                      requests'[i].user = requests'[j].user
               PROVE  j <= i
    BY <1>3 DEF PendingIsLast
  <2>1. CASE i = k
    BY <2>1
  <2>2. CASE i \in DOMAIN requests
    BY <1>0, <1>3, <1>4, <2>2 DEF PendingIsLast
  <2> QED
    BY <1>3, <2>1, <2>2
<1>6. NotYetCharged'
  BY <1>0, <1>2, <1>3 DEF NotYetCharged
<1>7. PayoutOnce'
  <2> SUFFICES ASSUME NEW j \in 1..k, j \notin misread
               PROVE  charged[j] = IF requests'[j].status \in {"approved", "completed"} THEN 1 ELSE 0
    BY <1>2, <1>3 DEF PayoutOnce
  <2>1. CASE j = k
    BY <1>0, <1>3, <2>1, WithdrawalAssumption DEF NotYetCharged
  <2>2. CASE j \in DOMAIN requests
    BY <1>0, <1>3, <2>2 DEF PayoutOnce
  <2> QED
    BY <1>3, <2>1, <2>2
<1>8. ASSUME NEW t \in Session, t # s
      PROVE  Filing(t)'
  <2>1. /\ ses'[t].op = ses[t].op /\ ses'[t].pc = ses[t].pc /\ ses'[t].u = ses[t].u
        /\ ses[t].op = "request" => ses'[t] = ses[t]
    BY <1>2, <1>8 DEF Ends, Apart
  <2>2. Filing(t) /\ (Working(t) => ses[t].u \in User)
    BY Knows DEF SessionInv
  <2>3. ASSUME At(t, "request", "ask")' \/ At(t, "request", "file")'
        PROVE  /\ ses[t].u \in User /\ lock[ses[t].u] = t /\ ses'[t] = ses[t]
               /\ At(t, "request", "file")' => RequestsOf(ses[t].u, {"pending"}) = {} /\ ses[t].n # 0
    BY <2>1, <2>2, <2>3 DEF Filing, At, Working
  <2>4. ASSUME At(t, "request", "ask")' \/ At(t, "request", "file")'
        PROVE  lock'[ses'[t].u] = t /\ ses[t].u # ses[s].u
    BY <1>0, <1>1, <1>2, <1>8, <2>1, <2>3, <2>4, ReleasedType
  <2>5. ASSUME At(t, "request", "file")'
        PROVE  {i \in DOMAIN requests' : requests'[i].user = ses'[t].u /\ requests'[i].status \in {"pending"}} = {}
               /\ ses'[t].n # 0
    <3>1. \A i \in DOMAIN requests : ~(requests[i].user = ses[t].u /\ requests[i].status = "pending")
      BY <2>3, <2>5 DEF RequestsOf
    <3>2. \A i \in 1..k : ~(requests'[i].user = ses[t].u /\ requests'[i].status = "pending")
      <4> SUFFICES ASSUME NEW i \in 1..k
                   PROVE  ~(requests'[i].user = ses[t].u /\ requests'[i].status = "pending")
        OBVIOUS
      <4>1. CASE i = k
        BY <1>3, <2>4, <2>5, <4>1
      <4>2. CASE i \in DOMAIN requests
        BY <1>3, <3>1, <4>2
      <4> QED
        BY <1>3, <4>1, <4>2
    <3> QED
      BY <1>3, <2>1, <2>3, <2>5, <3>2
  <2> QED
    BY <2>4, <2>5 DEF Filing, RequestsOf
<1>9. Filing(s)'
  BY <1>2 DEF Ends, Filing, At, Idle
<1> QED
  BY <1>5, <1>6, <1>7, <1>8, <1>9 DEF RequestInv

\* The request a user has pending is the last one they filed.
LEMMA NonePending ==
  ASSUME TypeOK, PendingIsLast, NEW u, ~ LastPending(u)
  PROVE  RequestsOf(u, {"pending"}) = {}
<1> SUFFICES ASSUME NEW i \in RequestsOf(u, {"pending"})
             PROVE  FALSE
  OBVIOUS
<1> DEFINE I == RequestsOf(u, RequestStatus)
           m == Max(I)
<1>1. i \in DOMAIN requests /\ requests[i].user = u /\ requests[i].status = "pending"
  BY DEF RequestsOf
<1>2. i \in I /\ \A j \in I : j \in Int /\ i \in Int /\ j <= i
  BY <1>1, RequestType DEF RequestsOf, RequestStatus, PendingIsLast
<1>3. m \in I /\ m >= i
  <2>1. \E x \in I : \A y \in I : x >= y
    BY <1>2
  <2>2. m = CHOOSE x \in I : \A y \in I : x >= y
    BY DEF Max
  <2> HIDE DEF I, m
  <2> QED
    BY <1>2, <2>1, <2>2
<1>4. m = i
  <2> HIDE DEF I, m
  <2> QED
    BY <1>2, <1>3
<1> QED
  BY <1>1, <1>2, <1>4 DEF LastPending

LEMMA WithdrawalStep ==
  ASSUME IInv, NEW s \in Session, WithdrawalNext(s), Apart(s)
  PROVE  RequestInv' /\ (\A t \in Session : Filing(t)') /\ ~ AtWorkOnUse(s)'
<1>0. /\ TypeOK /\ Shape(s) /\ ses[s] \in SesState
      /\ Busy(s, "request") => ses[s].u \in User /\ ses[s].u \in Partner
  <2>1. TypeOK /\ Shape(s) /\ ses[s] \in SesState
    BY Knows
  <2> QED
    BY <2>1 DEF Shape, Busy, Working
<1>1. CASE End(s) /\ UNCHANGED withdrawalVars
  BY <1>0, <1>1, EndLeaves, EndEffect, RequestFrame DEF Ends, AtWorkOnUse, Busy, Idle
<1>2. CASE UNCHANGED <<lock, withdrawalVars>> /\ ses'[s].op \in {"request", "review"} /\ ses'[s].pc \notin {"ask", "file"}
  BY <1>2, RequestFrame DEF LeavesRequests, LocksKept, At, AtWorkOnUse, Busy
<1>3. ASSUME NEW u \in Partner, LoadUser(s, u)
      PROVE  UNCHANGED <<lock, withdrawalVars>> /\ ses'[s].op = "request" /\ ses'[s].pc = "hold"
  <2>1. u \in User
    BY <1>3, WithdrawalAssumption
  <2>2. PICK read \in SesState : read = [Idle EXCEPT !.pc = "hold", !.n = balance[u]]
    BY <1>0, <2>1, ReadType
  <2>3. Begin(s, "request", u, read) /\ UNCHANGED <<lock, withdrawalVars>>
    BY <1>3, <2>2 DEF LoadUser, Begin
  <2>4. Starts(s, "request", read.pc, u)
    BY <1>0, <2>1, <2>3, BeginEffect DEF Op
  <2> QED
    BY <2>2, <2>3, <2>4 DEF Starts, Idle
<1>4. ASSUME NEW i \in DOMAIN requests, OpenRequest(s, i)
      PROVE  UNCHANGED <<lock, withdrawalVars>> /\ ses'[s].op = "review" /\ ses'[s].pc \notin {"ask", "file"}
  <2>1. PICK u \in User : u = requests[i].user
    BY <1>0, <1>4, RequestType
  <2>2. PICK read \in SesState : read = [Idle EXCEPT !.pc = requests[i].status, !.r = i]
    BY <1>0, <1>4, ReviewType
  <2>3. Begin(s, "review", u, read) /\ UNCHANGED <<lock, withdrawalVars>>
    BY <1>4, <2>1, <2>2 DEF OpenRequest, Begin
  <2>4. Starts(s, "review", read.pc, u)
    BY <1>0, <2>1, <2>3, BeginEffect DEF Op
  <2>5. read.pc \in RequestStatus
    BY <1>0, <1>4, <2>2, RequestType DEF Idle
  <2> QED
    BY <2>3, <2>4, <2>5 DEF Starts, RequestStatus
<1>5. CASE HoldUser(s)
  <2>1. /\ Busy(s, "request") /\ ses[s].u \in User /\ Lock(s, ses[s].u) /\ Goto(s, "ask")
        /\ UNCHANGED withdrawalVars
    BY <1>0, <1>5 DEF HoldUser, At, Busy, Continue
  <2>2. ses'[s].op = "request" /\ ses'[s].pc = "ask" /\ ses'[s].u = ses[s].u
    BY <1>0, <2>1, GotoEffect DEF Goes, PC, Busy
  <2>3. LocksKept(s) /\ lock'[ses[s].u] = s
    BY <1>0, <2>1, LockEffect DEF LocksKept
  <2>4. Filing(s)'
    BY <2>2, <2>3 DEF Filing, At
  <2>5. RequestInv'
    BY <2>1 DEF IInv, RequestInv, PendingIsLast, NotYetCharged, PayoutOnce, withdrawalVars
  <2>6. \A t \in Session : Filing(t)'
    BY <2>1, <2>3, <2>4, FilingFrame DEF withdrawalVars
  <2> QED
    BY <2>2, <2>5, <2>6 DEF AtWorkOnUse, Busy
<1>6. CASE AskAmount(s) /\ ~End(s)
  <2>1. /\ At(s, "request", "ask") /\ UNCHANGED <<lock, withdrawalVars>> /\ ~ LastPending(ses[s].u)
    BY <1>6 DEF AskAmount
  <2>2. PICK a \in MinAmount..AvailableAmount(s) : ses' = [ses EXCEPT ![s].pc = "file", ![s].n = a]
    BY <1>6 DEF AskAmount
  <2>3. a \in Nat \ {0}
    BY <2>2, WithdrawalAssumption
  <2>4. ses'[s] = [ses[s] EXCEPT !.pc = "file", !.n = a]
    BY <1>0, <2>2, <2>3, AskEffect
  <2>5. /\ ses'[s].op = ses[s].op /\ ses'[s].pc = "file" /\ ses'[s].u = ses[s].u /\ ses'[s].n = a
    BY <1>0, <2>4 DEF SesState
  <2>6. lock[ses[s].u] = s /\ RequestsOf(ses[s].u, {"pending"}) = {}
    BY <1>0, <2>1, Knows, NonePending DEF SessionInv, Filing, IInv, RequestInv
  <2>7. Filing(s)'
    BY <2>1, <2>3, <2>5, <2>6 DEF Filing, At, RequestsOf, withdrawalVars
  <2>8. RequestInv'
    BY <2>1 DEF IInv, RequestInv, PendingIsLast, NotYetCharged, PayoutOnce, withdrawalVars
  <2>9. \A t \in Session : Filing(t)'
    BY <2>1, <2>7, FilingFrame DEF withdrawalVars, LocksKept
  <2> QED
    BY <2>1, <2>5, <2>8, <2>9 DEF AtWorkOnUse, At, Busy
<1>7. CASE FileRequest(s)
  BY <1>0, <1>7, FileFrame, EndEffect DEF FileRequest, Ends, AtWorkOnUse, Busy, Idle
<1>8. CASE Approve(s) \/ Reject(s) \/ Complete(s)
  <2>1. Busy(s, "review")
    BY <1>8 DEF Approve, Reject, Complete
  <2>2. PICK status \in RequestStatus \ {"pending"} :
          /\ Decide(s, status)
          /\ \/ status = "approved" /\ ses[s].pc = "pending"
                /\ charged' = [charged EXCEPT ![ses[s].r] = @ + 1]
             \/ status = "rejected" /\ ses[s].pc = "pending" /\ UNCHANGED charged
             \/ status = "completed" /\ ses[s].pc = "approved" /\ UNCHANGED charged
    BY <1>8 DEF Approve, Reject, Complete, RequestStatus, Approvable
  <2>3. PICK i \in DOMAIN requests : i = ses[s].r
    BY <2>1, <2>2, Decision
  <2>4. /\ Ends(s) /\ lock' = Released(s)
        /\ requests' = [requests EXCEPT ![i].status = status]
        /\ misread' = IF requests[i].status = ses[s].pc THEN misread ELSE misread \cup {i}
    BY <2>1, <2>2, <2>3, Decision
  <2>5. /\ i \in 1..MaxRequests /\ charged \in [1..MaxRequests -> Nat]
        /\ i \in misread \/ charged[i] = IF requests[i].status \in {"approved", "completed"} THEN 1 ELSE 0
    BY <1>0, RequestType DEF IInv, RequestInv, PayoutOnce, TypeOK, WithdrawalTypeOK
  <2>6. /\ misread \subseteq misread'
        /\ \A j \in 1..MaxRequests \ {i} : charged'[j] = charged[j]
        /\ i \in misread' \/ charged'[i] = IF status \in {"approved", "completed"} THEN 1 ELSE 0
    <3>1. misread \subseteq misread' /\ (i \in misread' \/ (i \notin misread /\ requests[i].status = ses[s].pc))
      BY <2>4
    <3>2. \A j \in 1..MaxRequests \ {i} : charged'[j] = charged[j]
      BY <2>2, <2>3, <2>5
    <3>3. CASE i \notin misread /\ requests[i].status = ses[s].pc
      <4>1. charged[i] = IF ses[s].pc \in {"approved", "completed"} THEN 1 ELSE 0
        BY <2>5, <3>3
      <4>2. \/ /\ status = "approved" /\ ses[s].pc = "pending"
               /\ charged' = [charged EXCEPT ![i] = @ + 1]
            \/ status = "rejected" /\ ses[s].pc = "pending" /\ charged' = charged
            \/ status = "completed" /\ ses[s].pc = "approved" /\ charged' = charged
        BY <2>2, <2>3
      <4>3. charged'[i] = IF status \in {"approved", "completed"} THEN 1 ELSE 0
        <5>1. CASE status = "approved"
          <6>1. charged[i] = 0 /\ charged' = [charged EXCEPT ![i] = @ + 1]
            BY <4>1, <4>2, <5>1
          <6>2. charged'[i] = 1
            BY <2>5, <6>1
          <6> QED
            BY <5>1, <6>2
        <5>2. CASE status = "rejected" \/ status = "completed"
          BY <4>1, <4>2, <5>2
        <5> QED
          BY <4>2, <5>1, <5>2
      <4> QED
        BY <3>1, <3>2, <4>3
    <3> QED
      BY <3>1, <3>2, <3>3
  <2>7. /\ RequestInv' /\ DOMAIN requests' = DOMAIN requests
        /\ \A j \in DOMAIN requests : /\ requests'[j].user = requests[j].user
                                      /\ requests'[j].status = "pending" => requests[j].status = "pending"
    BY <2>4, <2>6, DecisionFrame
  <2>8. LocksKept(s) /\ Filing(s)'
    BY <1>0, <2>4, ReleasedType DEF LocksKept, Ends, Filing, At, Idle
  <2>9. \A t \in Session : Filing(t)'
    BY <2>7, <2>8, FilingFrame
  <2> QED
    BY <2>4, <2>7, <2>9 DEF Ends, AtWorkOnUse, Busy, Idle
<1>9. CASE Decline(s)
  BY <1>1, <1>9 DEF Decline
<1> QED
  BY <1>1, <1>2, <1>3, <1>4, <1>5, <1>6, <1>7, <1>8, <1>9 DEF WithdrawalNext, AskAmount

LEMMA CancelStep ==
  ASSUME IInv, NEW i \in DOMAIN requests, Cancel(i)
  PROVE  RequestInv' /\ \A t \in Session : Filing(t)'
<1>0. TypeOK /\ PayoutOnce /\ charged \in [1..MaxRequests -> Nat]
  BY DEF IInv, RequestInv, TypeOK, WithdrawalTypeOK
<1>1. /\ requests' = [requests EXCEPT ![i].status = "cancelled"] /\ requests[i].status = "pending"
      /\ UNCHANGED <<ses, lock, charged, misread>> /\ "cancelled" \in RequestStatus \ {"pending"}
  BY DEF Cancel, rowVars, RequestStatus
<1>2. i \in misread' \/ charged'[i] = 0
  BY <1>0, <1>1 DEF PayoutOnce
<1>3. /\ RequestInv' /\ DOMAIN requests' = DOMAIN requests
      /\ \A j \in DOMAIN requests : /\ requests'[j].user = requests[j].user
                                    /\ requests'[j].status = "pending" => requests[j].status = "pending"
  BY <1>1, <1>2, DecisionFrame
<1>4. ASSUME NEW t \in Session
      PROVE  Filing(t)'
  <2>1. Filing(t)
    BY Knows DEF SessionInv
  <2> QED
    BY <1>1, <1>3, <2>1 DEF Filing, At, RequestsOf
<1> QED
  BY <1>3, <1>4

-----------------------------------------------------------------------------
(* The invariant. *)

LEMMA Initially == Init => IInv
<1> SUFFICES ASSUME Init PROVE IInv
  OBVIOUS
<1>1. /\ balance = [u \in User |-> StartBalance]
      /\ days = [u \in User |-> IF u \in Subscribed THEN StartDays ELSE 0]
      /\ booked = [u \in User |-> 0] /\ lock = [u \in User |-> None]
      /\ ses = [s \in Session |-> Idle] /\ crowded = {} /\ started = 0
  BY DEF Init, RowInit
<1>2. RowTypeOK
  <2>1. StartBalance \in Nat /\ StartDays \in Nat /\ MaxStarts \in Nat /\ Idle \in SesState
    BY StartAssumption, IdleType
  <2>2. /\ balance \in [User -> Nat] /\ days \in [User -> Nat] /\ booked \in [User -> Int]
        /\ lock \in [User -> Session \cup {None}] /\ crowded \subseteq User /\ started \in 0..MaxStarts
    BY <1>1, <2>1
  <2>3. ses \in [Session -> SesState]
    BY <1>1, <2>1
  <2> QED
    BY <2>2, <2>3 DEF RowTypeOK, SesState
<1>3. PromoTypeOK /\ BonusOncePerUse
  BY DEF Init, PromoInit, PromoTypeOK, BonusOncePerUse
<1>4. WheelTypeOK /\ WithdrawalTypeOK /\ RequestInv
  <2>1. requests = <<>> /\ charged = [i \in 1..MaxRequests |-> 0] /\ misread = {} /\ spins = <<>> /\ broken = {}
    BY DEF Init, WheelInit, WithdrawalInit
  <2>2. <<>> \in Seq(Spin) /\ <<>> \in Seq([user : Partner, amount : Nat \ {0}, status : RequestStatus])
        /\ Len(<<>>) = 0 /\ DOMAIN <<>> = {}
    BY EmptySeq
  <2>3. WheelTypeOK /\ WithdrawalTypeOK
    BY <2>1, <2>2, WithdrawalAssumption DEF WheelTypeOK, WithdrawalTypeOK
  <2>4. RequestInv
    BY <2>1, <2>2 DEF RequestInv, PendingIsLast, NotYetCharged, PayoutOnce
  <2> QED
    BY <2>3, <2>4
<1>5. ASSUME NEW s \in Session
      PROVE  SessionInv(s)
  BY <1>1, IdleType DEF SessionInv, Shape, Unused, Reserved, Unrivalled, Filing, Working, Busy, At, Idle
<1> QED
  BY <1>2, <1>3, <1>4, <1>5 DEF IInv, TypeOK

LEMMA Invariance == IInv /\ [Next]_vars => IInv'
<1> SUFFICES ASSUME IInv, [Next]_vars PROVE IInv'
  OBVIOUS
<1>1. ASSUME NEW s \in Session, PromoNext(s), UNCHANGED <<wheelVars, withdrawalVars>>
      PROVE  IInv'
  <2>1. TypeOK' /\ Apart(s) /\ \A t \in Session : Shape(t)'
    BY <1>1, PromoTyping
  <2>2. BonusOncePerUse' /\ \A t \in Session : Unused(t)' /\ Unrivalled(t)'
    BY <1>1, <2>1, PromoMoves, UsesFrame, BonusFrame
  <2>3. RequestInv' /\ \A t \in Session : Filing(t)'
    BY <1>1, <2>1, PromoLeaves, RequestFrame
  <2> QED
    BY <2>1, <2>2, <2>3 DEF IInv, SessionInv
<1>2. ASSUME NEW s \in Session, WheelNext(s), UNCHANGED <<promoVars, withdrawalVars>>
      PROVE  IInv'
  <2>1. TypeOK' /\ Apart(s) /\ \A t \in Session : Shape(t)'
    BY <1>2, WheelTyping
  <2>2. LeavesRequests(s) /\ LeavesUses(s)
    BY <1>2, <2>1, WheelLeaves DEF LeavesUses, promoVars
  <2>3. BonusOncePerUse' /\ \A t \in Session : Unused(t)' /\ Unrivalled(t)'
    BY <1>2, <2>2, UsesFrame, BonusFrame
  <2>4. RequestInv' /\ \A t \in Session : Filing(t)'
    BY <1>2, <2>2, RequestFrame
  <2> QED
    BY <2>1, <2>3, <2>4 DEF IInv, SessionInv
<1>3. ASSUME NEW s \in Session, WithdrawalNext(s), UNCHANGED <<promoVars, wheelVars>>
      PROVE  IInv'
  <2>1. TypeOK' /\ Apart(s) /\ \A t \in Session : Shape(t)'
    BY <1>3, WithdrawalTyping
  <2>2. RequestInv' /\ (\A t \in Session : Filing(t)') /\ ~ AtWorkOnUse(s)'
    BY <1>3, <2>1, WithdrawalStep
  <2>3. LeavesUses(s)
    BY <1>3, <2>1, <2>2 DEF LeavesUses, promoVars
  <2>4. BonusOncePerUse' /\ \A t \in Session : Unused(t)' /\ Unrivalled(t)'
    BY <1>3, <2>3, UsesFrame, BonusFrame
  <2> QED
    BY <2>1, <2>2, <2>4 DEF IInv, SessionInv
<1>4. ASSUME NEW i \in DOMAIN requests, Cancel(i), UNCHANGED <<promoVars, wheelVars>>
      PROVE  IInv'
  <2>1. TypeOK' /\ UNCHANGED ses /\ \A t \in Session : Shape(t)'
    BY <1>4, CancelTyping
  <2>2. RequestInv' /\ \A t \in Session : Filing(t)'
    BY <1>4, CancelStep
  <2>3. UNCHANGED <<uses, granted>>
    BY <1>4 DEF promoVars
  <2>4. BonusOncePerUse'
    BY <2>3 DEF IInv, BonusOncePerUse
  <2>5. ASSUME NEW t \in Session
        PROVE  Unused(t)' /\ Unrivalled(t)'
    BY <2>1, <2>3, Knows DEF SessionInv, Unused, Unrivalled, Reserved, Rival, At, Busy
  <2> QED
    BY <2>1, <2>2, <2>4, <2>5 DEF IInv, SessionInv
<1>5. ASSUME NEW s \in Session, BreakOff(s)
      PROVE  IInv'
  <2>1. TypeOK' /\ Ends(s) /\ \A t \in Session : Shape(t)'
    BY <1>5, BreakOffTyping
  <2>2. LeavesRequests(s) /\ LeavesUses(s)
    BY <1>5, <2>1, EndLeaves DEF BreakOff, LeavesUses, Ends, AtWorkOnUse, Busy, Idle
  <2>3. BonusOncePerUse' /\ \A t \in Session : Unused(t)' /\ Unrivalled(t)'
    BY <1>5, <2>2, UsesFrame, BonusFrame
  <2>4. RequestInv' /\ \A t \in Session : Filing(t)'
    BY <1>5, <2>2, RequestFrame
  <2> QED
    BY <2>1, <2>3, <2>4 DEF IInv, SessionInv
<1>6. CASE UNCHANGED vars
  <2>1. /\ UNCHANGED <<balance, days, booked, lock, ses, crowded, started, discount, uses, count, granted, loose>>
        /\ UNCHANGED <<spins, broken, requests, charged, misread>>
    BY <1>6 DEF vars, rowVars, rows, notes, promoVars, wheelVars, withdrawalVars
  <2>2. TypeOK'
    BY <2>1 DEF IInv, TypeOK, RowTypeOK, PromoTypeOK, WheelTypeOK, WithdrawalTypeOK
  <2>3. ASSUME NEW t \in Session
        PROVE  SessionInv(t)'
    BY <2>1, Knows DEF SessionInv, Shape, Unused, Unrivalled, Filing, Reserved, Rival, RequestsOf, Working, At, Busy
  <2>4. BonusOncePerUse' /\ RequestInv'
    BY <2>1 DEF IInv, BonusOncePerUse, RequestInv, PendingIsLast, NotYetCharged, PayoutOnce
  <2> QED
    BY <2>2, <2>3, <2>4 DEF IInv
<1> QED
  BY <1>1, <1>2, <1>3, <1>4, <1>5, <1>6 DEF Next

\* IInv holds of every state, for any users, codes, sessions and limits.
THEOREM Inductive == Spec => []IInv
BY Initially, Invariance, PTL DEF Spec

\* The rows, the sessions, the uses, the spins and the requests keep their
\* types: in particular no balance falls below zero, whatever is spent on
\* spins or taken by withdrawals at once (users.balance_kopeks).
THEOREM TypesKept == Spec => []TypeOK
<1>1. IInv => TypeOK
  BY DEF IInv
<1> QED
  BY <1>1, Inductive, PTL

\* A code gives what it gives once for a use of it and never without one, for
\* any number of users, codes and activations at once: the unique key of
\* promocode_uses is what activate_promocode relies on.
THEOREM OneBonusPerUse == Spec => []BonusOncePerUse
<1>1. IInv => BonusOncePerUse
  BY DEF IInv
<1> QED
  BY <1>1, Inductive, PTL

\* The amount of a withdrawal is taken once when the request is approved and
\* not otherwise, where nobody decided on a status that had changed
\* (approve_request, reject_request, complete_request, cancel_request).
THEOREM WithdrawnOnce == Spec => []PayoutOnce
<1>1. IInv => PayoutOnce
  BY DEF IInv, RequestInv
<1> QED
  BY <1>1, Inductive, PTL

\* create_withdrawal_request looks for a pending request while it holds the
\* user's row, so that no user ever has two.
THEOREM OnePendingRequest == Spec => []OnePending
<1>1. ASSUME IInv, NEW u \in Partner
      PROVE  Cardinality(RequestsOf(u, {"pending"})) <= 1
  <2> DEFINE P == RequestsOf(u, {"pending"})
  <2>1. \A i, j \in P : i = j
    <3>1. ASSUME NEW i \in P, NEW j \in P
          PROVE  i \in Nat /\ j \in Nat /\ i <= j /\ j <= i
      <4>1. /\ TypeOK /\ i \in DOMAIN requests /\ j \in DOMAIN requests
            /\ requests[i].user = requests[j].user
            /\ requests[i].status = "pending" /\ requests[j].status = "pending"
        BY <1>1 DEF IInv, RequestsOf
      <4> QED
        BY <1>1, <4>1, RequestType DEF IInv, RequestInv, PendingIsLast
    <3> QED
      BY <3>1
  <2> HIDE DEF P
  <2>2. CASE P = {}
    BY <2>2, FS_EmptySet DEF P
  <2>3. CASE P # {}
    <3>1. PICK i : i \in P
      BY <2>3
    <3>2. P = {i}
      BY <2>1, <3>1
    <3> QED
      <4>1. Cardinality(P) = 1
        BY <3>2, FS_Singleton
      <4> QED
        BY <4>1 DEF P
  <2> QED
    BY <2>2, <2>3
<1>2. IInv => OnePending
  BY <1>1 DEF OnePending
<1> QED
  BY <1>2, Inductive, PTL

-----------------------------------------------------------------------------
(* What is withdrawn and asked for, as a sum over the requests. *)

LiveOf(u) == RequestsOf(u, {"approved", "completed", "pending"})
Amount == [i \in DOMAIN requests |-> requests[i].amount]
Spent(u) == SumOver(Amount, LiveOf(u))

\* Whoever is about to file a request has found room for it, and keeps the room
\* by holding the user's row.
Within(u) ==
  \/ \E i \in misread : requests[i].user = u
  \/ /\ Spent(u) <= Earned[u]
     /\ \A s \in Session : At(s, "request", "file") /\ ses[s].u = u => ses[s].n + Spent(u) <= Earned[u]
EntitledInv ==
  /\ misread \subseteq DOMAIN requests
  /\ OnlyReferral => \A u \in Partner : Within(u)

\* Total by its equations.
AddTotal(g, I) == IF I = {} THEN 0 ELSE requests[Some(I)].amount + g[I \ {Some(I)}]
IsTotal(g, I) == g = [J \in SUBSET I |-> AddTotal(g, J)]
TotalFcn(I) == CHOOSE g : IsTotal(g, I)

LEMMA TotalIsFcn == \A I : Total(I) = TotalFcn(I)[I]
BY Zenon DEF Total, MapThenSumSet, MapThenFoldSet, TotalFcn, IsTotal, AddTotal, Some

LEMMA TotalEquations ==
  ASSUME NEW I \in SUBSET DOMAIN requests, NEW g
  PROVE  IsTotal(g, I) <=> IsSum(Amount, g, I)
<1>1. \A J \in SUBSET I : AddTotal(g, J) = Adding(Amount, g, J)
  <2> SUFFICES ASSUME NEW J \in SUBSET I PROVE AddTotal(g, J) = Adding(Amount, g, J)
    OBVIOUS
  <2>1. CASE J = {}
    BY <2>1 DEF AddTotal, Adding
  <2>2. CASE J # {}
    <3>1. Some(J) \in DOMAIN requests
      BY <2>2 DEF Some
    <3>2. Amount[Some(J)] = requests[Some(J)].amount
      BY <3>1 DEF Amount
    <3> QED
      BY <2>2, <3>2 DEF AddTotal, Adding
  <2> QED
    BY <2>1, <2>2
<1>2. [J \in SUBSET I |-> AddTotal(g, J)] = [J \in SUBSET I |-> Adding(Amount, g, J)]
  BY <1>1, Zenon
<1> QED
  BY <1>2, Zenon DEF IsTotal, IsSum

LEMMA TotalIsSum ==
  ASSUME NEW I \in SUBSET DOMAIN requests, IsFiniteSet(I)
  PROVE  Total(I) = SumOver(Amount, I)
<1>1. PICK h : IsSum(Amount, h, I)
  BY SumExists
<1>2. IsTotal(h, I)
  BY <1>1, TotalEquations
<1>3. IsTotal(TotalFcn(I), I)
  BY <1>2, Zenon DEF TotalFcn
<1>4. TotalFcn(I)[I] = SumOver(Amount, I)
  BY <1>3, TotalEquations, SumUnique
<1> QED
  BY <1>4, TotalIsFcn

LEMMA LiveType ==
  ASSUME TypeOK, NEW u \in Partner
  PROVE  /\ LiveOf(u) \subseteq DOMAIN requests /\ IsFiniteSet(LiveOf(u))
         /\ \A i \in LiveOf(u) : Amount[i] = requests[i].amount /\ Amount[i] \in Nat
         /\ Spent(u) \in Int /\ Earned[u] \in Nat
<1>1. LiveOf(u) \subseteq DOMAIN requests
  BY DEF LiveOf, RequestsOf
<1>2. DOMAIN requests = 1..Len(requests) /\ Len(requests) \in Nat
  BY LenProperties DEF TypeOK, WithdrawalTypeOK
<1>3. IsFiniteSet(LiveOf(u))
  <2>1. IsFiniteSet(1..Len(requests))
    BY <1>2, FS_Interval
  <2> QED
    BY <1>1, <1>2, <2>1, FS_Subset
<1>4. \A i \in LiveOf(u) : Amount[i] = requests[i].amount /\ Amount[i] \in Nat
  <2>1. \A i \in DOMAIN requests : requests[i].amount \in Nat
    BY RequestType
  <2> QED
    BY <1>1, <2>1 DEF Amount
<1>5. Spent(u) \in Int
  <2>1. \A i \in LiveOf(u) : Amount[i] \in Int
    BY <1>4
  <2> QED
    BY <1>3, <2>1, SumType DEF Spent
<1> QED
  BY <1>1, <1>3, <1>4, <1>5, WithdrawalAssumption

LEMMA LiveTypes ==
  TypeOK => \A u \in Partner :
    /\ IsFiniteSet(LiveOf(u)) /\ Spent(u) \in Int
    /\ \A i \in LiveOf(u) : Amount[i] = requests[i].amount /\ Amount[i] \in Nat
BY LiveType

LEMMA LiveTypesNext ==
  (TypeOK => \A u \in Partner :
     /\ IsFiniteSet(LiveOf(u)) /\ Spent(u) \in Int
     /\ \A i \in LiveOf(u) : Amount[i] = requests[i].amount /\ Amount[i] \in Nat)'
BY LiveTypes, PTL

LEMMA SpentSame ==
  ASSUME TypeOK, TypeOK', NEW u \in Partner, LiveOf(u)' = LiveOf(u),
         \A i \in LiveOf(u) : requests'[i].amount = requests[i].amount
  PROVE  Spent(u)' = Spent(u)
<1>1. \A i \in LiveOf(u) : Amount[i] = requests[i].amount /\ Amount'[i] = requests'[i].amount
  <2>1. (\A i \in LiveOf(u) : Amount[i] = requests[i].amount)'
    BY LiveTypesNext
  <2> QED
    BY <2>1, LiveType
<1>2. IsFiniteSet(LiveOf(u)) /\ \A i \in LiveOf(u) : Amount[i] = Amount'[i]
  BY <1>1, LiveType
<1>3. SumOver(Amount, LiveOf(u)) = SumOver(Amount', LiveOf(u))
  BY <1>2, SumSame
<1> QED
  BY <1>3 DEF Spent

LEMMA SpentLess ==
  ASSUME TypeOK, TypeOK', NEW u \in Partner, NEW k \in LiveOf(u), LiveOf(u)' = LiveOf(u) \ {k},
         \A i \in LiveOf(u) : requests'[i].amount = requests[i].amount
  PROVE  Spent(u)' <= Spent(u)
<1> DEFINE L == LiveOf(u)  R == LiveOf(u) \ {k}
<1>1. /\ IsFiniteSet(L) /\ IsFiniteSet(R)
      /\ \A i \in L : Amount[i] = requests[i].amount /\ Amount[i] \in Nat /\ Amount[i] \in Int
  BY LiveType, FS_Subset
<1>2. \A i \in R : Amount[i] = Amount'[i] /\ Amount[i] \in Int
  <2>1. (\A i \in LiveOf(u) : Amount[i] = requests[i].amount)'
    BY LiveTypesNext
  <2> QED
    BY <1>1, <2>1
<1>3. SumOver(Amount, L) = Amount[k] + SumOver(Amount, R)
  BY <1>1, SumRemove
<1>4. SumOver(Amount, R) = SumOver(Amount', R) /\ SumOver(Amount, R) \in Int
  BY <1>1, <1>2, SumSame, SumType
<1>5. Spent(u) = SumOver(Amount, L) /\ Spent(u)' = SumOver(Amount', R)
  BY DEF Spent
<1>6. Amount[k] \in Nat
  BY <1>1
<1> HIDE DEF L, R
<1> QED
  BY <1>3, <1>4, <1>5, <1>6

LEMMA SpentMore ==
  ASSUME TypeOK, TypeOK', NEW u \in Partner, NEW k, k \notin LiveOf(u), LiveOf(u)' = LiveOf(u) \cup {k},
         \A i \in LiveOf(u) : requests'[i].amount = requests[i].amount
  PROVE  Spent(u)' = Spent(u) + requests'[k].amount
<1> DEFINE L == LiveOf(u)  R == LiveOf(u) \cup {k}
<1>1. (/\ IsFiniteSet(LiveOf(u))
       /\ \A i \in LiveOf(u) : Amount[i] = requests[i].amount /\ Amount[i] \in Nat)'
  BY LiveTypesNext
<1>2. IsFiniteSet(R) /\ R \ {k} = L /\ k \in R
      /\ \A i \in R : Amount'[i] = requests'[i].amount /\ Amount'[i] \in Int
  BY <1>1
<1>3. SumOver(Amount', R) = Amount'[k] + SumOver(Amount', L)
  <2>1. SumOver(Amount', R) = Amount'[k] + SumOver(Amount', R \ {k})
    <3> HIDE DEF R
    <3> QED BY <1>2, SumRemove
  <2> QED
    BY <1>2, <2>1
<1>4. SumOver(Amount, L) = SumOver(Amount', L) /\ SumOver(Amount, L) \in Int
  <2>1. IsFiniteSet(L) /\ \A i \in L : Amount[i] = Amount'[i] /\ Amount[i] \in Int
    BY <1>2, LiveType
  <2> QED
    BY <2>1, SumSame, SumType
<1>5. Spent(u) = SumOver(Amount, L) /\ Spent(u)' = SumOver(Amount', R)
  BY DEF Spent
<1>6. Amount'[k] = requests'[k].amount /\ Amount'[k] \in Int
  BY <1>2
<1> HIDE DEF L, R
<1> QED
  BY <1>3, <1>4, <1>5, <1>6

\* A step that does not bear on the requests, nor on what is asked for.
LEMMA EntitledFrame ==
  ASSUME IInv, IInv', EntitledInv, UNCHANGED <<requests, misread>>,
         \A t \in Session : At(t, "request", "file")' =>
           /\ At(t, "request", "file") /\ ses'[t].u = ses[t].u /\ ses'[t].n = ses[t].n
  PROVE  EntitledInv'
<1>1. TypeOK /\ TypeOK' /\ misread' \subseteq DOMAIN requests'
  BY DEF IInv, EntitledInv
<1>2. ASSUME OnlyReferral, NEW u \in Partner
      PROVE  Within(u)'
  <2>1. Spent(u)' = Spent(u)
    BY DEF Spent, Amount, LiveOf, RequestsOf
  <2>2. Within(u)
    BY <1>2 DEF EntitledInv
  <2> QED
    BY <2>1, <2>2 DEF Within
<1> QED
  BY <1>1, <1>2 DEF EntitledInv

\* A status that is written over another: nothing is brought back to life but
\* by who decides on what they misread.
LEMMA EntitledDecision ==
  ASSUME IInv, IInv', EntitledInv, NEW i \in DOMAIN requests, NEW status \in RequestStatus,
         requests' = [requests EXCEPT ![i].status = status],
         misread \subseteq misread', misread' \subseteq DOMAIN requests,
         \/ i \in misread'
         \/ status \in {"approved", "completed", "pending"} =>
              requests[i].status \in {"approved", "completed", "pending"},
         \A t \in Session : At(t, "request", "file")' => ses'[t] = ses[t]
  PROVE  EntitledInv'
<1>1. TypeOK /\ TypeOK'
  BY DEF IInv
<1>2. /\ DOMAIN requests' = DOMAIN requests /\ requests'[i].status = status
      /\ \A j \in DOMAIN requests : requests'[j].user = requests[j].user /\ requests'[j].amount = requests[j].amount
      /\ \A j \in DOMAIN requests \ {i} : requests'[j] = requests[j]
  BY <1>1, DecidedType
<1>3. ASSUME OnlyReferral, NEW u \in Partner
      PROVE  Within(u)'
  <2>1. Within(u)
    BY <1>3 DEF EntitledInv
  <2>2. CASE \E j \in misread' : requests[j].user = u
    BY <1>2, <2>2 DEF Within
  <2>3. CASE ~ \E j \in misread' : requests[j].user = u
    <3>1. /\ Spent(u) <= Earned[u]
          /\ \A t \in Session : At(t, "request", "file") /\ ses[t].u = u => ses[t].n + Spent(u) <= Earned[u]
      BY <2>1, <2>3 DEF Within
    <3>2. requests[i].user = u /\ status \in {"approved", "completed", "pending"} =>
            requests[i].status \in {"approved", "completed", "pending"}
      BY <2>3
    <3>3. LiveOf(u)' = LiveOf(u) \/ (i \in LiveOf(u) /\ LiveOf(u)' = LiveOf(u) \ {i})
      BY <1>2, <3>2 DEF LiveOf, RequestsOf
    <3>4. \A j \in LiveOf(u) : requests'[j].amount = requests[j].amount
      BY <1>1, <1>2, LiveType
    <3>5. Spent(u)' <= Spent(u)
      <4>1. Spent(u) \in Int
        BY <1>1, LiveType
      <4> QED
        BY <1>1, <3>3, <3>4, <4>1, SpentSame, SpentLess
    <3>6. Spent(u) \in Int /\ Spent(u)' \in Int /\ Earned[u] \in Nat
      <4>1. (Spent(u) \in Int)'
        BY <1>1, LiveTypesNext
      <4> QED
        BY <1>1, <4>1, LiveType
    <3>7. ASSUME NEW t \in Session, At(t, "request", "file")', ses'[t].u = u
          PROVE  ses'[t].n + Spent(u)' <= Earned[u]
      <4>1. ses'[t] = ses[t] /\ At(t, "request", "file") /\ ses[t].u = u
        BY <3>7 DEF At
      <4>2. ses[t].n \in Nat
        BY <1>1, Types DEF SesState
      <4> QED
        BY <3>1, <3>5, <3>6, <4>1, <4>2
    <3> QED
      BY <3>1, <3>5, <3>6, <3>7 DEF Within
  <2> QED
    BY <2>2, <2>3
<1> QED
  BY <1>2, <1>3 DEF EntitledInv

LEMMA EntitledLeaves ==
  ASSUME IInv, IInv', EntitledInv, NEW s \in Session, LeavesRequests(s)
  PROVE  EntitledInv'
<1>1. UNCHANGED <<requests, misread>>
  BY DEF LeavesRequests, withdrawalVars
<1>2. ASSUME NEW t \in Session, At(t, "request", "file")'
      PROVE  At(t, "request", "file") /\ ses'[t].u = ses[t].u /\ ses'[t].n = ses[t].n
  BY <1>2 DEF LeavesRequests, Apart, At
<1> QED
  BY <1>1, <1>2, EntitledFrame

\* The request that is filed takes the room that was found for it.
LEMMA EntitledFile ==
  ASSUME IInv, IInv', EntitledInv, NEW s \in Session, FileRequest(s)
  PROVE  EntitledInv'
<1>1. /\ TypeOK /\ TypeOK' /\ Filing(s) /\ Shape(s) /\ ses[s] \in SesState /\ At(s, "request", "file")
      /\ Len(requests) < MaxRequests /\ UNCHANGED misread
      /\ requests' = Append(requests, [user |-> ses[s].u, amount |-> ses[s].n, status |-> "pending"])
  BY Knows DEF IInv, SessionInv, FileRequest
<1>2. /\ ses[s].u \in Partner /\ ses[s].u \in User /\ ses[s].n \in Nat \ {0} /\ lock[ses[s].u] = s
  BY <1>1 DEF Filing, Shape, SesState, At, Busy, Working
<1>3. Ends(s)
  BY <1>1, EndEffect DEF FileRequest
<1>4. PICK k \in Nat :
        /\ k \notin DOMAIN requests /\ DOMAIN requests' = DOMAIN requests \cup {k}
        /\ \A j \in DOMAIN requests : requests'[j] = requests[j]
        /\ requests'[k].user = ses[s].u /\ requests'[k].amount = ses[s].n /\ requests'[k].status = "pending"
  <2>1. /\ Len(requests) \in Nat
        /\ DOMAIN requests = 1..Len(requests) /\ DOMAIN requests' = 1..(Len(requests) + 1)
        /\ \A j \in DOMAIN requests : requests'[j] = requests[j]
        /\ requests'[Len(requests) + 1] =
             [user |-> ses[s].u, amount |-> ses[s].n, status |-> "pending"]
    BY <1>1, <1>2, FiledType
  <2>2. Len(requests) + 1 \in Nat /\ Len(requests) + 1 \notin DOMAIN requests
        /\ DOMAIN requests' = DOMAIN requests \cup {Len(requests) + 1}
    BY <2>1
  <2> QED
    BY <2>1, <2>2
<1>5. misread' \subseteq DOMAIN requests'
  BY <1>1, <1>4 DEF EntitledInv
<1>6. ASSUME OnlyReferral, NEW u \in Partner
      PROVE  Within(u)'
  <2>1. Within(u) /\ misread \subseteq DOMAIN requests
    BY <1>6 DEF EntitledInv
  <2>2. CASE \E j \in misread : requests[j].user = u
    BY <1>1, <1>4, <2>1, <2>2 DEF Within
  <2>3. CASE ~ \E j \in misread : requests[j].user = u
    <3>1. /\ Spent(u) <= Earned[u]
          /\ \A t \in Session : At(t, "request", "file") /\ ses[t].u = u => ses[t].n + Spent(u) <= Earned[u]
      BY <2>1, <2>3 DEF Within
    <3>2. \A j \in LiveOf(u) : requests'[j].amount = requests[j].amount
      BY <1>1, <1>4, LiveType
    <3>3. Spent(u) \in Int /\ Earned[u] \in Nat
      BY <1>1, LiveType
    <3>4. CASE u = ses[s].u
      <4>1. k \notin LiveOf(u) /\ LiveOf(u)' = LiveOf(u) \cup {k}
        BY <1>4, <3>4 DEF LiveOf, RequestsOf
      <4>2. Spent(u)' = Spent(u) + ses[s].n
        BY <1>1, <1>4, <3>2, <4>1, SpentMore
      <4>3. Spent(u)' <= Earned[u]
        BY <1>1, <1>2, <3>1, <3>3, <3>4, <4>2
      <4>4. ASSUME NEW t \in Session, At(t, "request", "file")', ses'[t].u = u
            PROVE  FALSE
        <5>1. t # s /\ At(t, "request", "file") /\ ses[t].u = u
          BY <1>3, <4>4 DEF Ends, Apart, At, Idle
        <5>2. Filing(t)
          BY Knows DEF SessionInv
        <5> QED
          BY <1>2, <3>4, <5>1, <5>2 DEF Filing
      <4> QED
        BY <4>3, <4>4 DEF Within
    <3>5. CASE u # ses[s].u
      <4>1. LiveOf(u)' = LiveOf(u)
        BY <1>4, <3>5 DEF LiveOf, RequestsOf
      <4>2. Spent(u)' = Spent(u)
        BY <1>1, <3>2, <4>1, SpentSame
      <4>3. ASSUME NEW t \in Session, At(t, "request", "file")', ses'[t].u = u
            PROVE  ses'[t].n + Spent(u)' <= Earned[u]
        <5>1. At(t, "request", "file") /\ ses[t].u = u /\ ses'[t].n = ses[t].n
          BY <1>3, <4>3 DEF Ends, Apart, At, Idle
        <5> QED
          BY <3>1, <4>2, <5>1
      <4> QED
        BY <3>1, <4>2, <4>3 DEF Within
    <3> QED
      BY <3>4, <3>5
  <2> QED
    BY <2>2, <2>3
<1> QED
  BY <1>5, <1>6 DEF EntitledInv

\* What is asked for is within what is left.
LEMMA EntitledAsk ==
  ASSUME IInv, IInv', EntitledInv, NEW s \in Session, AskAmount(s), ~ End(s)
  PROVE  EntitledInv'
<1>1. /\ TypeOK /\ TypeOK' /\ Filing(s) /\ Shape(s) /\ ses[s] \in SesState /\ At(s, "request", "ask")
      /\ UNCHANGED <<requests, misread>>
  BY Knows DEF IInv, SessionInv, AskAmount, withdrawalVars
<1>2. PICK a \in MinAmount..AvailableAmount(s) : ses' = [ses EXCEPT ![s].pc = "file", ![s].n = a]
  BY DEF AskAmount
<1>3. a \in Nat \ {0} /\ a <= AvailableAmount(s) /\ ses[s].u \in Partner /\ ses[s].n \in Nat
  BY <1>1, <1>2, WithdrawalAssumption DEF Shape, At, Busy, SesState
<1>4. ses'[s] = [ses[s] EXCEPT !.pc = "file", !.n = a] /\ Apart(s)
  BY <1>1, <1>2, <1>3, AskEffect
<1>5. ses'[s].u = ses[s].u /\ ses'[s].n = a
  BY <1>1, <1>4 DEF SesState
<1>6. ASSUME OnlyReferral, NEW u \in Partner
      PROVE  Within(u)'
  <2>1. Within(u)
    BY <1>6 DEF EntitledInv
  <2>2. Spent(u)' = Spent(u) /\ Spent(u) \in Int /\ Earned[u] \in Nat
    <3>1. Spent(u)' = Spent(u)
      BY <1>1 DEF Spent, Amount, LiveOf, RequestsOf
    <3> QED
      BY <1>1, <3>1, LiveType
  <2>3. ASSUME u = ses[s].u
        PROVE  a + Spent(u) <= Earned[u]
    <3>1. Total(LiveOf(u)) = Spent(u)
      BY <1>1, LiveType, TotalIsSum DEF Spent
    <3>2. Entitlement(u) = Earned[u] - Spent(u)
      BY <3>1 DEF Entitlement, LiveOf
    <3>3. Entitlement(u) \in Int
      BY <2>2, <3>2
    <3>4. AvailableAmount(s) <= Entitlement(u)
      BY <1>3, <1>6, <2>3, <3>3 DEF AvailableAmount, Least
    <3>5. AvailableAmount(s) \in Int
      BY <1>3, <1>6, <2>3, <3>3 DEF AvailableAmount, Least
    <3> QED
      BY <1>3, <2>2, <3>2, <3>4, <3>5
  <2>4. ASSUME NEW t \in Session, t # s, At(t, "request", "file")'
        PROVE  At(t, "request", "file") /\ ses'[t].u = ses[t].u /\ ses'[t].n = ses[t].n
    BY <1>4, <2>4 DEF Apart, At
  <2>5. CASE \E i \in misread : requests[i].user = u
    BY <1>1, <2>5 DEF Within
  <2>6. CASE ~ \E i \in misread : requests[i].user = u
    <3>1. /\ Spent(u) <= Earned[u]
          /\ \A t \in Session : At(t, "request", "file") /\ ses[t].u = u => ses[t].n + Spent(u) <= Earned[u]
      BY <2>1, <2>6 DEF Within
    <3>2. ASSUME NEW t \in Session, At(t, "request", "file")', ses'[t].u = u
          PROVE  ses'[t].n + Spent(u) <= Earned[u]
      <4>1. CASE t = s
        BY <1>5, <2>3, <3>2, <4>1
      <4>2. CASE t # s
        BY <2>4, <3>1, <3>2, <4>2
      <4> QED
        BY <4>1, <4>2
    <3> QED
      BY <2>2, <3>1, <3>2 DEF Within
  <2> QED
    BY <2>5, <2>6
<1> QED
  BY <1>1, <1>6 DEF EntitledInv

LEMMA EntitledWithdrawal ==
  ASSUME IInv, IInv', EntitledInv, NEW s \in Session, WithdrawalNext(s), Apart(s)
  PROVE  EntitledInv'
<1>0. TypeOK /\ Shape(s) /\ ses[s] \in SesState
  BY Knows
<1>1. ASSUME UNCHANGED withdrawalVars, ~ At(s, "request", "file")'
      PROVE  EntitledInv'
  <2>1. UNCHANGED <<requests, misread>>
    BY <1>1 DEF withdrawalVars
  <2>2. ASSUME NEW t \in Session, At(t, "request", "file")'
        PROVE  At(t, "request", "file") /\ ses'[t].u = ses[t].u /\ ses'[t].n = ses[t].n
    BY <1>1, <2>2 DEF Apart, At
  <2> QED
    BY <2>1, <2>2, EntitledFrame
<1>2. ASSUME End(s), UNCHANGED withdrawalVars PROVE EntitledInv'
  BY <1>2, EndLeaves, EntitledLeaves
<1>3. ASSUME NEW u \in Partner, LoadUser(s, u)
      PROVE  EntitledInv'
  <2>1. u \in User
    BY <1>3, WithdrawalAssumption
  <2>2. PICK read \in SesState : read = [Idle EXCEPT !.pc = "hold", !.n = balance[u]]
    BY <1>0, <2>1, ReadType
  <2>3. Begin(s, "request", u, read) /\ UNCHANGED withdrawalVars
    BY <1>3, <2>2 DEF LoadUser, Begin
  <2>4. Starts(s, "request", read.pc, u)
    BY <1>0, <2>1, <2>3, BeginEffect DEF Op
  <2>5. ses'[s].pc = "hold"
    BY <2>2, <2>4 DEF Starts, Idle
  <2> QED
    BY <1>1, <2>3, <2>5 DEF At
<1>4. ASSUME NEW i \in DOMAIN requests, OpenRequest(s, i)
      PROVE  EntitledInv'
  <2>1. PICK u \in User : u = requests[i].user
    BY <1>0, <1>4, RequestType
  <2>2. PICK read \in SesState : read = [Idle EXCEPT !.pc = requests[i].status, !.r = i]
    BY <1>0, <1>4, ReviewType
  <2>3. Begin(s, "review", u, read) /\ UNCHANGED withdrawalVars
    BY <1>4, <2>1, <2>2 DEF OpenRequest, Begin
  <2>4. Starts(s, "review", read.pc, u)
    BY <1>0, <2>1, <2>3, BeginEffect DEF Op
  <2> QED
    BY <1>1, <2>3, <2>4 DEF Starts, At
<1>5. ASSUME HoldUser(s)
      PROVE  EntitledInv'
  <2>1. Goto(s, "ask") /\ UNCHANGED withdrawalVars
    BY <1>5 DEF HoldUser, Continue
  <2>2. ses'[s].pc = "ask"
    BY <1>0, <2>1, GotoEffect DEF Goes, PC
  <2> QED
    BY <1>1, <2>1, <2>2 DEF At
<1>6. ASSUME AskAmount(s) PROVE EntitledInv'
  BY <1>2, <1>6, EntitledAsk DEF AskAmount
<1>7. ASSUME FileRequest(s) PROVE EntitledInv'
  BY <1>7, EntitledFile
<1>8. ASSUME Approve(s) \/ Reject(s) \/ Complete(s) PROVE EntitledInv'
  <2>1. Busy(s, "review")
    BY <1>8 DEF Approve, Reject, Complete
  <2>2. PICK status \in RequestStatus :
          /\ Decide(s, status)
          /\ \/ status \in {"approved", "rejected"} /\ ses[s].pc = "pending"
             \/ status = "completed" /\ ses[s].pc = "approved"
    BY <1>8 DEF Approve, Reject, Complete, RequestStatus, Approvable
  <2>3. PICK i \in DOMAIN requests : i = ses[s].r
    BY <2>1, <2>2, Decision
  <2>4. /\ Ends(s) /\ requests' = [requests EXCEPT ![i].status = status]
        /\ misread' = IF requests[i].status = ses[s].pc THEN misread ELSE misread \cup {i}
    BY <2>1, <2>2, <2>3, Decision
  <2>5. /\ misread \subseteq misread' /\ misread' \subseteq DOMAIN requests
        /\ \/ i \in misread'
           \/ requests[i].status \in {"approved", "completed", "pending"}
    BY <2>2, <2>4 DEF EntitledInv
  <2>6. \A t \in Session : At(t, "request", "file")' => ses'[t] = ses[t]
    BY <2>4 DEF Ends, Apart, At, Idle
  <2> QED
    BY <2>4, <2>5, <2>6, EntitledDecision
<1>9. ASSUME Decline(s) PROVE EntitledInv'
  BY <1>2, <1>9 DEF Decline
<1> QED
  BY <1>3, <1>4, <1>5, <1>6, <1>7, <1>8, <1>9 DEF WithdrawalNext

LEMMA EntitledStep == IInv /\ IInv' /\ EntitledInv /\ [Next]_vars => EntitledInv'
<1> SUFFICES ASSUME IInv, IInv', EntitledInv, [Next]_vars PROVE EntitledInv'
  OBVIOUS
<1>1. ASSUME NEW s \in Session, PromoNext(s), UNCHANGED <<wheelVars, withdrawalVars>>
      PROVE  EntitledInv'
  BY <1>1, PromoTyping, PromoLeaves, EntitledLeaves
<1>2. ASSUME NEW s \in Session, WheelNext(s), UNCHANGED <<promoVars, withdrawalVars>>
      PROVE  EntitledInv'
  BY <1>2, WheelTyping, WheelLeaves, EntitledLeaves
<1>3. ASSUME NEW s \in Session, WithdrawalNext(s), UNCHANGED <<promoVars, wheelVars>>
      PROVE  EntitledInv'
  BY <1>3, WithdrawalTyping, EntitledWithdrawal
<1>4. ASSUME NEW i \in DOMAIN requests, Cancel(i), UNCHANGED <<promoVars, wheelVars>>
      PROVE  EntitledInv'
  <2>1. /\ requests' = [requests EXCEPT ![i].status = "cancelled"]
        /\ UNCHANGED <<ses, misread>> /\ "cancelled" \in RequestStatus
    BY <1>4 DEF Cancel, rowVars, RequestStatus
  <2> QED
    BY <2>1, EntitledDecision DEF EntitledInv
<1>5. ASSUME NEW s \in Session, BreakOff(s)
      PROVE  EntitledInv'
  <2>1. End(s) /\ UNCHANGED withdrawalVars
    BY <1>5 DEF BreakOff
  <2> QED
    BY <2>1, EndLeaves, EntitledLeaves
<1>6. ASSUME UNCHANGED vars
      PROVE  EntitledInv'
  <2>1. UNCHANGED <<ses, requests, misread>>
    BY <1>6 DEF vars, rowVars, withdrawalVars
  <2> QED
    BY <2>1, EntitledFrame DEF At
<1> QED
  BY <1>1, <1>2, <1>3, <1>4, <1>5, <1>6 DEF Next

\* What a user has withdrawn and asked for stays within what they have earned
\* from referrals, for any number of requests, sessions and administrators,
\* where nobody decided on a status that had changed
\* (get_referral_balance_stats and create_withdrawal_request: the amount is
\* compared with what is left, and the request is filed, under one lock).
THEOREM EntitlementIsKept == Spec => []EntitlementKept
<1>1. Init => EntitledInv
  <2> SUFFICES ASSUME Init PROVE EntitledInv
    OBVIOUS
  <2>1. requests = <<>> /\ misread = {} /\ ses = [s \in Session |-> Idle] /\ TypeOK
    BY Initially DEF Init, RowInit, WithdrawalInit, IInv
  <2>2. ASSUME NEW u \in Partner
        PROVE  Within(u)
    <3>1. LiveOf(u) = {}
      BY <2>1 DEF LiveOf, RequestsOf
    <3>2. Spent(u) = 0
      BY <3>1, SumStep, FS_EmptySet DEF Spent
    <3>3. \A s \in Session : ~ At(s, "request", "file")
      BY <2>1 DEF At, Idle
    <3> QED
      BY <3>2, <3>3, WithdrawalAssumption DEF Within
  <2> QED
    BY <2>1, <2>2 DEF EntitledInv
<1>2. Spec => [](IInv /\ EntitledInv)
  BY <1>1, Initially, Invariance, EntitledStep, PTL DEF Spec
<1>3. IInv /\ EntitledInv => EntitlementKept
  <2> SUFFICES ASSUME IInv, EntitledInv, OnlyReferral, NEW u \in Partner
               PROVE  \/ \E i \in misread : requests[i].user = u
                      \/ Total(RequestsOf(u, {"approved", "completed", "pending"})) <= Earned[u]
    BY DEF EntitlementKept
  <2>1. Total(LiveOf(u)) = Spent(u)
    BY LiveType, TotalIsSum DEF Spent, IInv
  <2> QED
    BY <2>1 DEF EntitledInv, Within, LiveOf
<1> QED
  BY <1>2, <1>3, PTL
=============================================================================
