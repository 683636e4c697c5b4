----------------------- MODULE RedemptionAccountsProofs -----------------------
(***************************************************************************)
(* For any users, codes and sessions: the balances, the limits and the days *)
(* are what the records of the redemptions say.                            *)
(*                                                                         *)
(* The books are kept by several commits, so that the invariants say what   *)
(* a session still owes between two of them: a spin whose price is in the   *)
(* memory of its session only, or is written and not recorded yet.          *)
(***************************************************************************)
EXTENDS RedemptionsProofs

\* The sets that are counted are finite.
Counted ==
  /\ IsFiniteSet({s \in Session : Working(s)})
  /\ \A c \in Code : IsFiniteSet(UsersOf(c))
  /\ \A u \in User : IsFiniteSet(CodesOf(u))

\* A price that is not flushed: the session holds the row, and the balance in
\* its memory is the one of the row less the price.
Debt(s) ==
  ses[s].debt =>
    /\ Busy(s, "spin") /\ ses[s].pay = "balance" /\ ses[s].pc \in {"prize", "record"}
    /\ lock[ses[s].u] = s /\ balance[ses[s].u] = ses[s].n + SpinCost /\ ~ ses[s].flag
Unpaid(s) == At(s, "spin", "prize") /\ ses[s].pay = "balance" => ses[s].debt
Free(s) == Busy(s, "spin") /\ ses[s].flag => ses[s].r = 1 /\ ses[s].pc = "record"
SpinInv(s) == Debt(s) /\ Unpaid(s) /\ Free(s)

\* The price is taken, and the spin is not recorded yet.
Owes(s) ==
  /\ Busy(s, "spin") /\ ses[s].pc \in {"prize", "record"} /\ ses[s].pay = "balance"
  /\ ~ ses[s].debt /\ ~ ses[s].flag
Owing(u) == {s \in Session : Owes(s) /\ ses[s].u = u}

BalanceInv(u) ==
  u \notin broken =>
    balance[u] = StartBalance + booked[u]
                 - SpinCost * (Cardinality(Paid(u, "balance")) + Cardinality(Owing(u)))
OnlyCash == \A i \in DOMAIN spins : spins[i].free => spins[i].prize = "cash"

BookInv ==
  /\ IInv /\ Counted /\ OnlyCash
  /\ \A s \in Session : SpinInv(s)
  /\ \A u \in User : BalanceInv(u)

-----------------------------------------------------------------------------
(* What a step writes into its session, field by field. *)

LEMMA GotoFields ==
  ASSUME TypeOK, NEW s \in Session, NEW pc \in PC, Goto(s, pc)
  PROVE  /\ Goes(s, pc)
         /\ ses'[s].days = ses[s].days /\ ses'[s].flag = ses[s].flag
         /\ ses'[s].debt = ses[s].debt /\ ses'[s].dirty = ses[s].dirty
<1>1. Goes(s, pc) /\ ses'[s] = [ses[s] EXCEPT !.pc = pc]
  BY GotoEffect
<1>2. ses[s] \in SesState
  BY Types
<1> QED
  BY <1>1, <1>2 DEF SesState

LEMMA BeginFields ==
  ASSUME TypeOK, NEW s \in Session, NEW op \in Op, NEW u \in User,
         NEW read \in SesState, Begin(s, op, u, read)
  PROVE  /\ Starts(s, op, read.pc, u)
         /\ ses'[s].c = read.c /\ ses'[s].r = read.r /\ ses'[s].pay = read.pay
         /\ ses'[s].n = read.n /\ ses'[s].days = read.days /\ ses'[s].flag = read.flag
         /\ ses'[s].debt = read.debt /\ ses'[s].dirty = read.dirty
         /\ crowded' = IF \E t \in Others(s) : ses[t].u = u THEN crowded \cup {u} ELSE crowded
<1>1. Apart(s) /\ ses'[s] = [read EXCEPT !.op = op, !.u = u] /\ ses[s] = Idle
  BY BeginRead
<1>2. /\ ses'[s].c = read.c /\ ses'[s].r = read.r /\ ses'[s].pay = read.pay
      /\ ses'[s].n = read.n /\ ses'[s].days = read.days /\ ses'[s].flag = read.flag
      /\ ses'[s].debt = read.debt /\ ses'[s].dirty = read.dirty
  BY <1>1 DEF SesState
<1>3. Starts(s, op, read.pc, u)
  BY BeginEffect
<1>4. crowded' = IF \E t \in Others(s) : ses[t].u = u THEN crowded \cup {u} ELSE crowded
  BY DEF Begin
<1> QED
  BY <1>2, <1>3, <1>4

\* The sessions that start.
LEMMA LookFields ==
  ASSUME TypeOK, NEW s \in Session, NEW u \in User, NEW c \in Code, Look(s, u, c)
  PROVE  /\ Starts(s, "activate", "check", u) /\ ses'[s].c = c /\ ses'[s].r = 0 /\ ses'[s].pay = "none"
         /\ ses'[s].days = days[u] /\ ses'[s].flag = (discount[u] # None)
         /\ ~ ses'[s].debt /\ ~ ses'[s].dirty
         /\ crowded' = IF \E t \in Others(s) : ses[t].u = u THEN crowded \cup {u} ELSE crowded
<1>1. PICK read \in SesState :
        read = [Idle EXCEPT !.pc = "check", !.c = c, !.days = days[u], !.flag = discount[u] # None]
  BY ReadType
<1>2. Begin(s, "activate", u, read)
  BY <1>1 DEF Look, Begin
<1>3. /\ read.pc = "check" /\ read.c = c /\ read.r = 0 /\ read.pay = "none" /\ read.days = days[u]
      /\ read.flag = (discount[u] # None) /\ read.debt = FALSE /\ read.dirty = FALSE
  BY <1>1 DEF Idle
<1> QED
  BY <1>2, <1>3, BeginFields DEF Op

LEMMA LookDiscountFields ==
  ASSUME TypeOK, NEW s \in Session, NEW u \in User, LookDiscount(s, u)
  PROVE  /\ discount[u] \in Code
         /\ Starts(s, "deactivate", "write", u) /\ ses'[s].c = discount[u]
         /\ ses'[s].n = count[discount[u]]
         /\ ses'[s].r = (IF <<discount[u], u>> \in uses THEN 1 ELSE 0)
         /\ ses'[s].flag = (<<discount[u], u>> \in uses)
         /\ ~ ses'[s].debt /\ ~ ses'[s].dirty
         /\ crowded' = IF \E t \in Others(s) : ses[t].u = u THEN crowded \cup {u} ELSE crowded
<1>1. PICK c \in Code : c = discount[u]
  BY DEF LookDiscount, TypeOK, PromoTypeOK
<1>2. PICK read \in SesState :
        read = [Idle EXCEPT !.pc = "write", !.c = c, !.n = count[c],
                            !.r = IF <<c, u>> \in uses THEN 1 ELSE 0, !.flag = <<c, u>> \in uses]
  BY DiscountReadType
<1>3. Begin(s, "deactivate", u, read)
  BY <1>1, <1>2 DEF LookDiscount, Begin
<1>4. /\ read.pc = "write" /\ read.c = c /\ read.n = count[c] /\ read.debt = FALSE /\ read.dirty = FALSE
      /\ read.flag = (<<c, u>> \in uses)
  BY <1>2 DEF Idle
<1>5. read.r = (IF <<c, u>> \in uses THEN 1 ELSE 0)
  BY <1>2 DEF Idle
<1> QED
  BY <1>1, <1>3, <1>4, <1>5, BeginFields DEF Op

LEMMA AvailableFields ==
  ASSUME TypeOK, NEW s \in Session, NEW u \in Player, NEW pay \in {"balance", "days"}, Available(s, u, pay)
  PROVE  /\ u \in User /\ Starts(s, "spin", "pay", u) /\ ses'[s].c = None /\ ses'[s].r = 0
         /\ ses'[s].pay = pay /\ ses'[s].days = days[u] /\ ~ ses'[s].flag
         /\ ~ ses'[s].debt /\ ~ ses'[s].dirty
         /\ crowded' = IF \E t \in Others(s) : ses[t].u = u THEN crowded \cup {u} ELSE crowded
<1>1. u \in User
  BY WheelAssumption
<1>2. PICK read \in SesState : read = [Idle EXCEPT !.pc = "pay", !.pay = pay, !.days = days[u]]
  BY <1>1, ReadType
<1>3. Begin(s, "spin", u, read)
  BY <1>2 DEF Available, Begin
<1>4. /\ read.pc = "pay" /\ read.c = None /\ read.r = 0 /\ read.pay = pay /\ read.days = days[u]
      /\ read.flag = FALSE /\ read.debt = FALSE /\ read.dirty = FALSE
  BY <1>2 DEF Idle
<1> QED
  BY <1>1, <1>3, <1>4, BeginFields DEF Op

LEMMA LoadUserFields ==
  ASSUME TypeOK, NEW s \in Session, NEW u \in Partner, LoadUser(s, u)
  PROVE  /\ u \in User /\ Starts(s, "request", "hold", u) /\ ses'[s].c = None
         /\ ~ ses'[s].debt /\ ~ ses'[s].dirty
         /\ crowded' = IF \E t \in Others(s) : ses[t].u = u THEN crowded \cup {u} ELSE crowded
<1>1. u \in User
  BY WithdrawalAssumption
<1>2. PICK read \in SesState : read = [Idle EXCEPT !.pc = "hold", !.n = balance[u]]
  BY <1>1, ReadType
<1>3. Begin(s, "request", u, read)
  BY <1>2 DEF LoadUser, Begin
<1>4. read.pc = "hold" /\ read.c = None /\ read.debt = FALSE /\ read.dirty = FALSE
  BY <1>2 DEF Idle
<1> QED
  BY <1>1, <1>3, <1>4, BeginFields DEF Op

LEMMA OpenFields ==
  ASSUME TypeOK, NEW s \in Session, NEW i \in DOMAIN requests, OpenRequest(s, i)
  PROVE  \E u \in User :
         /\ u = requests[i].user /\ \E pc : Starts(s, "review", pc, u)
         /\ ses'[s].c = None /\ ~ ses'[s].debt /\ ~ ses'[s].dirty
         /\ crowded' = IF \E t \in Others(s) : ses[t].u = u THEN crowded \cup {u} ELSE crowded
<1>1. PICK u \in User : u = requests[i].user
  BY RequestType
<1>2. PICK read \in SesState : read = [Idle EXCEPT !.pc = requests[i].status, !.r = i]
  BY ReviewType
<1>3. Begin(s, "review", u, read)
  BY <1>1, <1>2 DEF OpenRequest, Begin
<1>4. read.c = None /\ read.debt = FALSE /\ read.dirty = FALSE
  BY <1>2 DEF Idle
<1> QED
  BY <1>1, <1>3, <1>4, BeginFields DEF Op

-----------------------------------------------------------------------------
(* Counting. *)

LEMMA OneMore ==
  ASSUME NEW S, IsFiniteSet(S), NEW T, NEW k, k \notin S, NEW p \in BOOLEAN,
         T = IF p THEN S \cup {k} ELSE S
  PROVE  /\ IsFiniteSet(T) /\ Cardinality(S) \in Nat
         /\ Cardinality(T) = Cardinality(S) + IF p THEN 1 ELSE 0
<1>1. Cardinality(S) \in Nat
  BY FS_CardinalityType
<1>2. CASE p
  BY <1>1, <1>2, FS_AddElement
<1>3. CASE ~ p
  BY <1>1, <1>3
<1> QED
  BY <1>1, <1>2, <1>3

LEMMA OneLess ==
  ASSUME NEW S, IsFiniteSet(S), NEW T, NEW k, NEW p \in BOOLEAN, p <=> k \in S,
         T = IF p THEN S \ {k} ELSE S
  PROVE  /\ IsFiniteSet(T) /\ Cardinality(S) \in Nat
         /\ Cardinality(T) = Cardinality(S) - IF p THEN 1 ELSE 0
<1>1. Cardinality(S) \in Nat
  BY FS_CardinalityType
<1>2. CASE p
  BY <1>1, <1>2, FS_RemoveElement
<1>3. CASE ~ p
  BY <1>1, <1>3
<1> QED
  BY <1>1, <1>2, <1>3

LEMMA OwingIsFinite ==
  ASSUME Counted, NEW u \in User
  PROVE  IsFiniteSet(Owing(u)) /\ Cardinality(Owing(u)) \in Nat
<1>1. Owing(u) \subseteq {s \in Session : Working(s)}
  BY DEF Owing, Owes, Busy, Working
<1> QED
  BY <1>1, FS_Subset, FS_CardinalityType DEF Counted

LEMMA SpinsAreFinite ==
  ASSUME WheelTypeOK, NEW u \in User
  PROVE  /\ IsFiniteSet(SpinsOf(u)) /\ Cardinality(SpinsOf(u)) \in Nat
         /\ \A pay \in {"balance", "days"} :
              IsFiniteSet(Paid(u, pay)) /\ Cardinality(Paid(u, pay)) \in Nat
<1>1. spins \in Seq(Spin) /\ DOMAIN spins = 1..Len(spins) /\ Len(spins) \in Nat
  BY LenProperties DEF WheelTypeOK
<1>2. IsFiniteSet(1..Len(spins))
  BY <1>1, FS_Interval
<1>3. SpinsOf(u) \subseteq 1..Len(spins) /\ \A pay : Paid(u, pay) \subseteq 1..Len(spins)
  BY <1>1 DEF SpinsOf, Paid
<1> QED
  BY <1>2, <1>3, FS_Subset, FS_CardinalityType

\* The spin that is recorded.
LEMMA SpinsGrow ==
  ASSUME WheelTypeOK, NEW x \in Spin, spins' = Append(spins, x), NEW u \in User
  PROVE  /\ DOMAIN spins' = DOMAIN spins \cup {Len(spins) + 1} /\ Len(spins) + 1 \notin DOMAIN spins
         /\ spins'[Len(spins) + 1] = x
         /\ \A i \in DOMAIN spins : spins'[i] = spins[i]
         /\ SpinsOf(u)' = IF x.user = u THEN SpinsOf(u) \cup {Len(spins) + 1} ELSE SpinsOf(u)
         /\ Cardinality(SpinsOf(u)') = Cardinality(SpinsOf(u)) + IF x.user = u THEN 1 ELSE 0
         /\ \A pay \in {"balance", "days"} :
              Cardinality(Paid(u, pay)') = Cardinality(Paid(u, pay))
                + IF x.user = u /\ x.pay = pay /\ ~ x.free THEN 1 ELSE 0
<1> DEFINE k == Len(spins) + 1
<1>1. /\ DOMAIN spins = 1..Len(spins) /\ Len(spins) \in Nat /\ k \notin DOMAIN spins
      /\ DOMAIN spins' = DOMAIN spins \cup {k} /\ spins'[k] = x
      /\ \A i \in DOMAIN spins : spins'[i] = spins[i]
  <2>1. /\ spins \in Seq(Spin) /\ spins' \in Seq(Spin) /\ Len(spins) \in Nat /\ Len(spins') = Len(spins) + 1
        /\ \A i \in 1..Len(spins) : spins'[i] = spins[i]
        /\ spins'[Len(spins) + 1] = x
    BY AppendProperties, LenProperties DEF WheelTypeOK
  <2>2. DOMAIN spins = 1..Len(spins) /\ DOMAIN spins' = 1..Len(spins')
    BY <2>1, LenProperties
  <2> QED
    BY <2>1, <2>2
<1> HIDE DEF k
<1>2. SpinsOf(u)' = IF x.user = u THEN SpinsOf(u) \cup {k} ELSE SpinsOf(u)
  BY <1>1 DEF SpinsOf
<1>3. k \notin SpinsOf(u) /\ \A pay : k \notin Paid(u, pay)
  BY <1>1 DEF SpinsOf, Paid
<1>4. Cardinality(SpinsOf(u)') = Cardinality(SpinsOf(u)) + IF x.user = u THEN 1 ELSE 0
  BY <1>2, <1>3, SpinsAreFinite, OneMore
<1>5. ASSUME NEW pay \in {"balance", "days"}
      PROVE  Cardinality(Paid(u, pay)') = Cardinality(Paid(u, pay))
               + IF x.user = u /\ x.pay = pay /\ ~ x.free THEN 1 ELSE 0
  <2>1. Paid(u, pay)' = IF x.user = u /\ x.pay = pay /\ ~ x.free THEN Paid(u, pay) \cup {k} ELSE Paid(u, pay)
    BY <1>1, <1>2 DEF Paid, SpinsOf
  <2>2. IsFiniteSet(Paid(u, pay)) /\ k \notin Paid(u, pay)
    BY <1>3, SpinsAreFinite
  <2> QED
    BY <2>1, <2>2, OneMore
<1> QED
  BY <1>1, <1>2, <1>4, <1>5 DEF k

\* A step of s changes what it owes itself.
LEMMA OwingKept ==
  ASSUME NEW s \in Session, Apart(s), Owes(s)' <=> Owes(s), Owes(s) => ses'[s].u = ses[s].u, NEW u \in User
  PROVE  Owing(u)' = Owing(u)
<1>1. \A t \in Session \ {s} : (Owes(t)' <=> Owes(t)) /\ ses'[t].u = ses[t].u
  BY DEF Apart, Owes, Busy
<1> QED
  BY <1>1 DEF Owing

LEMMA OwingGains ==
  ASSUME Counted, NEW s \in Session, Apart(s), Owes(s)', ~ Owes(s), NEW u \in User
  PROVE  Cardinality(Owing(u)') = Cardinality(Owing(u)) + IF ses'[s].u = u THEN 1 ELSE 0
<1>1. \A t \in Session \ {s} : (Owes(t)' <=> Owes(t)) /\ ses'[t].u = ses[t].u
  BY DEF Apart, Owes, Busy
<1>2. s \notin Owing(u)
  BY DEF Owing
<1>3. Owing(u)' = IF ses'[s].u = u THEN Owing(u) \cup {s} ELSE Owing(u)
  BY <1>1 DEF Owing
<1> QED
  BY <1>2, <1>3, OwingIsFinite, OneMore

LEMMA OwingLoses ==
  ASSUME Counted, NEW s \in Session, Apart(s), ~ Owes(s)', Owes(s), NEW u \in User
  PROVE  Cardinality(Owing(u)') = Cardinality(Owing(u)) - IF ses[s].u = u THEN 1 ELSE 0
<1>1. \A t \in Session \ {s} : (Owes(t)' <=> Owes(t)) /\ ses'[t].u = ses[t].u
  BY DEF Apart, Owes, Busy
<1>2. s \in Owing(u) <=> ses[s].u = u
  BY DEF Owing
<1>3. Owing(u)' = IF ses[s].u = u THEN Owing(u) \ {s} ELSE Owing(u)
  BY <1>1 DEF Owing
<1> QED
  BY <1>2, <1>3, OwingIsFinite, OneLess

\* A step of s starts at most s, and writes at most the use s is at work on.
LEMMA CountedStep ==
  ASSUME Counted, NEW s \in Session, Apart(s), NEW k, uses' \subseteq uses \cup {k}
  PROVE  Counted'
<1>1. IsFiniteSet({t \in Session : Working(t)}')
  <2>1. {t \in Session : Working(t)}' \subseteq {t \in Session : Working(t)} \cup {s}
    BY DEF Apart, Working
  <2>2. IsFiniteSet({t \in Session : Working(t)} \cup {s})
    BY FS_AddElement DEF Counted
  <2> QED
    BY <2>1, <2>2, FS_Subset
<1>2. ASSUME NEW c \in Code
      PROVE  IsFiniteSet(UsersOf(c)')
  <2>1. UsersOf(c)' \subseteq UsersOf(c) \cup {k[2]}
    BY DEF UsersOf
  <2>2. IsFiniteSet(UsersOf(c) \cup {k[2]})
    BY FS_AddElement DEF Counted
  <2> QED
    BY <2>1, <2>2, FS_Subset
<1>3. ASSUME NEW u \in User
      PROVE  IsFiniteSet(CodesOf(u)')
  <2>1. CodesOf(u)' \subseteq CodesOf(u) \cup {k[1]}
    BY DEF CodesOf
  <2>2. IsFiniteSet(CodesOf(u) \cup {k[1]})
    BY FS_AddElement DEF Counted
  <2> QED
    BY <2>1, <2>2, FS_Subset
<1> QED
  BY <1>1, <1>2, <1>3 DEF Counted

-----------------------------------------------------------------------------
(* The balances. *)

\* Whoever holds a row keeps the balance of it.
Guarded(s) == \A v \in User : lock[v] \notin {None, s} => lock'[v] = lock[v] /\ balance'[v] = balance[v]
\* The balance moves with the sum of the transactions.
InStep == \A v \in User : balance'[v] - booked'[v] = balance[v] - booked[v]

\* The other sessions have flushed, paid and lost what they had.
LEMMA SpinFrame ==
  ASSUME BookInv, NEW s \in Session, Apart(s), Guarded(s), SpinInv(s)'
  PROVE  \A t \in Session : SpinInv(t)'
<1> SUFFICES ASSUME NEW t \in Session, t # s PROVE SpinInv(t)'
  OBVIOUS
<1>1. /\ ses'[t].op = ses[t].op /\ ses'[t].pc = ses[t].pc /\ ses'[t].u = ses[t].u /\ ses'[t].debt = ses[t].debt
      /\ ses[t].op = "spin" => ses'[t] = ses[t]
  BY DEF Apart
<1>2. SpinInv(t) /\ (Working(t) => ses[t].u \in User) /\ None \notin Session
  BY Knows, IdleType DEF BookInv
<1>3. Debt(t)'
  <2>1. CASE ~ ses[t].debt
    BY <1>1, <2>1 DEF Debt
  <2>2. CASE ses[t].debt
    <3>1. /\ ses[t].op = "spin" /\ ses[t].u \in User /\ lock[ses[t].u] = t /\ ses'[t] = ses[t] /\ Debt(t)
      BY <1>1, <1>2, <2>2 DEF SpinInv, Debt, Busy, Working
    <3>2. lock'[ses[t].u] = t /\ balance'[ses[t].u] = balance[ses[t].u]
      BY <1>2, <3>1 DEF Guarded
    <3> QED
      BY <2>2, <3>1, <3>2 DEF Debt, Busy
  <2> QED
    BY <2>1, <2>2
<1>4. Unpaid(t)' /\ Free(t)'
  BY <1>1, <1>2 DEF SpinInv, Unpaid, Free, At, Busy
<1> QED
  BY <1>3, <1>4 DEF SpinInv

LEMMA Distributes ==
  ASSUME NEW a \in Int, NEW m \in Int, NEW n \in Int
  PROVE  a * (m + n) = a * m + a * n
OBVIOUS

\* n more prices are taken, or due, and the balance is smaller by them.
LEMMA BalanceFrame ==
  ASSUME BookInv, TypeOK', Counted', NEW u \in User, u \in broken => u \in broken',
         NEW n \in Nat, NEW c \in Int, c = SpinCost * n,
         Cardinality(Paid(u, "balance")') + Cardinality(Owing(u)') =
           Cardinality(Paid(u, "balance")) + Cardinality(Owing(u)) + n,
         balance'[u] - booked'[u] = balance[u] - booked[u] - c
  PROVE  BalanceInv(u)'
<1>1. /\ balance[u] \in Int /\ booked[u] \in Int /\ balance'[u] \in Int /\ booked'[u] \in Int
      /\ SpinCost \in Int /\ StartBalance \in Int
  BY WheelAssumption, StartAssumption DEF BookInv, IInv, TypeOK, RowTypeOK
<1>2. PICK m \in Int : m = Cardinality(Paid(u, "balance")) + Cardinality(Owing(u))
  BY OwingIsFinite, SpinsAreFinite DEF BookInv, IInv, TypeOK
<1>3. Cardinality(Paid(u, "balance")') + Cardinality(Owing(u)') = m + n
  BY <1>2
<1>4. PICK x \in Int : x = SpinCost * m
  BY <1>1
<1>5. SpinCost * (m + n) = x + c
  <2>1. SpinCost * (m + n) = SpinCost * m + SpinCost * n
    BY <1>1, Distributes
  <2> QED
    BY <1>4, <2>1
<1>6. u \notin broken' => balance[u] = StartBalance + booked[u] - x
  BY <1>2, <1>4 DEF BookInv, BalanceInv
<1>7. u \notin broken' => balance'[u] = StartBalance + booked'[u] - (x + c)
  <2>1. SUFFICES ASSUME u \notin broken' PROVE balance'[u] = StartBalance + booked'[u] - (x + c)
    OBVIOUS
  <2>2. balance[u] = StartBalance + booked[u] - x
    BY <1>6, <2>1
  <2>3. PICK b \in Int, k \in Int, b2 \in Int, k2 \in Int :
          b = balance[u] /\ k = booked[u] /\ b2 = balance'[u] /\ k2 = booked'[u]
    BY <1>1
  <2>4. b = StartBalance + k - x /\ b2 - k2 = b - k - c
    BY <2>2, <2>3
  <2>5. b2 = StartBalance + k2 - (x + c)
    BY <1>1, <2>4
  <2> QED
    BY <2>3, <2>5
<1> QED
  BY <1>3, <1>5, <1>7 DEF BalanceInv

\* A step by which no price is taken.
Quiet(s) ==
  /\ Apart(s) /\ Guarded(s) /\ InStep /\ SpinInv(s)'
  /\ ~ Owes(s) /\ ~ Owes(s)'
  /\ UNCHANGED <<spins, broken>>

LEMMA QuietBalance ==
  ASSUME BookInv, NEW s \in Session, Quiet(s), TypeOK', Counted'
  PROVE  OnlyCash' /\ (\A t \in Session : SpinInv(t)') /\ \A u \in User : BalanceInv(u)'
<1>1. OnlyCash'
  BY DEF BookInv, Quiet, OnlyCash
<1>2. \A t \in Session : SpinInv(t)'
  BY SpinFrame DEF Quiet
<1>3. ASSUME NEW u \in User
      PROVE  BalanceInv(u)'
  <2>1. Owing(u)' = Owing(u) /\ Paid(u, "balance")' = Paid(u, "balance")
    BY OwingKept DEF Quiet, Paid, SpinsOf
  <2>2. /\ Cardinality(Owing(u)) \in Nat /\ Cardinality(Paid(u, "balance")) \in Nat
        /\ balance'[u] - booked'[u] = balance[u] - booked[u] /\ broken' = broken
        /\ balance[u] \in Int /\ booked[u] \in Int
    BY OwingIsFinite, SpinsAreFinite DEF Quiet, InStep, BookInv, IInv, TypeOK, RowTypeOK
  <2>3. /\ Cardinality(Paid(u, "balance")') + Cardinality(Owing(u)') =
             Cardinality(Paid(u, "balance")) + Cardinality(Owing(u)) + 0
        /\ balance'[u] - booked'[u] = balance[u] - booked[u] - 0
        /\ u \in broken => u \in broken'
    BY <2>1, <2>2
  <2>4. 0 \in Nat /\ 0 \in Int /\ 0 = SpinCost * 0
    BY WheelAssumption
  <2> QED
    BY <2>3, <2>4, BalanceFrame
<1> QED
  BY <1>1, <1>2, <1>3

\* A step that has nothing to do with spins.
OffWheel(s) ==
  /\ Apart(s) /\ Guarded(s) /\ InStep
  /\ ~ Busy(s, "spin") /\ ~ Busy(s, "spin")' /\ ~ ses'[s].debt
  /\ UNCHANGED <<spins, broken>>

LEMMA OffWheelIsQuiet ==
  ASSUME NEW s \in Session, OffWheel(s)
  PROVE  Quiet(s)
BY DEF OffWheel, Quiet, SpinInv, Debt, Unpaid, Free, Owes, At, Busy

LEMMA Moves ==
  ASSUME TypeOK, NEW s \in Session, NEW u \in User, NEW a \in Int, lock[u] \in {None, s}, LocksKept(s),
         balance' = [balance EXCEPT ![u] = @ + a], booked' = [booked EXCEPT ![u] = @ + a]
  PROVE  Guarded(s) /\ InStep
<1>1. balance \in [User -> Nat] /\ booked \in [User -> Int]
  BY Types
<1>2. Guarded(s)
  BY <1>1 DEF Guarded, LocksKept
<1>3. ASSUME NEW v \in User
      PROVE  balance'[v] - booked'[v] = balance[v] - booked[v]
  <2>1. CASE v = u
    <3>1. balance'[v] = balance[v] + a /\ booked'[v] = booked[v] + a
      BY <1>1, <2>1
    <3>2. balance[v] \in Int /\ booked[v] \in Int
      BY <1>1
    <3> QED
      BY <3>1, <3>2
  <2>2. CASE v # u
    BY <1>1, <2>2
  <2> QED
    BY <2>1, <2>2
<1> QED
  BY <1>2, <1>3 DEF InStep

LEMMA PromoOffWheel ==
  ASSUME BookInv, NEW s \in Session, PromoNext(s), Apart(s), LocksKept(s), UNCHANGED wheelVars
  PROVE  OffWheel(s)
<1>0. TypeOK /\ (Working(s) => ses[s].u \in User) /\ Debt(s) /\ ~ Idle.debt /\ Idle.op = "idle"
  BY Knows DEF BookInv, SpinInv, Idle
<1>1. UNCHANGED <<spins, broken>>
  BY DEF wheelVars
<1>2. /\ Guarded(s) /\ InStep
  <2>1. CASE UNCHANGED rows
    BY <2>1 DEF rows, Guarded, InStep, LocksKept
  <2>2. CASE ApplyDays(s)
    BY <2>2 DEF ApplyDays, Guarded, InStep, LocksKept
  <2>3. CASE ApplyBalance(s)
    <3>1. ses[s].u \in User /\ AddBalance(s, ses[s].u, Bonus) /\ Bonus \in Int
      BY <1>0, <2>3, PromoAssumption DEF ApplyBalance, At, Working
    <3> QED
      BY <1>0, <3>1, Moves DEF AddBalance, Lockable
  <2> QED
    BY <2>1, <2>2, <2>3 DEF PromoNext, Look, Check, Reserve, ApplyDiscount, Inapplicable, Count,
                            LookDiscount, GiveBack
<1>3. ~ Busy(s, "spin") /\ ~ Busy(s, "spin")' /\ ~ ses'[s].debt
  <2>1. ASSUME NEW u \in User, NEW c \in Code, Look(s, u, c)
        PROVE  ~ Busy(s, "spin") /\ ~ Busy(s, "spin")' /\ ~ ses'[s].debt
    BY <1>0, <2>1, LookFields DEF Starts, Busy, Working
  <2>2. ASSUME NEW u \in User, LookDiscount(s, u)
        PROVE  ~ Busy(s, "spin") /\ ~ Busy(s, "spin")' /\ ~ ses'[s].debt
    BY <1>0, <2>2, LookDiscountFields DEF Starts, Busy, Working
  <2>3. CASE /\ Busy(s, "activate") \/ Busy(s, "deactivate")
             /\ End(s) \/ GiveBack(s) \/ \E pc \in PC : Goto(s, pc)
    <3>1. CASE End(s) \/ GiveBack(s)
      BY <1>0, <2>3, <3>1, EndEffect, GiveBackEffect DEF Ends, Busy
    <3>2. ASSUME NEW pc \in PC, Goto(s, pc)
          PROVE  ses'[s].op = ses[s].op /\ ses'[s].debt = ses[s].debt
      BY <1>0, <3>2, GotoFields DEF Goes
    <3> QED
      BY <1>0, <2>3, <3>1, <3>2 DEF Debt, Busy
  <2>4. CASE Check(s) \/ Reserve(s) \/ ApplyBalance(s) \/ ApplyDays(s) \/ ApplyDiscount(s)
             \/ Inapplicable(s) \/ Count(s) \/ GiveBack(s)
    BY <2>3, <2>4 DEF Check, Reserve, ApplyBalance, ApplyDays, ApplyDiscount, Inapplicable, Count, GiveBack,
                      Continue, At, Busy, PC
  <2> QED
    BY <2>1, <2>2, <2>4 DEF PromoNext
<1> QED
  BY <1>1, <1>2, <1>3 DEF OffWheel

LEMMA WithdrawalLocks ==
  ASSUME TypeOK, NEW s \in Session, WithdrawalNext(s)
  PROVE  LocksKept(s)
<1>1. CASE End(s)
  BY <1>1, EndEffect, ReleasedType DEF LocksKept
<1>2. CASE UNCHANGED lock
  BY <1>2 DEF LocksKept
<1>3. CASE HoldUser(s)
  BY <1>3, Types DEF HoldUser, Lock, Lockable, LocksKept
<1> QED
  BY <1>1, <1>2, <1>3 DEF WithdrawalNext, LoadUser, AskAmount, FileRequest, OpenRequest, Approve, Reject,
                          Complete, Decline, Decide

LEMMA WithdrawalOffWheel ==
  ASSUME BookInv, NEW s \in Session, WithdrawalNext(s), Apart(s), LocksKept(s), UNCHANGED wheelVars
  PROVE  OffWheel(s)
<1>0. /\ TypeOK /\ (Working(s) => ses[s].u \in User) /\ Debt(s) /\ Shape(s) /\ ses[s] \in SesState
      /\ ~ Idle.debt /\ Idle.op = "idle"
  BY Knows DEF BookInv, SpinInv, Idle
<1>1. UNCHANGED <<spins, broken>>
  BY DEF wheelVars
<1>2. Guarded(s) /\ InStep
  <2>1. CASE UNCHANGED rows
    BY <2>1 DEF rows, Guarded, InStep, LocksKept
  <2>2. CASE Approve(s)
    <3>1. PICK u \in User : u = ses[s].u
      BY <1>0, <2>2 DEF Approve, Busy, Working
    <3>2. PICK a \in Int : a = - requests[ses[s].r].amount
      <4>1. ses[s].r \in DOMAIN requests
        BY <1>0, <2>2 DEF Approve, Shape
      <4>2. requests[ses[s].r].amount \in Int
        BY <1>0, <4>1, RequestType
      <4> QED
        BY <4>2
    <3>3. lock[u] = None /\ balance \in [User -> Nat] /\ booked \in [User -> Int]
      BY <1>0, <2>2, <3>1, Types DEF Approve
    <3>4. balance[u] - requests[ses[s].r].amount = balance[u] + a
          /\ booked[u] - requests[ses[s].r].amount = booked[u] + a
      BY <1>0, <2>2, <3>1, <3>2, <3>3, RequestType DEF Approve, Shape
    <3>5. balance' = [balance EXCEPT ![u] = @ + a] /\ booked' = [booked EXCEPT ![u] = @ + a]
      BY <2>2, <3>1, <3>4 DEF Approve
    <3> QED
      BY <1>0, <3>3, <3>5, Moves
  <2> QED
    BY <2>1, <2>2 DEF WithdrawalNext, LoadUser, HoldUser, AskAmount, FileRequest, OpenRequest, Reject,
                      Complete, Decline
<1>3. ~ Busy(s, "spin") /\ ~ Busy(s, "spin")' /\ ~ ses'[s].debt
  <2>1. ASSUME NEW u \in Partner, LoadUser(s, u)
        PROVE  ~ Busy(s, "spin") /\ ~ Busy(s, "spin")' /\ ~ ses'[s].debt
    BY <1>0, <2>1, LoadUserFields DEF Starts, Busy, Working
  <2>2. ASSUME NEW i \in DOMAIN requests, OpenRequest(s, i)
        PROVE  ~ Busy(s, "spin") /\ ~ Busy(s, "spin")' /\ ~ ses'[s].debt
    BY <1>0, <2>2, OpenFields DEF Starts, Busy, Working
  <2>3. CASE End(s) /\ (Busy(s, "request") \/ Busy(s, "review"))
    BY <1>0, <2>3, EndEffect DEF Ends, Busy
  <2>4. CASE HoldUser(s)
    BY <1>0, <2>4, GotoFields DEF HoldUser, Continue, Goes, Debt, At, Busy, PC
  <2>5. CASE AskAmount(s) /\ ~ End(s)
    <3>1. /\ Busy(s, "request")
          /\ \E a \in MinAmount..AvailableAmount(s) : ses' = [ses EXCEPT ![s].pc = "file", ![s].n = a]
      BY <2>5 DEF AskAmount, At, Busy
    <3>2. PICK a \in MinAmount..AvailableAmount(s) : ses' = [ses EXCEPT ![s].pc = "file", ![s].n = a]
      BY <3>1
    <3>0. a \in Nat
      BY <3>2, WithdrawalAssumption
    <3>3. ses'[s] = [ses[s] EXCEPT !.pc = "file", !.n = a]
      BY <1>0, <3>0, <3>2, AskEffect
    <3>4. ses'[s].op = ses[s].op /\ ses'[s].debt = ses[s].debt
      BY <1>0, <3>3 DEF SesState
    <3> QED
      BY <1>0, <3>1, <3>4 DEF Debt, Busy
  <2>6. CASE \/ FileRequest(s) \/ Approve(s) \/ Reject(s) \/ Complete(s) \/ Decline(s)
             \/ (AskAmount(s) /\ End(s))
    BY <2>3, <2>6 DEF FileRequest, Approve, Reject, Complete, Decline, AskAmount, Decide, At, Busy
  <2> QED
    BY <2>1, <2>2, <2>4, <2>5, <2>6 DEF WithdrawalNext
<1> QED
  BY <1>1, <1>2, <1>3 DEF OffWheel

\* What a session that spins has written down by each step.
LEMMA SyncedFields ==
  ASSUME TypeOK, NEW s \in Session, ses[s].u \in User, NEW d \in Nat, Synced(s, d)
  PROVE  /\ Apart(s) /\ lock' = Released(s) /\ days' = [days EXCEPT ![ses[s].u] = d]
         /\ ses'[s].op = ses[s].op /\ ses'[s].pc = AfterSync(s) /\ ses'[s].u = ses[s].u
         /\ ses'[s].pay = ses[s].pay /\ ses'[s].r = ses[s].r /\ ses'[s].n = ses[s].n
         /\ ses'[s].flag = ses[s].flag /\ ses'[s].days = d /\ ~ ses'[s].debt /\ ~ ses'[s].dirty
         /\ balance'[ses[s].u] = IF ses[s].debt THEN ses[s].n ELSE balance[ses[s].u]
         /\ \A v \in User \ {ses[s].u} : balance'[v] = balance[v]
<1>1. /\ Apart(s) /\ lock' = Released(s)
      /\ ses'[s] = [ses[s] EXCEPT !.pc = AfterSync(s), !.days = d, !.debt = FALSE, !.dirty = FALSE]
  BY SyncedEffect
<1>2. ses[s] \in SesState /\ balance \in [User -> Nat]
  BY Types
<1>3. /\ ses'[s].op = ses[s].op /\ ses'[s].pc = AfterSync(s) /\ ses'[s].u = ses[s].u
      /\ ses'[s].pay = ses[s].pay /\ ses'[s].r = ses[s].r /\ ses'[s].n = ses[s].n
      /\ ses'[s].flag = ses[s].flag /\ ses'[s].days = d /\ ~ ses'[s].debt /\ ~ ses'[s].dirty
  BY <1>1, <1>2 DEF SesState
<1>4. /\ balance'[ses[s].u] = IF ses[s].debt THEN ses[s].n ELSE balance[ses[s].u]
      /\ \A v \in User \ {ses[s].u} : balance'[v] = balance[v]
  BY <1>2 DEF Synced
<1> QED
  BY <1>1, <1>3, <1>4 DEF Synced

LEMMA NotSyncedFields ==
  ASSUME TypeOK, NEW s \in Session, NEW d \in Nat, NotSynced(s, d)
  PROVE  /\ Apart(s) /\ UNCHANGED <<balance, days, lock>>
         /\ ses'[s].op = ses[s].op /\ ses'[s].pc = AfterSync(s) /\ ses'[s].u = ses[s].u
         /\ ses'[s].pay = ses[s].pay /\ ses'[s].r = ses[s].r /\ ses'[s].n = ses[s].n
         /\ ses'[s].flag = ses[s].flag /\ ses'[s].days = d /\ ses'[s].debt = ses[s].debt /\ ses'[s].dirty
<1>1. /\ Apart(s) /\ UNCHANGED <<balance, days, lock>>
      /\ ses'[s] = [ses[s] EXCEPT !.pc = AfterSync(s), !.days = d, !.dirty = TRUE]
  BY NotSyncedEffect
<1>2. ses[s] \in SesState
  BY Types
<1>3. /\ ses'[s].op = ses[s].op /\ ses'[s].pc = AfterSync(s) /\ ses'[s].u = ses[s].u
      /\ ses'[s].pay = ses[s].pay /\ ses'[s].r = ses[s].r /\ ses'[s].n = ses[s].n
      /\ ses'[s].flag = ses[s].flag /\ ses'[s].days = d /\ ses'[s].debt = ses[s].debt /\ ses'[s].dirty
  BY <1>1, <1>2 DEF SesState
<1> QED
  BY <1>1, <1>3

LEMMA PayStarsFields ==
  ASSUME TypeOK, NEW s \in Session, ses[s].u \in User, PayStars(s), ~ End(s)
  PROVE  /\ Apart(s) /\ lock[ses[s].u] \in {None, s} /\ lock'[ses[s].u] = s
         /\ ses'[s].op = ses[s].op /\ ses'[s].pc = "prize" /\ ses'[s].u = ses[s].u
         /\ ses'[s].pay = ses[s].pay /\ ses'[s].r = ses[s].r /\ ses'[s].n + SpinCost = balance[ses[s].u]
         /\ ses'[s].flag = ses[s].flag /\ ses'[s].days = ses[s].days /\ ses'[s].debt
         /\ ses'[s].dirty = ses[s].dirty
<1>1. /\ balance[ses[s].u] >= SpinCost /\ Lock(s, ses[s].u)
      /\ ses' = [ses EXCEPT ![s].pc = "prize", ![s].n = balance[ses[s].u] - SpinCost, ![s].debt = TRUE]
  BY DEF PayStars, Enough
<1>2. /\ Apart(s)
      /\ ses'[s] = [ses[s] EXCEPT !.pc = "prize", !.n = balance[ses[s].u] - SpinCost, !.debt = TRUE]
  BY <1>1, PayStarsEffect
<1>3. ses[s] \in SesState
  BY Types
<1>4. /\ ses'[s].op = ses[s].op /\ ses'[s].pc = "prize" /\ ses'[s].u = ses[s].u
      /\ ses'[s].pay = ses[s].pay /\ ses'[s].r = ses[s].r /\ ses'[s].n = balance[ses[s].u] - SpinCost
      /\ ses'[s].flag = ses[s].flag /\ ses'[s].days = ses[s].days /\ ses'[s].debt
      /\ ses'[s].dirty = ses[s].dirty
  BY <1>2, <1>3 DEF SesState
<1>5. balance[ses[s].u] - SpinCost + SpinCost = balance[ses[s].u]
  BY Types, WheelAssumption
<1> QED
  BY <1>1, <1>2, <1>4, <1>5, LockEffect

LEMMA WinCashFields ==
  ASSUME TypeOK, NEW s \in Session, ses[s].u \in User, WinCash(s)
  PROVE  /\ Apart(s) /\ lock[ses[s].u] \in {None, s}
         /\ balance' = [balance EXCEPT ![ses[s].u] = @ + Prize]
         /\ booked' = [booked EXCEPT ![ses[s].u] = @ + Prize]
         /\ ses'[s].op = ses[s].op /\ ses'[s].pc = "record" /\ ses'[s].u = ses[s].u
         /\ ses'[s].pay = ses[s].pay /\ ses'[s].r = 1
         /\ ses'[s].flag = (ses[s].debt \/ ses[s].dirty) /\ ses'[s].days = ses[s].days
         /\ ~ ses'[s].debt /\ ~ ses'[s].dirty
<1>1. /\ Apart(s)
      /\ ses'[s] = [ses[s] EXCEPT !.pc = "record", !.r = 1, !.flag = Lost(s), !.debt = FALSE, !.dirty = FALSE]
  BY WinCashEffect DEF WinCash
<1>2. ses[s] \in SesState
  BY Types
<1>3. /\ ses'[s].op = ses[s].op /\ ses'[s].pc = "record" /\ ses'[s].u = ses[s].u
      /\ ses'[s].pay = ses[s].pay /\ ses'[s].r = 1
      /\ ses'[s].flag = Lost(s) /\ ses'[s].days = ses[s].days
      /\ ~ ses'[s].debt /\ ~ ses'[s].dirty
  BY <1>1, <1>2 DEF SesState
<1> QED
  BY <1>1, <1>3 DEF WinCash, AddBalance, Lockable, Lost

LEMMA WinOtherFields ==
  ASSUME TypeOK, NEW s \in Session, WinOther(s)
  PROVE  /\ Apart(s)
         /\ ses'[s].op = ses[s].op /\ ses'[s].pc = "record" /\ ses'[s].u = ses[s].u
         /\ ses'[s].pay = ses[s].pay /\ ses'[s].r = 2 /\ ses'[s].n = ses[s].n
         /\ ses'[s].flag = ses[s].flag /\ ses'[s].days = ses[s].days
         /\ ses'[s].debt = ses[s].debt /\ ses'[s].dirty = ses[s].dirty
<1>1. Apart(s) /\ ses'[s] = [ses[s] EXCEPT !.pc = "record", !.r = 2]
  BY WinOtherEffect DEF WinOther
<1>2. ses[s] \in SesState
  BY Types
<1>3. /\ ses'[s].op = ses[s].op /\ ses'[s].pc = "record" /\ ses'[s].u = ses[s].u
      /\ ses'[s].pay = ses[s].pay /\ ses'[s].r = 2 /\ ses'[s].n = ses[s].n
      /\ ses'[s].flag = ses[s].flag /\ ses'[s].days = ses[s].days
      /\ ses'[s].debt = ses[s].debt /\ ses'[s].dirty = ses[s].dirty
  BY <1>1, <1>2 DEF SesState
<1> QED
  BY <1>1, <1>3

\* The panel answers, or not: the days that are written, and how.
LEMMA DaysMoved ==
  ASSUME TypeOK, NEW s \in Session, PayDays(s) \/ WinDays(s)
  PROVE  \E d \in Nat :
           /\ Synced(s, d) \/ NotSynced(s, d)
           /\ PayDays(s) => d = ses[s].days - SpinDays
           /\ WinDays(s) => d = ses[s].days + PrizeDays
<1>1. ses[s].days \in Nat /\ SpinDays \in Nat /\ PrizeDays \in Nat
  BY Types, WheelAssumption DEF SesState
<1>2. CASE PayDays(s)
  <2>1. PICK d : d = ses[s].days - SpinDays /\ (Synced(s, d) \/ NotSynced(s, d)) /\ ses[s].days >= SpinDays
    BY <1>2 DEF PayDays, Synced, NotSynced
  <2>2. d \in Nat /\ ~ WinDays(s)
    BY <1>1, <1>2, <2>1 DEF PayDays, WinDays, At
  <2> QED
    BY <2>1, <2>2
<1>3. CASE WinDays(s)
  <2>1. PICK d : d = ses[s].days + PrizeDays /\ (Synced(s, d) \/ NotSynced(s, d))
    BY <1>3 DEF WinDays, Synced, NotSynced
  <2>2. d \in Nat /\ ~ PayDays(s)
    BY <1>1, <1>3, <2>1 DEF PayDays, WinDays, At
  <2> QED
    BY <2>1, <2>2
<1> QED
  BY <1>2, <1>3

\* The flush of a price: it becomes due at once.
Pays(s) ==
  /\ Apart(s) /\ Guarded(s) /\ SpinInv(s)'
  /\ ~ Owes(s) /\ Owes(s)' /\ ses[s].u \in User /\ ses'[s].u = ses[s].u
  /\ balance'[ses[s].u] = balance[ses[s].u] - SpinCost
  /\ \A v \in User \ {ses[s].u} : balance'[v] = balance[v]
  /\ UNCHANGED <<booked, spins, broken>>

LEMMA PaysBalance ==
  ASSUME BookInv, NEW s \in Session, Pays(s), TypeOK', Counted'
  PROVE  OnlyCash' /\ (\A t \in Session : SpinInv(t)') /\ \A u \in User : BalanceInv(u)'
<1>1. OnlyCash'
  BY DEF BookInv, Pays, OnlyCash
<1>2. \A t \in Session : SpinInv(t)'
  BY SpinFrame DEF Pays
<1>3. ASSUME NEW u \in User
      PROVE  BalanceInv(u)'
  <2>1. /\ Cardinality(Owing(u)') = Cardinality(Owing(u)) + IF ses[s].u = u THEN 1 ELSE 0
        /\ Paid(u, "balance")' = Paid(u, "balance")
    BY OwingGains DEF Pays, Paid, SpinsOf, BookInv
  <2>2. /\ Cardinality(Owing(u)) \in Nat /\ Cardinality(Paid(u, "balance")) \in Nat
        /\ balance[u] \in Int /\ booked[u] \in Int /\ SpinCost \in Int
    BY OwingIsFinite, SpinsAreFinite, WheelAssumption DEF BookInv, IInv, TypeOK, RowTypeOK
  <2>3. booked' = booked /\ broken' = broken
    BY DEF Pays
  <2>4. CASE ses[s].u = u
    <3>1. /\ Cardinality(Paid(u, "balance")') + Cardinality(Owing(u)') =
               Cardinality(Paid(u, "balance")) + Cardinality(Owing(u)) + 1
          /\ balance'[u] - booked'[u] = balance[u] - booked[u] - SpinCost
      <4>1. balance'[u] = balance[u] - SpinCost
        BY <2>4 DEF Pays
      <4> QED
        BY <2>1, <2>2, <2>3, <2>4, <4>1
    <3>2. SpinCost = SpinCost * 1
      BY <2>2
    <3> QED
      BY <2>2, <2>3, <3>1, <3>2, BalanceFrame
  <2>5. CASE ses[s].u # u
    <3>1. /\ Cardinality(Paid(u, "balance")') + Cardinality(Owing(u)') =
               Cardinality(Paid(u, "balance")) + Cardinality(Owing(u)) + 0
          /\ balance'[u] - booked'[u] = balance[u] - booked[u] - 0
      <4>1. balance'[u] = balance[u]
        BY <2>5 DEF Pays
      <4> QED
        BY <2>1, <2>2, <2>3, <2>5, <4>1
    <3>2. 0 = SpinCost * 0
      BY <2>2
    <3> QED
      BY <2>2, <2>3, <3>1, <3>2, BalanceFrame
  <2> QED
    BY <2>4, <2>5
<1> QED
  BY <1>1, <1>2, <1>3

LEMMA WheelBalance ==
  ASSUME BookInv, NEW s \in Session, WheelNext(s), LocksKept(s), ~ RecordSpin(s)
  PROVE  Quiet(s) \/ Pays(s)
<1>0. /\ TypeOK /\ ses[s] \in SesState /\ (Working(s) => ses[s].u \in User)
      /\ Debt(s) /\ Unpaid(s) /\ Free(s)
  BY Knows DEF BookInv, SpinInv
<1>1. ASSUME UNCHANGED rows, Apart(s), UNCHANGED <<spins, broken>>, SpinInv(s)', ~ Owes(s), ~ Owes(s)'
      PROVE  Quiet(s)
  BY <1>1 DEF Quiet, Guarded, InStep, LocksKept, rows
<1>2. ASSUME NEW u \in Player, NEW pay \in {"balance", "days"}, Available(s, u, pay)
      PROVE  Quiet(s)
  <2>1. /\ Starts(s, "spin", "pay", u) /\ ~ ses'[s].flag /\ ~ ses'[s].debt
        /\ UNCHANGED <<rows, spins, broken>>
    BY <1>0, <1>2, AvailableFields DEF Available, wheelVars
  <2>2. SpinInv(s)' /\ ~ Owes(s) /\ ~ Owes(s)' /\ Apart(s)
    BY <2>1 DEF Starts, SpinInv, Debt, Unpaid, Free, Owes, Working, At, Busy
  <2> QED
    BY <1>1, <2>1, <2>2
<1>3. CASE PayStars(s) /\ End(s)
  <2>1. /\ At(s, "spin", "pay") /\ Apart(s) /\ ses'[s] = Idle /\ UNCHANGED <<rows, spins, broken>>
    BY <1>0, <1>3, EndEffect DEF PayStars, Ends, wheelVars
  <2>2. SpinInv(s)' /\ ~ Owes(s) /\ ~ Owes(s)'
    BY <2>1 DEF SpinInv, Debt, Unpaid, Free, Owes, At, Busy, Idle
  <2> QED
    BY <1>1, <2>1, <2>2
<1>4. CASE PayStars(s) /\ ~ End(s)
  <2>1. /\ At(s, "spin", "pay") /\ ses[s].pay = "balance" /\ ses[s].u \in User
        /\ UNCHANGED <<rows, spins, broken>>
    BY <1>0, <1>4 DEF PayStars, At, Working, wheelVars
  <2>2. /\ Apart(s) /\ lock'[ses[s].u] = s
        /\ ses'[s].op = ses[s].op /\ ses'[s].pc = "prize" /\ ses'[s].u = ses[s].u
        /\ ses'[s].pay = ses[s].pay /\ ses'[s].n + SpinCost = balance[ses[s].u]
        /\ ses'[s].flag = ses[s].flag /\ ses'[s].debt
    BY <1>0, <1>4, <2>1, PayStarsFields
  <2>3. SpinInv(s)' /\ ~ Owes(s) /\ ~ Owes(s)'
    BY <1>0, <2>1, <2>2 DEF SpinInv, Debt, Unpaid, Free, Owes, At, Busy, rows
  <2> QED
    BY <1>1, <2>1, <2>2, <2>3
<1>5. CASE PayDays(s) \/ WinDays(s)
  <2>1. /\ Busy(s, "spin") /\ ses[s].u \in User /\ ~ ses[s].flag /\ UNCHANGED <<booked, spins, broken>>
        /\ \/ ses[s].pc = "pay" /\ ses[s].pay = "days"
           \/ ses[s].pc = "prize"
    BY <1>0, <1>5 DEF PayDays, WinDays, At, Busy, Working, Free, wheelVars
  <2>2. (ses[s].pay = "balance") <=> ses[s].debt
    BY <1>0, <2>1 DEF Debt, Unpaid, At, Busy
  <2>3. PICK d \in Nat : Synced(s, d) \/ NotSynced(s, d)
    BY <1>0, <1>5, DaysMoved
  <2>4. AfterSync(s) \in {"prize", "record"} /\ (AfterSync(s) = "prize" <=> ses[s].pc = "pay")
    BY DEF AfterSync
  <2>5. CASE NotSynced(s, d)
    <3>1. /\ Apart(s) /\ UNCHANGED <<balance, lock>>
          /\ ses'[s].op = ses[s].op /\ ses'[s].pc = AfterSync(s) /\ ses'[s].u = ses[s].u
          /\ ses'[s].pay = ses[s].pay /\ ses'[s].n = ses[s].n
          /\ ses'[s].flag = ses[s].flag /\ ses'[s].debt = ses[s].debt
      BY <1>0, <2>5, NotSyncedFields
    <3>2. SpinInv(s)' /\ ~ Owes(s) /\ ~ Owes(s)'
      BY <1>0, <2>1, <2>2, <2>4, <3>1 DEF SpinInv, Debt, Unpaid, Free, Owes, At, Busy
    <3> QED
      BY <2>1, <3>1, <3>2 DEF Quiet, Guarded, InStep
  <2>6. CASE Synced(s, d)
    <3>1. /\ Apart(s)
          /\ ses'[s].op = ses[s].op /\ ses'[s].pc = AfterSync(s) /\ ses'[s].u = ses[s].u
          /\ ses'[s].pay = ses[s].pay /\ ses'[s].flag = ses[s].flag /\ ~ ses'[s].debt
          /\ balance'[ses[s].u] = IF ses[s].debt THEN ses[s].n ELSE balance[ses[s].u]
          /\ \A v \in User \ {ses[s].u} : balance'[v] = balance[v]
      BY <1>0, <2>1, <2>6, SyncedFields
    <3>2. SpinInv(s)' /\ ~ Owes(s) /\ (Owes(s)' <=> ses[s].debt)
      BY <1>0, <2>1, <2>2, <2>4, <3>1 DEF SpinInv, Debt, Unpaid, Free, Owes, At, Busy
    <3>3. CASE ses[s].debt
      <4>1. lock[ses[s].u] = s /\ balance[ses[s].u] = ses[s].n + SpinCost
        BY <1>0, <3>3 DEF Debt
      <4>2. balance'[ses[s].u] = balance[ses[s].u] - SpinCost
        <5>1. ses[s].n \in Int /\ SpinCost \in Int
          BY <1>0, WheelAssumption DEF SesState
        <5> QED
          BY <3>1, <3>3, <4>1, <5>1
      <4>3. Guarded(s)
        BY <3>1, <4>1 DEF Guarded, LocksKept
      <4> QED
        BY <2>1, <3>1, <3>2, <3>3, <4>2, <4>3 DEF Pays
    <3>4. CASE ~ ses[s].debt
      BY <2>1, <3>1, <3>2, <3>4 DEF Quiet, Guarded, InStep, LocksKept
    <3> QED
      BY <3>3, <3>4
  <2> QED
    BY <2>3, <2>5, <2>6
<1>6. CASE WinCash(s)
  <2>1. /\ At(s, "spin", "prize") /\ ses[s].u \in User /\ UNCHANGED <<spins, broken>>
        /\ Prize \in Int /\ (ses[s].pay = "balance" => ses[s].debt)
    BY <1>0, <1>6, WheelAssumption DEF WinCash, At, Working, wheelVars, Unpaid
  <2>2. /\ Apart(s) /\ lock[ses[s].u] \in {None, s}
        /\ balance' = [balance EXCEPT ![ses[s].u] = @ + Prize]
        /\ booked' = [booked EXCEPT ![ses[s].u] = @ + Prize]
        /\ ses'[s].op = ses[s].op /\ ses'[s].pc = "record"
        /\ ses'[s].pay = ses[s].pay /\ ses'[s].r = 1
        /\ ses'[s].flag = (ses[s].debt \/ ses[s].dirty) /\ ~ ses'[s].debt
    BY <1>0, <1>6, <2>1, WinCashFields
  <2>3. Guarded(s) /\ InStep
    BY <1>0, <2>1, <2>2, Moves
  <2>4. SpinInv(s)' /\ ~ Owes(s) /\ ~ Owes(s)'
    BY <2>1, <2>2 DEF SpinInv, Debt, Unpaid, Free, Owes, At, Busy
  <2> QED
    BY <2>1, <2>2, <2>3, <2>4 DEF Quiet
<1>7. CASE WinOther(s)
  <2>1. /\ At(s, "spin", "prize") /\ UNCHANGED <<rows, spins, broken, lock>> /\ ~ ses[s].flag
        /\ (ses[s].pay = "balance" => ses[s].debt)
    BY <1>0, <1>7 DEF WinOther, wheelVars, Unpaid, Free, At, Busy
  <2>2. /\ Apart(s) /\ ses'[s].op = ses[s].op /\ ses'[s].pc = "record" /\ ses'[s].u = ses[s].u
        /\ ses'[s].pay = ses[s].pay /\ ses'[s].n = ses[s].n
        /\ ses'[s].flag = ses[s].flag /\ ses'[s].debt = ses[s].debt
    BY <1>0, <1>7, WinOtherFields
  <2>3. SpinInv(s)' /\ ~ Owes(s) /\ ~ Owes(s)'
    BY <1>0, <2>1, <2>2 DEF SpinInv, Debt, Unpaid, Free, Owes, At, Busy, rows
  <2> QED
    BY <1>1, <2>1, <2>2, <2>3
<1> QED
  BY <1>2, <1>3, <1>4, <1>5, <1>6, <1>7 DEF WheelNext

\* The spin is recorded with its price: what was due is paid, and what was not
\* flushed is written.
LEMMA RecordBalance ==
  ASSUME BookInv, NEW s \in Session, RecordSpin(s), LocksKept(s), TypeOK', Counted'
  PROVE  OnlyCash' /\ (\A t \in Session : SpinInv(t)') /\ \A u \in User : BalanceInv(u)'
<1> DEFINE x == Recorded(s)
<1>0. /\ TypeOK /\ ses[s] \in SesState /\ ses[s].u \in User /\ Busy(s, "spin") /\ ses[s].pc = "record"
      /\ ses[s].pay \in {"balance", "days"} /\ Debt(s) /\ Free(s)
  <2>1. Busy(s, "spin") /\ ses[s].pc = "record"
    BY DEF RecordSpin, At, Busy
  <2>2. TypeOK /\ ses[s] \in SesState /\ (Working(s) => ses[s].u \in User) /\ Shape(s)
    BY Knows DEF BookInv
  <2> QED
    BY <2>1, <2>2 DEF BookInv, SpinInv, SesState, Shape, Busy, Working
<1>1. /\ Apart(s) /\ ses'[s] = Idle /\ UNCHANGED <<booked, broken>> /\ spins' = Append(spins, x)
  BY <1>0, EndEffect DEF RecordSpin, Ends
<1>2. /\ x \in Spin /\ x.user = ses[s].u /\ x.pay = ses[s].pay /\ x.free = ses[s].flag
      /\ x.free => x.prize = "cash"
  <2>1. PrizeDrawn(s) \in {"cash", "days", "other"} /\ (ses[s].r = 1 => PrizeDrawn(s) = "cash")
    BY DEF PrizeDrawn
  <2>2. ses[s].flag \in BOOLEAN /\ (ses[s].flag => ses[s].r = 1)
    BY <1>0 DEF SesState, Free
  <2> QED
    BY <1>0, <2>1, <2>2 DEF Recorded, Spin
<1> HIDE DEF x
<1>3. WheelTypeOK
  BY <1>0 DEF TypeOK
<1>4. OnlyCash'
  <2>1. /\ DOMAIN spins' = DOMAIN spins \cup {Len(spins) + 1} /\ spins'[Len(spins) + 1] = x
        /\ \A i \in DOMAIN spins : spins'[i] = spins[i]
    BY <1>0, <1>1, <1>2, <1>3, SpinsGrow
  <2> QED
    BY <1>2, <2>1 DEF OnlyCash, BookInv
<1>5. /\ balance'[ses[s].u] = IF ses[s].debt THEN ses[s].n ELSE balance[ses[s].u]
      /\ \A v \in User \ {ses[s].u} : balance'[v] = balance[v]
  <2>1. balance \in [User -> Nat]
    BY <1>0, Types
  <2> QED
    BY <1>0, <2>1 DEF RecordSpin
<1>6. Guarded(s)
  BY <1>0, <1>5 DEF Guarded, LocksKept, Debt
<1>7. SpinInv(s)' /\ ~ Owes(s)'
  BY <1>1 DEF SpinInv, Debt, Unpaid, Free, Owes, At, Busy, Idle
<1>8. \A t \in Session : SpinInv(t)'
  BY <1>1, <1>6, <1>7, SpinFrame
<1>9. ASSUME NEW u \in User
      PROVE  BalanceInv(u)'
  <2>1. /\ Cardinality(Owing(u)) \in Nat /\ Cardinality(Paid(u, "balance")) \in Nat
        /\ balance[u] \in Int /\ booked[u] \in Int /\ SpinCost \in Int /\ ses[s].n \in Int
    BY <1>0, <1>3, OwingIsFinite, SpinsAreFinite, WheelAssumption DEF BookInv, TypeOK, RowTypeOK, SesState
  <2>2. Cardinality(Paid(u, "balance")') = Cardinality(Paid(u, "balance"))
          + IF x.user = u /\ x.pay = "balance" /\ ~ x.free THEN 1 ELSE 0
    BY <1>1, <1>2, <1>3, SpinsGrow
  <2>3. 0 = SpinCost * 0 /\ SpinCost = SpinCost * 1
    BY <2>1
  <2>4. u \in broken => u \in broken'
    BY <1>1
  <2>5. CASE Owes(s)
    <3>1. Cardinality(Owing(u)') = Cardinality(Owing(u)) - IF ses[s].u = u THEN 1 ELSE 0
      BY <1>1, <1>7, <2>5, OwingLoses DEF BookInv
    <3>2. ses[s].pay = "balance" /\ ~ ses[s].debt /\ ~ ses[s].flag /\ balance'[u] = balance[u]
      BY <1>5, <2>5 DEF Owes
    <3>3. Cardinality(Paid(u, "balance")') + Cardinality(Owing(u)') =
            Cardinality(Paid(u, "balance")) + Cardinality(Owing(u)) + 0
      BY <1>2, <2>1, <2>2, <3>1, <3>2
    <3>4. balance'[u] - booked'[u] = balance[u] - booked[u] - 0
      BY <1>1, <2>1, <3>2
    <3> QED
      BY <2>1, <2>3, <2>4, <3>3, <3>4, BalanceFrame
  <2>6. CASE ~ Owes(s)
    <3>1. Cardinality(Owing(u)') = Cardinality(Owing(u))
      BY <1>1, <1>7, <2>6, OwingKept
    <3>2. ses[s].debt <=> ses[s].pay = "balance" /\ ~ ses[s].flag
      BY <1>0, <2>6 DEF Debt, Owes
    <3>3. CASE ses[s].debt /\ ses[s].u = u
      <4>1. balance'[u] = balance[u] - SpinCost
        BY <1>0, <1>5, <2>1, <3>3 DEF Debt
      <4>2. Cardinality(Paid(u, "balance")') + Cardinality(Owing(u)') =
              Cardinality(Paid(u, "balance")) + Cardinality(Owing(u)) + 1
        BY <1>2, <2>1, <2>2, <3>1, <3>2, <3>3
      <4>3. balance'[u] - booked'[u] = balance[u] - booked[u] - SpinCost
        BY <1>1, <2>1, <4>1
      <4> QED
        BY <2>1, <2>3, <2>4, <4>2, <4>3, BalanceFrame
    <3>4. CASE ~ (ses[s].debt /\ ses[s].u = u)
      <4>1. balance'[u] = balance[u]
        BY <1>5, <3>4
      <4>2. Cardinality(Paid(u, "balance")') + Cardinality(Owing(u)') =
              Cardinality(Paid(u, "balance")) + Cardinality(Owing(u)) + 0
        BY <1>2, <2>1, <2>2, <3>1, <3>2, <3>4
      <4>3. balance'[u] - booked'[u] = balance[u] - booked[u] - 0
        BY <1>1, <2>1, <4>1
      <4> QED
        BY <2>1, <2>3, <2>4, <4>2, <4>3, BalanceFrame
    <3> QED
      BY <3>3, <3>4
  <2> QED
    BY <2>5, <2>6
<1> QED
  BY <1>4, <1>8, <1>9

\* A user whose spin breaks off between two commits has no books any more.
LEMMA BreakOffBalance ==
  ASSUME BookInv, NEW s \in Session, BreakOff(s), LocksKept(s), TypeOK', Counted'
  PROVE  OnlyCash' /\ (\A t \in Session : SpinInv(t)') /\ \A u \in User : BalanceInv(u)'
<1>0. TypeOK
  BY DEF BookInv, IInv
<1>1. Apart(s) /\ ses'[s] = Idle /\ UNCHANGED <<balance, booked, spins>>
  BY <1>0, EndEffect DEF BreakOff, Ends, rows
<1>2. OnlyCash' /\ Guarded(s) /\ SpinInv(s)' /\ ~ Owes(s)'
  BY <1>1 DEF BookInv, OnlyCash, Guarded, LocksKept, SpinInv, Debt, Unpaid, Free, Owes, At, Busy, Idle
<1>3. \A t \in Session : SpinInv(t)'
  BY <1>1, <1>2, SpinFrame
<1>4. ASSUME NEW u \in User
      PROVE  BalanceInv(u)'
  <2>1. broken \subseteq broken' /\ (Owes(s) => ses[s].u \in broken')
    BY DEF BreakOff, Owes
  <2>2. /\ Cardinality(Owing(u)) \in Nat /\ Cardinality(Paid(u, "balance")) \in Nat
        /\ balance[u] \in Int /\ booked[u] \in Int /\ SpinCost \in Int
    BY <1>0, OwingIsFinite, SpinsAreFinite, WheelAssumption DEF BookInv, TypeOK, RowTypeOK
  <2>3. CASE u \in broken'
    BY <2>3 DEF BalanceInv
  <2>4. CASE u \notin broken'
    <3>1. Owing(u)' = Owing(u)
      <4>1. CASE Owes(s)
        <5>1. \A t \in Session \ {s} : (Owes(t)' <=> Owes(t)) /\ ses'[t].u = ses[t].u
          BY <1>1 DEF Apart, Owes, Busy
        <5> QED
          BY <1>2, <2>1, <2>4, <4>1, <5>1 DEF Owing
      <4>2. CASE ~ Owes(s)
        BY <1>1, <1>2, <4>2, OwingKept
      <4> QED
        BY <4>1, <4>2
    <3>2. Paid(u, "balance")' = Paid(u, "balance")
      BY <1>1 DEF Paid, SpinsOf
    <3>3. /\ Cardinality(Paid(u, "balance")') + Cardinality(Owing(u)') =
               Cardinality(Paid(u, "balance")) + Cardinality(Owing(u)) + 0
          /\ balance'[u] - booked'[u] = balance[u] - booked[u] - 0
      BY <1>1, <2>2, <3>1, <3>2
    <3>4. 0 = SpinCost * 0 /\ (u \in broken => u \in broken')
      BY <2>1, <2>2
    <3> QED
      BY <3>3, <3>4, BalanceFrame
  <2> QED
    BY <2>3, <2>4
<1> QED
  BY <1>2, <1>3, <1>4

-----------------------------------------------------------------------------
LEMMA BookInitially == Init => BookInv
<1> SUFFICES ASSUME Init PROVE BookInv
  OBVIOUS
<1>1. IInv
  BY Initially
<1>2. /\ ses = [s \in Session |-> Idle] /\ uses = {} /\ spins = <<>>
      /\ balance = [u \in User |-> StartBalance] /\ booked = [u \in User |-> 0]
  BY DEF Init, RowInit, PromoInit, WheelInit
<1>3. \A s \in Session : ~ Working(s) /\ SpinInv(s) /\ ~ Owes(s)
  BY <1>2 DEF Working, SpinInv, Debt, Unpaid, Free, Owes, At, Busy, Idle
<1>4. Counted
  <2>1. {s \in Session : Working(s)} = {} /\ (\A c \in Code : UsersOf(c) = {}) /\ \A u \in User : CodesOf(u) = {}
    BY <1>2, <1>3 DEF UsersOf, CodesOf
  <2> QED
    BY <2>1, FS_EmptySet DEF Counted
<1>5. DOMAIN spins = {}
  BY <1>2, EmptySeq
<1>6. ASSUME NEW u \in User
      PROVE  BalanceInv(u)
  <2>1. Paid(u, "balance") = {} /\ Owing(u) = {}
    BY <1>3, <1>5 DEF Paid, SpinsOf, Owing
  <2>2. Cardinality(Paid(u, "balance")) = 0 /\ Cardinality(Owing(u)) = 0
    BY <2>1, FS_EmptySet
  <2>3. balance[u] = StartBalance + booked[u] - SpinCost * (0 + 0)
    BY <1>2, StartAssumption, WheelAssumption
  <2> QED
    BY <2>2, <2>3 DEF BalanceInv
<1> QED
  BY <1>1, <1>3, <1>4, <1>5, <1>6 DEF BookInv, OnlyCash

\* The steps of a session move the uses of one key, or fewer.
LEMMA UsesStep ==
  ASSUME NEW s \in Session, PromoNext(s)
  PROVE  \E k : uses' \subseteq uses \cup {k}
BY DEF PromoNext, Look, Check, Reserve, ApplyBalance, ApplyDays, ApplyDiscount, Inapplicable, Count,
       LookDiscount, GiveBack, Use, promoVars

LEMMA BookInvariance == BookInv /\ [Next]_vars => BookInv'
<1> SUFFICES ASSUME BookInv, [Next]_vars PROVE BookInv'
  OBVIOUS
<1>0. IInv /\ IInv' /\ TypeOK /\ TypeOK'
  BY Invariance DEF BookInv, IInv
<1>1. ASSUME NEW s \in Session, PromoNext(s), UNCHANGED <<wheelVars, withdrawalVars>>
      PROVE  BookInv'
  <2>1. Apart(s) /\ LocksKept(s)
    BY <1>0, <1>1, PromoTyping, PromoLeaves DEF LeavesRequests
  <2>2. Counted'
    BY <1>1, <2>1, UsesStep, CountedStep DEF BookInv
  <2> QED
    BY <1>0, <1>1, <2>1, <2>2, PromoOffWheel, OffWheelIsQuiet, QuietBalance DEF BookInv
<1>2. ASSUME NEW s \in Session, WheelNext(s), UNCHANGED <<promoVars, withdrawalVars>>
      PROVE  BookInv'
  <2>1. Apart(s) /\ LocksKept(s)
    BY <1>0, <1>2, WheelTyping, WheelLeaves DEF LeavesRequests
  <2>2. uses' = uses
    BY <1>2 DEF promoVars
  <2>3. Counted'
    BY <2>1, <2>2, CountedStep DEF BookInv
  <2>4. OnlyCash' /\ (\A t \in Session : SpinInv(t)') /\ \A u \in User : BalanceInv(u)'
    BY <1>0, <1>2, <2>1, <2>3, WheelBalance, QuietBalance, PaysBalance, RecordBalance
  <2> QED
    BY <1>0, <2>3, <2>4 DEF BookInv
<1>3. ASSUME NEW s \in Session, WithdrawalNext(s), UNCHANGED <<promoVars, wheelVars>>
      PROVE  BookInv'
  <2>1. Apart(s) /\ LocksKept(s)
    BY <1>0, <1>3, WithdrawalTyping, WithdrawalLocks
  <2>2. uses' = uses
    BY <1>3 DEF promoVars
  <2>3. Counted'
    BY <2>1, <2>2, CountedStep DEF BookInv
  <2> QED
    BY <1>0, <1>3, <2>1, <2>3, WithdrawalOffWheel, OffWheelIsQuiet, QuietBalance DEF BookInv
<1>4. ASSUME NEW s \in Session, BreakOff(s)
      PROVE  BookInv'
  <2>1. /\ Apart(s) /\ LocksKept(s) /\ uses' = uses
    BY <1>0, <1>4, BreakOffTyping, EndLeaves DEF BreakOff, Ends, LeavesRequests
  <2>2. Counted'
    BY <2>1, CountedStep DEF BookInv
  <2> QED
    BY <1>0, <1>4, <2>1, <2>2, BreakOffBalance DEF BookInv
<1>5. CASE UNCHANGED <<balance, booked, lock, ses, uses, spins, broken>>
  <2>1. Counted' /\ OnlyCash'
    BY <1>5 DEF BookInv, Counted, OnlyCash, Working, UsersOf, CodesOf
  <2>2. ASSUME NEW s \in Session
        PROVE  SpinInv(s)' /\ (Owes(s)' <=> Owes(s))
    BY <1>5 DEF BookInv, SpinInv, Debt, Unpaid, Free, Owes, At, Busy
  <2>3. ASSUME NEW u \in User
        PROVE  BalanceInv(u)'
    <3>1. Owing(u)' = Owing(u) /\ Paid(u, "balance")' = Paid(u, "balance")
      BY <1>5, <2>2 DEF Owing, Paid, SpinsOf
    <3> QED
      BY <1>5, <3>1 DEF BookInv, BalanceInv
  <2> QED
    BY <1>0, <2>1, <2>2, <2>3 DEF BookInv
<1>6. (\E i \in DOMAIN requests : Cancel(i) /\ UNCHANGED <<promoVars, wheelVars>>) \/ UNCHANGED vars
        => UNCHANGED <<balance, booked, lock, ses, uses, spins, broken>>
  BY DEF Cancel, promoVars, wheelVars, rowVars, rows, vars
<1> QED
  BY <1>1, <1>2, <1>3, <1>4, <1>5, <1>6 DEF Next

\* BookInv holds of every state, for any users, codes, sessions and prices.
THEOREM BooksInductive == Spec => []BookInv
BY BookInitially, BookInvariance, PTL DEF Spec

\* A balance is always the money that came in and went out by transactions,
\* less the price of the spins that were recorded as paid: whatever the
\* handlers of promo codes, spins and withdrawals interleave, and although the
\* price of a spin is flushed by whichever commit comes next (wheel_service.py,
\* spin); and the price of a spin is lost only to a prize in money.
THEOREM BalancesReconcile == Spec => []BalanceReconciles
<1>1. BookInv => BalanceReconciles
  <2> SUFFICES ASSUME BookInv PROVE BalanceReconciles
    OBVIOUS
  <2>1. ASSUME NEW u \in User, Settled(u)
        PROVE  balance[u] = StartBalance + booked[u] - SpinCost * Cardinality(Paid(u, "balance"))
    <3>1. Owing(u) = {} /\ u \notin broken
      BY <2>1 DEF Settled, Spinning, Owing, Owes
    <3>2. Cardinality(Owing(u)) = 0
      BY <3>1, FS_EmptySet
    <3>3. Cardinality(Paid(u, "balance")) \in Nat
      BY SpinsAreFinite DEF BookInv, IInv, TypeOK
    <3>4. Cardinality(Paid(u, "balance")) + Cardinality(Owing(u)) = Cardinality(Paid(u, "balance"))
      BY <3>2, <3>3
    <3> QED
      BY <3>1, <3>4 DEF BookInv, BalanceInv
  <2> QED
    BY <2>1 DEF BookInv, OnlyCash, BalanceReconciles
<1> QED
  BY <1>1, BooksInductive, PTL

-----------------------------------------------------------------------------
(***************************************************************************)
(* The limits and the days of a subscription, where sessions of a user, or  *)
(* sessions at work on a code, do not overlap.                              *)
(*                                                                         *)
(* Without an overlap a session is alone with what it has read, so that the *)
(* invariants say of it what nobody else can change: the count it will      *)
(* write, the days it has computed and which of them are written.           *)
(***************************************************************************)
AloneOnCode(c) == \A s, t \in Session : ses[s].c = c /\ ses[t].c = c => s = t
AloneAsUser(u) == \A s, t \in Session : ses[s].u = u /\ ses[t].u = u => s = t

\* The use of c is committed and not counted.
Uncounted(s, c) == At(s, "activate", "count") /\ ses[s].c = c /\ Kind[c] # "discount"
UsesLeft(s) == LET c == ses[s].c IN
  /\ Busy(s, "activate") => count[c] < MaxUses[c]
  /\ Busy(s, "deactivate") => /\ ses[s].n = count[c]
                              /\ (ses[s].r = 1) <=> ses[s].flag
                              /\ ses[s].flag <=> <<c, ses[s].u>> \in uses
CodeInv(c) == c \notin loose =>
  /\ AloneOnCode(c)
  /\ count[c] <= MaxUses[c]
  /\ Cardinality(UsersOf(c)) = count[c] + IF \E s \in Session : Uncounted(s, c) THEN 1 ELSE 0
  /\ \A s \in Session : ses[s].c = c => UsesLeft(s)

\* What is checked first still has room for what is done last.
RoomLeft(s) == LET u == ses[s].u IN
  /\ At(s, "activate", "reserve") \/ Reserved(s) => Cardinality(CodesOf(u)) < DailyCap
  /\ Busy(s, "spin") => Cardinality(SpinsOf(u)) < SpinLimit
CapInv(u) == u \notin crowded =>
  /\ AloneAsUser(u)
  /\ Cardinality(CodesOf(u)) <= DailyCap /\ Cardinality(SpinsOf(u)) <= SpinLimit
  /\ \A s \in Session : ses[s].u = u => RoomLeft(s)

LimitInv ==
  /\ BookInv
  /\ \A c \in Code : CodeInv(c)
  /\ \A u \in User : CapInv(u)

-----------------------------------------------------------------------------
(* Codes. *)

LEMMA UsersAreFinite ==
  ASSUME Counted, NEW c \in Code
  PROVE  IsFiniteSet(UsersOf(c)) /\ Cardinality(UsersOf(c)) \in Nat
BY FS_CardinalityType DEF Counted

\* A code that s has nothing to do with.
LEMMA CodeFrame ==
  ASSUME LimitInv, NEW s \in Session, NEW c \in Code, Apart(s), ses[s].c # c, ses'[s].c # c,
         count'[c] = count[c], UsersOf(c)' = UsersOf(c), c \in loose => c \in loose',
         \A u : <<c, u>> \in uses' <=> <<c, u>> \in uses
  PROVE  CodeInv(c)'
<1>1. SUFFICES ASSUME c \notin loose' PROVE CodeInv(c)'
  BY DEF CodeInv
<1>2. c \notin loose /\ CodeInv(c)
  BY <1>1 DEF LimitInv
<1>3. \A t \in Session : /\ ses'[t].c = c <=> ses[t].c = c
                         /\ ses[t].c = c => ses'[t] = ses[t]
  BY DEF Apart
<1>4. AloneOnCode(c)' /\ count'[c] <= MaxUses[c]
  BY <1>2, <1>3 DEF CodeInv, AloneOnCode
<1>5. ASSUME NEW t \in Session
      PROVE  Uncounted(t, c)' <=> Uncounted(t, c)
  BY <1>3 DEF Uncounted, At
<1>6. Cardinality(UsersOf(c)') = count'[c] + IF \E t \in Session : Uncounted(t, c)' THEN 1 ELSE 0
  BY <1>2, <1>5 DEF CodeInv
<1>7. ASSUME NEW t \in Session, ses'[t].c = c
      PROVE  UsesLeft(t)'
  <2>1. ses'[t] = ses[t] /\ ses[t].c = c /\ UsesLeft(t)
    BY <1>2, <1>3, <1>7 DEF CodeInv
  <2> QED
    BY <2>1 DEF UsesLeft, Busy
<1> QED
  BY <1>4, <1>6, <1>7 DEF CodeInv

\* A code that s alone is at work on.
LEMMA CodeOwn ==
  ASSUME NEW s \in Session, NEW c \in Code, Apart(s),
         c \notin loose' => /\ \A t \in Session \ {s} : ses[t].c # c
                            /\ count'[c] <= MaxUses[c]
                            /\ Cardinality(UsersOf(c)') = count'[c] + IF Uncounted(s, c)' THEN 1 ELSE 0
                            /\ ses'[s].c = c => UsesLeft(s)'
  PROVE  CodeInv(c)'
<1>1. SUFFICES ASSUME c \notin loose' PROVE CodeInv(c)'
  BY DEF CodeInv
<1>2. \A t \in Session \ {s} : ses'[t].c # c
  BY <1>1 DEF Apart
<1>3. AloneOnCode(c)' /\ \A t \in Session : ses'[t].c = c => UsesLeft(t)'
  BY <1>1, <1>2 DEF AloneOnCode
<1>4. (\E t \in Session : Uncounted(t, c)') <=> Uncounted(s, c)'
  BY <1>2 DEF Uncounted
<1>5. Cardinality(UsersOf(c)') = count'[c] + IF \E t \in Session : Uncounted(t, c)' THEN 1 ELSE 0
  BY <1>1, <1>4
<1> QED
  BY <1>1, <1>3, <1>5 DEF CodeInv

\* What is known of a code that only s is at work on.
LEMMA CodeAlone ==
  ASSUME LimitInv, NEW s \in Session, NEW c \in Code, c \notin loose, ses[s].c = c
  PROVE  /\ \A t \in Session \ {s} : ses[t].c # c
         /\ count[c] \in Nat /\ MaxUses[c] \in Nat /\ count[c] <= MaxUses[c]
         /\ Cardinality(UsersOf(c)) = count[c] + IF Uncounted(s, c) THEN 1 ELSE 0
         /\ UsesLeft(s)
<1>1. CodeInv(c) /\ TypeOK
  BY DEF LimitInv, BookInv, IInv
<1>2. \A t \in Session \ {s} : ses[t].c # c
  BY <1>1 DEF CodeInv, AloneOnCode
<1>3. (\E t \in Session : Uncounted(t, c)) <=> Uncounted(s, c)
  BY <1>2 DEF Uncounted
<1>4. count[c] \in Nat /\ MaxUses[c] \in Nat
  BY <1>1, PromoAssumption DEF TypeOK, PromoTypeOK
<1> QED
  BY <1>1, <1>2, <1>3, <1>4 DEF CodeInv

\* A session that comes to work on c while nobody does.
LEMMA CodeNew ==
  ASSUME LimitInv, NEW s \in Session, NEW c \in Code, ~ Working(s), Watched(s, c), c \notin loose'
  PROVE  /\ c \notin loose /\ \A t \in Session : ses[t].c # c
         /\ count[c] \in Nat /\ count[c] <= MaxUses[c] /\ Cardinality(UsersOf(c)) = count[c]
<1>1. CodeInv(c) /\ TypeOK /\ \A t \in Session : ses[t].c = c => Working(t)
  BY Knows DEF LimitInv, BookInv, IInv, Shape, Working
<1>2. c \notin loose /\ \A t \in Session \ {s} : ses[t].c # c
  BY <1>1 DEF Watched, Others, Working
<1>3. \A t \in Session : ses[t].c # c
  BY <1>1, <1>2
<1>4. count[c] \in Nat
  BY <1>1 DEF TypeOK, PromoTypeOK
<1>5. ~ \E t \in Session : Uncounted(t, c)
  BY <1>3 DEF Uncounted
<1> QED
  BY <1>1, <1>2, <1>3, <1>4, <1>5 DEF CodeInv

LEMMA UseAdded ==
  ASSUME Counted, NEW c \in Code, NEW u \in User, <<c, u>> \notin uses, uses' = uses \cup {<<c, u>>}
  PROVE  /\ UsersOf(c)' = UsersOf(c) \cup {u} /\ CodesOf(u)' = CodesOf(u) \cup {c}
         /\ Cardinality(UsersOf(c)') = Cardinality(UsersOf(c)) + 1
         /\ Cardinality(CodesOf(u)') = Cardinality(CodesOf(u)) + 1
         /\ \A d \in Code \ {c} : UsersOf(d)' = UsersOf(d) /\ \A v : <<d, v>> \in uses' <=> <<d, v>> \in uses
         /\ \A v \in User \ {u} : CodesOf(v)' = CodesOf(v)
<1>1. /\ UsersOf(c)' = UsersOf(c) \cup {u} /\ u \notin UsersOf(c)
      /\ CodesOf(u)' = CodesOf(u) \cup {c} /\ c \notin CodesOf(u)
  BY DEF UsersOf, CodesOf
<1>2. IsFiniteSet(UsersOf(c)) /\ IsFiniteSet(CodesOf(u))
  BY DEF Counted
<1>3. Cardinality(UsersOf(c)') = Cardinality(UsersOf(c)) + 1
  BY <1>1, <1>2, FS_AddElement
<1>4. Cardinality(CodesOf(u)') = Cardinality(CodesOf(u)) + 1
  BY <1>1, <1>2, FS_AddElement
<1>5. \A d \in Code \ {c} : UsersOf(d)' = UsersOf(d) /\ \A v : <<d, v>> \in uses' <=> <<d, v>> \in uses
  BY DEF UsersOf
<1>6. \A v \in User \ {u} : CodesOf(v)' = CodesOf(v)
  BY DEF CodesOf
<1> QED
  BY <1>1, <1>3, <1>4, <1>5, <1>6

LEMMA UseRemoved ==
  ASSUME Counted, NEW c \in Code, NEW u \in User, <<c, u>> \in uses, uses' = uses \ {<<c, u>>}
  PROVE  /\ Cardinality(UsersOf(c)') = Cardinality(UsersOf(c)) - 1
         /\ Cardinality(CodesOf(u)') = Cardinality(CodesOf(u)) - 1
         /\ \A d \in Code \ {c} : UsersOf(d)' = UsersOf(d) /\ \A v : <<d, v>> \in uses' <=> <<d, v>> \in uses
         /\ \A v \in User \ {u} : CodesOf(v)' = CodesOf(v)
<1>1. /\ UsersOf(c)' = UsersOf(c) \ {u} /\ u \in UsersOf(c)
      /\ CodesOf(u)' = CodesOf(u) \ {c} /\ c \in CodesOf(u)
  BY DEF UsersOf, CodesOf
<1>2. IsFiniteSet(UsersOf(c)) /\ IsFiniteSet(CodesOf(u))
  BY DEF Counted
<1>3. Cardinality(UsersOf(c)') = Cardinality(UsersOf(c)) - 1
  BY <1>1, <1>2, FS_RemoveElement
<1>4. Cardinality(CodesOf(u)') = Cardinality(CodesOf(u)) - 1
  BY <1>1, <1>2, FS_RemoveElement
<1>5. \A d \in Code \ {c} : UsersOf(d)' = UsersOf(d) /\ \A v : <<d, v>> \in uses' <=> <<d, v>> \in uses
  BY DEF UsersOf
<1>6. \A v \in User \ {u} : CodesOf(v)' = CodesOf(v)
  BY DEF CodesOf
<1> QED
  BY <1>3, <1>4, <1>5, <1>6

\* A step of s that leaves the uses and their counts alone.
LEMMA CodeLeft ==
  ASSUME LimitInv, NEW s \in Session, Apart(s), ses[s].c \notin Code, ses'[s].c \notin Code,
         UNCHANGED <<uses, count, loose>>
  PROVE  \A c \in Code : CodeInv(c)'
BY CodeFrame DEF UsersOf

LEMMA PromoCode ==
  ASSUME LimitInv, NEW s \in Session, PromoNext(s), Apart(s)
  PROVE  \A c \in Code : CodeInv(c)'
<1>0. /\ TypeOK /\ Counted /\ Shape(s) /\ Unused(s) /\ ses[s] \in SesState
      /\ (Working(s) => ses[s].u \in User)
      /\ (ses[s].op \in {"activate", "deactivate"} => ses[s].c \in Code)
      /\ Idle.c \notin Code
  BY Knows, IdleType DEF LimitInv, BookInv, SessionInv, Idle
<1>1. ASSUME NEW u \in User, NEW c \in Code, Look(s, u, c)
      PROVE  \A d \in Code : CodeInv(d)'
  <2>1. /\ Starts(s, "activate", "check", u) /\ ses'[s].c = c /\ ~ Working(s) /\ ses[s].c \notin Code
        /\ Watched(s, c) /\ count[c] < MaxUses[c] /\ UNCHANGED <<uses, count>>
    <3>1. Starts(s, "activate", "check", u) /\ ses'[s].c = c
      BY <1>0, <1>1, LookFields
    <3>2. Watched(s, c) /\ count[c] < MaxUses[c] /\ UNCHANGED <<uses, count>>
      BY <1>1 DEF Look, Valid
    <3> QED
      BY <1>0, <3>1, <3>2 DEF Starts, Working, Shape
  <2>2. CodeInv(c)'
    <3>1. SUFFICES ASSUME c \notin loose'
                   PROVE  /\ \A t \in Session \ {s} : ses[t].c # c
                          /\ count'[c] <= MaxUses[c]
                          /\ Cardinality(UsersOf(c)') = count'[c] + IF Uncounted(s, c)' THEN 1 ELSE 0
                          /\ UsesLeft(s)'
      BY CodeOwn
    <3>2. /\ \A t \in Session : ses[t].c # c
          /\ count[c] \in Nat /\ count[c] <= MaxUses[c] /\ Cardinality(UsersOf(c)) = count[c]
      BY <2>1, <3>1, CodeNew
    <3>3. UsersOf(c)' = UsersOf(c) /\ ~ Uncounted(s, c)' /\ UsesLeft(s)'
      BY <2>1 DEF UsersOf, Uncounted, UsesLeft, Starts, At, Busy
    <3> QED
      BY <2>1, <3>2, <3>3
  <2>3. ASSUME NEW d \in Code, d # c
        PROVE  CodeInv(d)'
    BY <2>1, <2>3, CodeFrame DEF UsersOf, Watched
  <2> QED
    BY <2>2, <2>3
<1>2. ASSUME NEW u \in User, LookDiscount(s, u)
      PROVE  \A d \in Code : CodeInv(d)'
  <2>1. PICK c \in Code : c = discount[u]
    BY <1>0, <1>2, LookDiscountFields
  <2>2. /\ Starts(s, "deactivate", "write", u) /\ ses'[s].c = c /\ ses[s].c \notin Code /\ ~ Working(s)
        /\ ses'[s].n = count[c] /\ ses'[s].r = (IF <<c, u>> \in uses THEN 1 ELSE 0)
        /\ ses'[s].flag = (<<c, u>> \in uses)
        /\ Watched(s, c) /\ UNCHANGED <<uses, count>>
    BY <1>0, <1>2, <2>1, LookDiscountFields DEF LookDiscount, Starts, Working, Shape
  <2>3. CodeInv(c)'
    <3>1. SUFFICES ASSUME c \notin loose'
                   PROVE  /\ \A t \in Session \ {s} : ses[t].c # c
                          /\ count'[c] <= MaxUses[c]
                          /\ Cardinality(UsersOf(c)') = count'[c] + IF Uncounted(s, c)' THEN 1 ELSE 0
                          /\ UsesLeft(s)'
      BY CodeOwn
    <3>2. /\ \A t \in Session : ses[t].c # c
          /\ count[c] \in Nat /\ count[c] <= MaxUses[c] /\ Cardinality(UsersOf(c)) = count[c]
      BY <2>2, <3>1, CodeNew
    <3>3. ses'[s].op = "deactivate" /\ ses'[s].u = u /\ UsersOf(c)' = UsersOf(c)
      BY <2>2 DEF UsersOf, Starts
    <3>4. ((ses'[s].r = 1) <=> ses'[s].flag) /\ (ses'[s].flag <=> <<c, u>> \in uses')
      <4>1. uses' = uses /\ ses'[s].flag = (<<c, u>> \in uses)
        BY <2>2
      <4>2. CASE <<c, u>> \in uses
        <5>1. ses'[s].r = 1
          BY <2>2, <4>2
        <5> QED
          BY <4>1, <4>2, <5>1
      <4>3. CASE <<c, u>> \notin uses
        <5>1. ses'[s].r # 1
          BY <2>2, <4>3
        <5>2. ~ ses'[s].flag
          BY <4>1, <4>3
        <5> QED
          BY <4>1, <4>3, <5>1, <5>2
      <4> QED
        BY <4>2, <4>3
    <3>5. ~ Uncounted(s, c)' /\ UsesLeft(s)'
      BY <2>2, <3>3, <3>4 DEF Uncounted, UsesLeft, At, Busy
    <3> QED
      BY <2>2, <3>2, <3>3, <3>5
  <2>4. ASSUME NEW d \in Code, d # c
        PROVE  CodeInv(d)'
    BY <2>2, <2>4, CodeFrame DEF UsersOf, Watched
  <2> QED
    BY <2>3, <2>4
<1>3. CASE Check(s) \/ Reserve(s) \/ Inapplicable(s)
  <2>1. /\ Busy(s, "activate") /\ ses[s].pc # "count" /\ UNCHANGED <<uses, count, loose>>
        /\ End(s) \/ \E pc \in {"reserve", "apply"} : Goto(s, pc)
    BY <1>3 DEF Check, Reserve, Inapplicable, Continue, At, Busy, promoVars
  <2>2. PICK c \in Code : c = ses[s].c
    BY <1>0, <2>1 DEF Busy
  <2>3. \/ ses'[s] = Idle
        \/ Busy(s, "activate")' /\ ses'[s].pc # "count" /\ ses'[s].c = c
    <3>1. CASE End(s)
      BY <1>0, <3>1, EndEffect DEF Ends
    <3>2. ASSUME NEW pc \in {"reserve", "apply"}, Goto(s, pc)
          PROVE  Busy(s, "activate")' /\ ses'[s].pc # "count" /\ ses'[s].c = c
      BY <1>0, <2>1, <2>2, <3>2, GotoEffect DEF Goes, Busy, PC
    <3> QED
      BY <2>1, <3>1, <3>2
  <2>4. CodeInv(c)'
    <3>1. SUFFICES ASSUME c \notin loose'
                   PROVE  /\ \A t \in Session \ {s} : ses[t].c # c
                          /\ count'[c] <= MaxUses[c]
                          /\ Cardinality(UsersOf(c)') = count'[c] + IF Uncounted(s, c)' THEN 1 ELSE 0
                          /\ ses'[s].c = c => UsesLeft(s)'
      BY CodeOwn
    <3>2. /\ \A t \in Session \ {s} : ses[t].c # c
          /\ count[c] <= MaxUses[c]
          /\ Cardinality(UsersOf(c)) = count[c] + IF Uncounted(s, c) THEN 1 ELSE 0
          /\ UsesLeft(s)
      BY <2>1, <2>2, <3>1, CodeAlone
    <3>3. /\ UsersOf(c)' = UsersOf(c) /\ ~ Uncounted(s, c) /\ ~ Uncounted(s, c)'
          /\ ses'[s].c = c => UsesLeft(s)'
      BY <1>0, <2>1, <2>2, <2>3, <3>2 DEF UsersOf, Uncounted, UsesLeft, At, Busy, Idle
    <3> QED
      BY <2>1, <3>2, <3>3
  <2>5. ASSUME NEW d \in Code, d # c
        PROVE  CodeInv(d)'
    BY <1>0, <2>1, <2>2, <2>3, <2>5, CodeFrame DEF UsersOf
  <2> QED
    BY <2>4, <2>5
<1>4. CASE ApplyBalance(s) \/ ApplyDays(s) \/ ApplyDiscount(s)
  <2>1. /\ At(s, "activate", "apply") /\ Goto(s, "count") /\ UNCHANGED <<count, loose>>
        /\ IF Kind[ses[s].c] = "discount" THEN uses' = uses ELSE uses' = uses \cup {<<ses[s].c, ses[s].u>>}
    BY <1>4 DEF ApplyBalance, ApplyDays, ApplyDiscount, Continue, Use, promoVars
  <2>2. PICK c \in Code, u \in User : c = ses[s].c /\ u = ses[s].u
    BY <1>0, <2>1 DEF At, Working
  <2>3. At(s, "activate", "count")' /\ ses'[s].c = c /\ ses'[s].u = u
    BY <1>0, <2>1, <2>2, GotoEffect DEF Goes, At, PC
  <2>4. <<c, u>> \notin uses
    BY <1>0, <2>1, <2>2 DEF Unused, Reserved
  <2>5. CodeInv(c)'
    <3>1. SUFFICES ASSUME c \notin loose'
                   PROVE  /\ \A t \in Session \ {s} : ses[t].c # c
                          /\ count'[c] <= MaxUses[c]
                          /\ Cardinality(UsersOf(c)') = count'[c] + IF Uncounted(s, c)' THEN 1 ELSE 0
                          /\ UsesLeft(s)'
      BY CodeOwn
    <3>2. /\ \A t \in Session \ {s} : ses[t].c # c
          /\ count[c] \in Nat /\ count[c] <= MaxUses[c]
          /\ Cardinality(UsersOf(c)) = count[c] + IF Uncounted(s, c) THEN 1 ELSE 0
          /\ UsesLeft(s)
      BY <2>1, <2>2, <3>1, CodeAlone
    <3>3. ~ Uncounted(s, c) /\ (Uncounted(s, c)' <=> Kind[c] # "discount") /\ UsesLeft(s)'
      BY <2>1, <2>2, <2>3, <3>2 DEF Uncounted, UsesLeft, At, Busy
    <3>4. CASE Kind[c] = "discount"
      <4>1. UsersOf(c)' = UsersOf(c)
        BY <2>1, <2>2, <3>4 DEF UsersOf
      <4> QED
        BY <2>1, <3>2, <3>3, <3>4, <4>1
    <3>5. CASE Kind[c] # "discount"
      <4>1. Cardinality(UsersOf(c)') = Cardinality(UsersOf(c)) + 1
        BY <1>0, <2>1, <2>2, <2>4, <3>5, UseAdded
      <4> QED
        BY <2>1, <3>2, <3>3, <3>5, <4>1
    <3> QED
      BY <3>4, <3>5
  <2>6. ASSUME NEW d \in Code, d # c
        PROVE  CodeInv(d)'
    <3>1. UsersOf(d)' = UsersOf(d) /\ \A v : <<d, v>> \in uses' <=> <<d, v>> \in uses
      BY <2>1, <2>2, <2>6 DEF UsersOf
    <3> QED
      BY <2>1, <2>2, <2>3, <2>6, <3>1, CodeFrame
  <2> QED
    BY <2>5, <2>6
<1>5. CASE Count(s)
  <2>1. /\ At(s, "activate", "count") /\ ses'[s] = Idle /\ UNCHANGED loose
        /\ count' = [count EXCEPT ![ses[s].c] = @ + 1]
        /\ IF Kind[ses[s].c] = "discount" THEN uses' = uses \cup {<<ses[s].c, ses[s].u>>} ELSE uses' = uses
    BY <1>0, <1>5, EndEffect DEF Count, Use, Ends
  <2>2. PICK c \in Code, u \in User : c = ses[s].c /\ u = ses[s].u
    BY <1>0, <2>1 DEF At, Working
  <2>3. Kind[c] = "discount" => <<c, u>> \notin uses
    BY <1>0, <2>1, <2>2 DEF Unused, Reserved
  <2>4. count'[c] = count[c] + 1 /\ \A d \in Code \ {c} : count'[d] = count[d]
    BY <1>0, <2>1, <2>2 DEF TypeOK, PromoTypeOK
  <2>5. CodeInv(c)'
    <3>1. SUFFICES ASSUME c \notin loose'
                   PROVE  /\ \A t \in Session \ {s} : ses[t].c # c
                          /\ count'[c] <= MaxUses[c]
                          /\ Cardinality(UsersOf(c)') = count'[c] + IF Uncounted(s, c)' THEN 1 ELSE 0
      BY <1>0, <2>1, CodeOwn
    <3>2. /\ \A t \in Session \ {s} : ses[t].c # c
          /\ count[c] \in Nat /\ MaxUses[c] \in Nat
          /\ Cardinality(UsersOf(c)) = count[c] + IF Uncounted(s, c) THEN 1 ELSE 0
          /\ UsesLeft(s)
      BY <2>1, <2>2, <3>1, CodeAlone
    <3>3. /\ (Uncounted(s, c) <=> Kind[c] # "discount") /\ ~ Uncounted(s, c)' /\ count[c] < MaxUses[c]
      BY <1>0, <2>1, <2>2, <3>2 DEF Uncounted, UsesLeft, At, Busy
    <3>4. CASE Kind[c] = "discount"
      <4>1. Cardinality(UsersOf(c)') = Cardinality(UsersOf(c)) + 1
        BY <1>0, <2>1, <2>2, <2>3, <3>4, UseAdded
      <4> QED
        BY <2>4, <3>2, <3>3, <3>4, <4>1
    <3>5. CASE Kind[c] # "discount"
      <4>1. UsersOf(c)' = UsersOf(c)
        BY <2>1, <2>2, <3>5 DEF UsersOf
      <4> QED
        BY <2>4, <3>2, <3>3, <3>5, <4>1
    <3> QED
      BY <3>4, <3>5
  <2>6. ASSUME NEW d \in Code, d # c
        PROVE  CodeInv(d)'
    <3>1. UsersOf(d)' = UsersOf(d) /\ \A v : <<d, v>> \in uses' <=> <<d, v>> \in uses
      BY <2>1, <2>2, <2>6 DEF UsersOf
    <3> QED
      BY <1>0, <2>1, <2>2, <2>4, <2>6, <3>1, CodeFrame
  <2> QED
    BY <2>5, <2>6
<1>6. CASE GiveBack(s)
  <2>1. /\ At(s, "deactivate", "write") /\ ses'[s] = Idle /\ UNCHANGED loose
        /\ count' = [count EXCEPT ![ses[s].c] = Uncount(s, ses[s].c)]
        /\ uses' = IF ses[s].flag THEN uses \ {<<ses[s].c, ses[s].u>>} ELSE uses
    BY <1>0, <1>6, GiveBackEffect DEF GiveBack, Ends
  <2>2. PICK c \in Code, u \in User : c = ses[s].c /\ u = ses[s].u
    BY <1>0, <2>1 DEF At, Working
  <2>4. count'[c] = Uncount(s, c) /\ \A d \in Code \ {c} : count'[d] = count[d]
    BY <1>0, <2>1, <2>2 DEF TypeOK, PromoTypeOK
  <2>5. CodeInv(c)'
    <3>1. SUFFICES ASSUME c \notin loose'
                   PROVE  /\ \A t \in Session \ {s} : ses[t].c # c
                          /\ count'[c] <= MaxUses[c]
                          /\ Cardinality(UsersOf(c)') = count'[c] + IF Uncounted(s, c)' THEN 1 ELSE 0
      BY <1>0, <2>1, CodeOwn
    <3>2. /\ \A t \in Session \ {s} : ses[t].c # c
          /\ count[c] \in Nat /\ MaxUses[c] \in Nat /\ count[c] <= MaxUses[c]
          /\ Cardinality(UsersOf(c)) = count[c] + IF Uncounted(s, c) THEN 1 ELSE 0
          /\ UsesLeft(s)
      BY <2>1, <2>2, <3>1, CodeAlone
    <3>3. /\ ~ Uncounted(s, c) /\ ~ Uncounted(s, c)' /\ Cardinality(UsersOf(c)) = count[c]
          /\ ses[s].n = count[c] /\ ((ses[s].r = 1) <=> ses[s].flag) /\ (ses[s].flag <=> <<c, u>> \in uses)
      BY <1>0, <2>1, <2>2, <3>2 DEF Uncounted, UsesLeft, At, Busy
    <3>4. CASE ses[s].flag
      <4>1. Cardinality(UsersOf(c)') = Cardinality(UsersOf(c)) - 1
        BY <1>0, <2>1, <2>2, <3>3, <3>4, UseRemoved
      <4>2. count[c] > 0
        <5>1. u \in UsersOf(c)
          BY <3>3, <3>4 DEF UsersOf
        <5>2. IsFiniteSet(UsersOf(c)) /\ UsersOf(c) # {}
          BY <1>0, <5>1 DEF Counted
        <5>3. Cardinality(UsersOf(c)) # 0
          BY <5>2, FS_EmptySet
        <5> QED
          BY <3>2, <3>3, <5>3
      <4>3. count'[c] = count[c] - 1
        BY <2>4, <3>3, <3>4, <4>2 DEF Uncount
      <4> QED
        BY <3>2, <3>3, <4>1, <4>3
    <3>5. CASE ~ ses[s].flag
      <4>1. UsersOf(c)' = UsersOf(c) /\ count'[c] = count[c]
        BY <2>1, <2>4, <3>3, <3>5 DEF UsersOf, Uncount
      <4> QED
        BY <3>2, <3>3, <4>1
    <3> QED
      BY <3>4, <3>5
  <2>6. ASSUME NEW d \in Code, d # c
        PROVE  CodeInv(d)'
    <3>1. UsersOf(d)' = UsersOf(d) /\ \A v : <<d, v>> \in uses' <=> <<d, v>> \in uses
      BY <2>1, <2>2, <2>6 DEF UsersOf
    <3> QED
      BY <1>0, <2>1, <2>2, <2>4, <2>6, <3>1, CodeFrame
  <2> QED
    BY <2>5, <2>6
<1> QED
  BY <1>1, <1>2, <1>3, <1>4, <1>5, <1>6 DEF PromoNext

\* A session that starts on u, and one that goes on or ends.
Enters(s, op, pc, u) ==
  /\ Starts(s, op, pc, u)
  /\ crowded' = IF \E t \in Others(s) : ses[t].u = u THEN crowded \cup {u} ELSE crowded
Carries(s) ==
  /\ Apart(s) /\ UNCHANGED crowded
  /\ ses'[s] = Idle \/ (ses'[s].op = ses[s].op /\ ses'[s].u = ses[s].u)

\* The wheel and the withdrawals have nothing to do with codes.
LEMMA WheelMoves ==
  ASSUME BookInv, NEW s \in Session, WheelNext(s)
  PROVE  \/ \E u \in User : Enters(s, "spin", "pay", u) /\ SpinsLeft(u) /\ UNCHANGED spins
         \/ Busy(s, "spin") /\ Carries(s) /\ UNCHANGED spins
         \/ Busy(s, "spin") /\ RecordSpin(s)
<1>0. TypeOK /\ (Working(s) => ses[s].u \in User)
  BY Knows DEF BookInv
<1>1. ASSUME NEW u \in Player, NEW pay \in {"balance", "days"}, Available(s, u, pay)
      PROVE  u \in User /\ Enters(s, "spin", "pay", u) /\ SpinsLeft(u) /\ UNCHANGED spins
  BY <1>0, <1>1, AvailableFields DEF Available, Enters, wheelVars
<1>2. ASSUME PayStars(s)
      PROVE  Busy(s, "spin") /\ Carries(s) /\ UNCHANGED spins
  <2>1. Busy(s, "spin") /\ ses[s].u \in User /\ UNCHANGED <<spins, crowded>>
    BY <1>0, <1>2 DEF PayStars, End, At, Busy, Working, notes, wheelVars
  <2>2. CASE End(s)
    BY <1>0, <2>1, <2>2, EndEffect DEF Ends, Carries
  <2>3. CASE ~ End(s)
    BY <1>0, <1>2, <2>1, <2>3, PayStarsFields DEF Carries
  <2> QED
    BY <2>2, <2>3
<1>3. ASSUME PayDays(s) \/ WinDays(s)
      PROVE  Busy(s, "spin") /\ Carries(s) /\ UNCHANGED spins
  <2>1. Busy(s, "spin") /\ ses[s].u \in User /\ UNCHANGED <<spins, crowded>>
    BY <1>0, <1>3 DEF PayDays, WinDays, At, Busy, Working, notes, wheelVars
  <2>2. PICK d \in Nat : Synced(s, d) \/ NotSynced(s, d)
    BY <1>0, <1>3, DaysMoved
  <2> QED
    BY <1>0, <2>1, <2>2, SyncedFields, NotSyncedFields DEF Carries
<1>4. ASSUME WinCash(s) \/ WinOther(s)
      PROVE  Busy(s, "spin") /\ Carries(s) /\ UNCHANGED spins
  <2>1. Busy(s, "spin") /\ ses[s].u \in User /\ UNCHANGED <<spins, crowded>>
    BY <1>0, <1>4 DEF WinCash, WinOther, At, Busy, Working, notes, wheelVars
  <2> QED
    BY <1>0, <1>4, <2>1, WinCashFields, WinOtherFields DEF Carries
<1>5. RecordSpin(s) => Busy(s, "spin")
  BY DEF RecordSpin, At, Busy
<1> QED
  BY <1>1, <1>2, <1>3, <1>4, <1>5 DEF WheelNext

LEMMA WithdrawalMoves ==
  ASSUME BookInv, NEW s \in Session, WithdrawalNext(s)
  PROVE  \/ \E u \in User, op \in {"request", "review"} : \E pc : Enters(s, op, pc, u)
         \/ ses[s].op \in {"request", "review"} /\ Carries(s)
<1>0. TypeOK /\ (Working(s) => ses[s].u \in User) /\ ses[s] \in SesState
  BY Knows DEF BookInv
<1>1. ASSUME NEW u \in Partner, LoadUser(s, u)
      PROVE  u \in User /\ Enters(s, "request", "hold", u)
  BY <1>0, <1>1, LoadUserFields DEF Enters
<1>2. ASSUME NEW i \in DOMAIN requests, OpenRequest(s, i)
      PROVE  \E u \in User : \E pc : Enters(s, "review", pc, u)
  BY <1>0, <1>2, OpenFields DEF Enters
<1>3. ASSUME End(s), Busy(s, "request") \/ Busy(s, "review")
      PROVE  ses[s].op \in {"request", "review"} /\ Carries(s)
  BY <1>0, <1>3, EndEffect DEF Ends, Busy, notes, Carries
<1>4. ASSUME HoldUser(s)
      PROVE  ses[s].op \in {"request", "review"} /\ Carries(s)
  BY <1>0, <1>4, GotoFields DEF HoldUser, Continue, Goes, At, PC, notes, Carries
<1>5. ASSUME AskAmount(s), ~ End(s)
      PROVE  ses[s].op \in {"request", "review"} /\ Carries(s)
  <2>1. /\ At(s, "request", "ask") /\ UNCHANGED notes
        /\ \E a \in MinAmount..AvailableAmount(s) : ses' = [ses EXCEPT ![s].pc = "file", ![s].n = a]
    BY <1>5 DEF AskAmount
  <2>2. PICK a \in MinAmount..AvailableAmount(s) : ses' = [ses EXCEPT ![s].pc = "file", ![s].n = a]
    BY <2>1
  <2>3. a \in Nat
    BY <2>2, WithdrawalAssumption
  <2>4. Apart(s) /\ ses'[s] = [ses[s] EXCEPT !.pc = "file", !.n = a]
    BY <1>0, <2>2, <2>3, AskEffect
  <2>5. ses'[s].op = ses[s].op /\ ses'[s].u = ses[s].u
    BY <1>0, <2>4 DEF SesState
  <2> QED
    BY <2>1, <2>4, <2>5 DEF At, notes, Carries
<1>6. ASSUME \/ FileRequest(s) \/ Approve(s) \/ Reject(s) \/ Complete(s) \/ Decline(s)
             \/ (AskAmount(s) /\ End(s))
      PROVE  End(s) /\ (Busy(s, "request") \/ Busy(s, "review"))
  BY <1>6 DEF FileRequest, Approve, Reject, Complete, Decline, AskAmount, Decide, At, Busy
<1> QED
  BY <1>1, <1>2, <1>3, <1>4, <1>5, <1>6 DEF WithdrawalNext

LEMMA CodeElsewhere ==
  ASSUME LimitInv, NEW s \in Session, WheelNext(s) \/ WithdrawalNext(s), UNCHANGED promoVars,
         Apart(s), Shape(s)'
  PROVE  \A c \in Code : CodeInv(c)'
<1>1. TypeOK /\ Shape(s) /\ BookInv /\ Idle.op = "idle"
  BY Knows DEF LimitInv, BookInv, Idle
<1>2. ses[s].op \notin {"activate", "deactivate"} /\ ses'[s].op \notin {"activate", "deactivate"}
  <2>1. CASE WheelNext(s) /\ ~ RecordSpin(s)
    BY <1>1, <2>1, WheelMoves DEF Enters, Starts, Carries, Working, Busy
  <2>2. CASE RecordSpin(s)
    BY <1>1, <2>2, EndEffect DEF RecordSpin, Ends, At
  <2>3. CASE WithdrawalNext(s)
    BY <1>1, <2>3, WithdrawalMoves DEF Enters, Starts, Carries, Working
  <2> QED
    BY <2>1, <2>2, <2>3
<1>3. UNCHANGED <<uses, count, loose>>
  BY DEF promoVars
<1> QED
  BY <1>1, <1>2, <1>3, CodeLeft DEF Shape

LEMMA BreakOffCode ==
  ASSUME LimitInv, NEW s \in Session, BreakOff(s), Ends(s)
  PROVE  \A c \in Code : CodeInv(c)'
<1>0. Apart(s) /\ ses'[s] = Idle /\ Idle.c \notin Code /\ Idle.op = "idle"
  BY IdleType DEF Ends, Idle
<1>1. /\ UNCHANGED <<uses, count>> /\ loose \subseteq loose'
      /\ loose' = IF At(s, "activate", "count") THEN loose \cup {ses[s].c} ELSE loose
  BY DEF BreakOff
<1>2. ASSUME NEW c \in Code, c = ses[s].c
      PROVE  CodeInv(c)'
  <2>1. SUFFICES ASSUME c \notin loose'
                 PROVE  /\ \A t \in Session \ {s} : ses[t].c # c
                        /\ count'[c] <= MaxUses[c]
                        /\ Cardinality(UsersOf(c)') = count'[c] + IF Uncounted(s, c)' THEN 1 ELSE 0
    BY <1>0, CodeOwn
  <2>2. /\ \A t \in Session \ {s} : ses[t].c # c
        /\ count[c] <= MaxUses[c]
        /\ Cardinality(UsersOf(c)) = count[c] + IF Uncounted(s, c) THEN 1 ELSE 0
    BY <1>1, <1>2, <2>1, CodeAlone
  <2>3. ~ Uncounted(s, c) /\ ~ Uncounted(s, c)' /\ UsersOf(c)' = UsersOf(c)
    BY <1>0, <1>1, <1>2, <2>1 DEF Uncounted, UsersOf, At
  <2> QED
    BY <1>1, <2>2, <2>3
<1>3. ASSUME NEW c \in Code, c # ses[s].c
      PROVE  CodeInv(c)'
  BY <1>0, <1>1, <1>3, CodeFrame DEF UsersOf
<1> QED
  BY <1>2, <1>3

-----------------------------------------------------------------------------
(* Users. *)

LEMMA CapNumbers ==
  ASSUME LimitInv, NEW u \in User
  PROVE  /\ Cardinality(CodesOf(u)) \in Nat /\ Cardinality(SpinsOf(u)) \in Nat
         /\ DailyCap \in Nat /\ SpinLimit \in Nat /\ CapInv(u)
<1>1. WheelTypeOK /\ Counted /\ CapInv(u)
  BY DEF LimitInv, BookInv, IInv, TypeOK
<1>2. Cardinality(CodesOf(u)) \in Nat
  BY <1>1, FS_CardinalityType DEF Counted
<1> QED
  BY <1>1, <1>2, SpinsAreFinite, PromoAssumption, WheelAssumption

\* A user s has nothing to do with.
LEMMA CapFrame ==
  ASSUME LimitInv, NEW s \in Session, NEW u \in User, Apart(s), ses[s].u # u, ses'[s].u # u,
         CodesOf(u)' = CodesOf(u), SpinsOf(u)' = SpinsOf(u), u \in crowded => u \in crowded'
  PROVE  CapInv(u)'
<1>1. SUFFICES ASSUME u \notin crowded' PROVE CapInv(u)'
  BY DEF CapInv
<1>2. u \notin crowded /\ CapInv(u)
  BY <1>1 DEF LimitInv
<1>3. \A t \in Session : /\ ses'[t].u = u <=> ses[t].u = u
                         /\ ses[t].u = u => /\ ses'[t].op = ses[t].op /\ ses'[t].pc = ses[t].pc
                                            /\ ses'[t].u = ses[t].u /\ ses'[t].c = ses[t].c
  BY DEF Apart
<1>4. AloneAsUser(u)'
  BY <1>2, <1>3 DEF CapInv, AloneAsUser
<1>5. Cardinality(CodesOf(u)') <= DailyCap /\ Cardinality(SpinsOf(u)') <= SpinLimit
  BY <1>2 DEF CapInv
<1>6. ASSUME NEW t \in Session, ses'[t].u = u
      PROVE  RoomLeft(t)'
  <2>1. /\ ses'[t].op = ses[t].op /\ ses'[t].pc = ses[t].pc
        /\ ses'[t].u = u /\ ses[t].u = u /\ ses'[t].c = ses[t].c /\ RoomLeft(t)
    BY <1>2, <1>3, <1>6 DEF CapInv
  <2>2. (Reserved(t)' <=> Reserved(t)) /\ (Busy(t, "spin")' <=> Busy(t, "spin"))
        /\ (At(t, "activate", "reserve")' <=> At(t, "activate", "reserve"))
    BY <2>1 DEF Reserved, At, Busy
  <2> QED
    BY <2>1, <2>2 DEF RoomLeft
<1> QED
  BY <1>4, <1>5, <1>6 DEF CapInv

\* The user of a session that goes on or ends.
LEMMA CapStep ==
  ASSUME LimitInv, NEW s \in Session, NEW u \in User, u = ses[s].u, Apart(s),
         ses'[s].u = u \/ ses'[s].u \notin User, crowded' = crowded,
         \A v \in User \ {u} : CodesOf(v)' = CodesOf(v) /\ SpinsOf(v)' = SpinsOf(v),
         RoomLeft(s) /\ Cardinality(CodesOf(u)) <= DailyCap /\ Cardinality(SpinsOf(u)) <= SpinLimit
           => /\ Cardinality(CodesOf(u)') <= DailyCap /\ Cardinality(SpinsOf(u)') <= SpinLimit
              /\ ses'[s].u = u => RoomLeft(s)'
  PROVE  \A v \in User : CapInv(v)'
<1>1. ASSUME NEW v \in User, v # u
      PROVE  CapInv(v)'
  BY <1>1, CapFrame
<1>2. CapInv(u)'
  <2>1. SUFFICES ASSUME u \notin crowded PROVE CapInv(u)'
    BY DEF CapInv
  <2>2. CapInv(u) /\ AloneAsUser(u) /\ RoomLeft(s)
        /\ Cardinality(CodesOf(u)) <= DailyCap /\ Cardinality(SpinsOf(u)) <= SpinLimit
    BY <2>1 DEF LimitInv, CapInv
  <2>3. \A t \in Session \ {s} : ses'[t].u # u
    BY <2>2 DEF AloneAsUser, Apart
  <2> QED
    BY <2>2, <2>3 DEF CapInv, AloneAsUser
<1> QED
  BY <1>1, <1>2

\* One that changes neither the uses nor the spins.
LEMMA CapStays ==
  ASSUME LimitInv, NEW s \in Session, ses[s].u \in User, Apart(s),
         \/ ses'[s] = Idle
         \/ ses'[s].u = ses[s].u /\ (RoomLeft(s) => RoomLeft(s)'),
         UNCHANGED <<uses, spins, crowded>>
  PROVE  \A v \in User : CapInv(v)'
<1>1. PICK u \in User : u = ses[s].u
  OBVIOUS
<1>2. \A v \in User : CodesOf(v)' = CodesOf(v) /\ SpinsOf(v)' = SpinsOf(v)
  BY DEF CodesOf, SpinsOf
<1>3. ses'[s].u = u \/ ses'[s].u \notin User
  BY <1>1, IdleType DEF Idle
<1>4. ses'[s].u = u /\ RoomLeft(s) => RoomLeft(s)'
  BY <1>1, IdleType DEF Idle
<1> QED
  BY <1>1, <1>2, <1>3, <1>4, CapStep

\* A session that starts.
LEMMA CapStarts ==
  ASSUME LimitInv, NEW s \in Session, NEW u \in User, NEW op, NEW pc, Enters(s, op, pc, u),
         op = "activate" => pc = "check", op = "spin" => SpinsLeft(u),
         UNCHANGED <<uses, spins>>
  PROVE  \A v \in User : CapInv(v)'
<1>0. Apart(s) /\ ~ Working(s) /\ ses'[s].u = u /\ ses'[s].op = op /\ ses'[s].pc = pc
      /\ crowded' = IF \E t \in Others(s) : ses[t].u = u THEN crowded \cup {u} ELSE crowded
  BY DEF Enters, Starts
<1>1. \A t \in Session : Working(t) <=> ses[t].u \in User
  BY Knows DEF LimitInv, BookInv, IInv, Shape
<1>2. \A v \in User : CodesOf(v)' = CodesOf(v) /\ SpinsOf(v)' = SpinsOf(v)
  BY DEF CodesOf, SpinsOf
<1>3. ASSUME NEW v \in User, v # u
      PROVE  CapInv(v)'
  BY <1>0, <1>1, <1>2, <1>3, CapFrame
<1>4. CapInv(u)'
  <2>1. SUFFICES ASSUME u \notin crowded' PROVE CapInv(u)'
    BY DEF CapInv
  <2>2. u \notin crowded /\ CapInv(u) /\ \A t \in Session : ses[t].u # u
    BY <1>0, <1>1, <2>1 DEF Others, Working, LimitInv
  <2>3. \A t \in Session \ {s} : ses'[t].u # u
    BY <1>0, <2>2 DEF Apart
  <2>4. Cardinality(CodesOf(u)') <= DailyCap /\ Cardinality(SpinsOf(u)') <= SpinLimit
    BY <1>2, <2>2 DEF CapInv
  <2>5. RoomLeft(s)'
    <3>1. ~ At(s, "activate", "reserve")' /\ ~ Reserved(s)'
      BY <1>0 DEF At, Reserved
    <3>2. Busy(s, "spin")' => Cardinality(SpinsOf(u)') < SpinLimit
      BY <1>0, <1>2 DEF Busy, SpinsLeft
    <3> QED
      BY <1>0, <3>1, <3>2 DEF RoomLeft
  <2> QED
    BY <2>3, <2>4, <2>5 DEF CapInv, AloneAsUser
<1> QED
  BY <1>3, <1>4

LEMMA PromoCap ==
  ASSUME LimitInv, NEW s \in Session, PromoNext(s), UNCHANGED wheelVars, Apart(s)
  PROVE  \A v \in User : CapInv(v)'
<1>0. /\ TypeOK /\ Counted /\ Shape(s) /\ Unused(s) /\ ses[s] \in SesState
      /\ (Working(s) => ses[s].u \in User)
      /\ (ses[s].op \in {"activate", "deactivate"} => ses[s].c \in Code)
      /\ Idle.u \notin User /\ Idle.op = "idle" /\ spins' = spins
  BY Knows, IdleType DEF LimitInv, BookInv, SessionInv, Idle, wheelVars
<1>1. ASSUME NEW u \in User, NEW c \in Code, Look(s, u, c)
      PROVE  \A v \in User : CapInv(v)'
  <2>1. Enters(s, "activate", "check", u) /\ uses' = uses
    BY <1>0, <1>1, LookFields DEF Look, Enters
  <2> QED
    BY <1>0, <2>1, CapStarts
<1>2. ASSUME NEW u \in User, LookDiscount(s, u)
      PROVE  \A v \in User : CapInv(v)'
  <2>1. Enters(s, "deactivate", "write", u) /\ uses' = uses
    BY <1>0, <1>2, LookDiscountFields DEF LookDiscount, Enters
  <2> QED
    BY <1>0, <2>1, CapStarts
<1>3. ASSUME Busy(s, "activate"), End(s), UNCHANGED uses
      PROVE  \A v \in User : CapInv(v)'
  BY <1>0, <1>3, EndEffect, CapStays DEF Ends, Busy, Working, notes
<1>4. CASE Check(s) /\ ~ End(s)
  <2>1. PICK u \in User : u = ses[s].u
    BY <1>0, <1>4 DEF Check, At, Working
  <2>2. /\ At(s, "activate", "check") /\ Goto(s, "reserve") /\ UNCHANGED <<uses, crowded>>
        /\ ~ (Cardinality(CodesOf(u)) >= DailyCap)
    BY <1>4, <2>1 DEF Check, Continue, notes, promoVars
  <2>3. At(s, "activate", "reserve")' /\ ses'[s].u = u
    BY <1>0, <2>1, <2>2, GotoEffect DEF Goes, At, PC
  <2>4. RoomLeft(s)'
    <3>1. Cardinality(CodesOf(u)) < DailyCap
      BY <2>2, CapNumbers
    <3>2. CodesOf(u)' = CodesOf(u)
      BY <2>2 DEF CodesOf
    <3> QED
      BY <2>3, <3>1, <3>2 DEF RoomLeft, At, Busy
  <2> QED
    BY <1>0, <2>1, <2>2, <2>3, <2>4, CapStays
<1>5. CASE Reserve(s) /\ ~ End(s)
  <2>1. At(s, "activate", "reserve") /\ Goto(s, "apply") /\ UNCHANGED <<uses, crowded>>
    BY <1>5 DEF Reserve, Continue, notes, promoVars
  <2>2. At(s, "activate", "apply")' /\ ses'[s].u = ses[s].u /\ ses[s].u \in User
    BY <1>0, <2>1, GotoEffect DEF Goes, At, PC, Working
  <2>3. RoomLeft(s) => RoomLeft(s)'
    BY <2>1, <2>2 DEF RoomLeft, CodesOf, At, Busy
  <2> QED
    BY <1>0, <2>1, <2>2, <2>3, CapStays
<1>6. CASE ApplyBalance(s) \/ ApplyDays(s) \/ ApplyDiscount(s)
  <2>1. /\ At(s, "activate", "apply") /\ Goto(s, "count") /\ crowded' = crowded
        /\ IF Kind[ses[s].c] = "discount" THEN uses' = uses ELSE uses' = uses \cup {<<ses[s].c, ses[s].u>>}
    BY <1>6 DEF ApplyBalance, ApplyDays, ApplyDiscount, Continue, Use, promoVars, notes
  <2>2. PICK c \in Code, u \in User : c = ses[s].c /\ u = ses[s].u
    BY <1>0, <2>1 DEF At, Working
  <2>3. At(s, "activate", "count")' /\ ses'[s].c = c /\ ses'[s].u = u
    BY <1>0, <2>1, <2>2, GotoEffect DEF Goes, At, PC
  <2>4. <<c, u>> \notin uses
    BY <1>0, <2>1, <2>2 DEF Unused, Reserved
  <2>5. RoomLeft(s) => Cardinality(CodesOf(u)) < DailyCap
    BY <2>1, <2>2 DEF RoomLeft, Reserved
  <2>6. CASE Kind[c] = "discount"
    <3>1. RoomLeft(s) => RoomLeft(s)'
      BY <2>1, <2>2, <2>3, <2>5, <2>6 DEF RoomLeft, CodesOf, At, Busy
    <3> QED
      BY <1>0, <2>1, <2>2, <2>3, <2>6, <3>1, CapStays
  <2>7. CASE Kind[c] # "discount"
    <3>1. /\ Cardinality(CodesOf(u)') = Cardinality(CodesOf(u)) + 1
          /\ \A v \in User \ {u} : CodesOf(v)' = CodesOf(v)
      BY <1>0, <2>1, <2>2, <2>4, <2>7, UseAdded
    <3>2. \A v \in User : SpinsOf(v)' = SpinsOf(v)
      BY <1>0 DEF SpinsOf
    <3>3. RoomLeft(s) => Cardinality(CodesOf(u)') <= DailyCap
      BY <2>5, <3>1, CapNumbers
    <3>4. RoomLeft(s)'
      BY <2>3, <2>7 DEF RoomLeft, Reserved, At, Busy
    <3> QED
      BY <2>1, <2>2, <2>3, <3>1, <3>2, <3>3, <3>4, CapStep
  <2> QED
    BY <2>6, <2>7
<1>7. CASE Count(s)
  <2>1. /\ At(s, "activate", "count") /\ ses'[s] = Idle /\ crowded' = crowded
        /\ IF Kind[ses[s].c] = "discount" THEN uses' = uses \cup {<<ses[s].c, ses[s].u>>} ELSE uses' = uses
    BY <1>0, <1>7, EndEffect DEF Count, Use, Ends, notes
  <2>2. PICK c \in Code, u \in User : c = ses[s].c /\ u = ses[s].u
    BY <1>0, <2>1 DEF At, Working
  <2>3. CASE Kind[c] # "discount"
    BY <1>0, <2>1, <2>2, <2>3, CapStays
  <2>4. CASE Kind[c] = "discount"
    <3>0. <<c, u>> \notin uses /\ (RoomLeft(s) => Cardinality(CodesOf(u)) < DailyCap)
      BY <1>0, <2>1, <2>2, <2>4 DEF Unused, Reserved, RoomLeft
    <3>1. /\ Cardinality(CodesOf(u)') = Cardinality(CodesOf(u)) + 1
          /\ \A v \in User \ {u} : CodesOf(v)' = CodesOf(v)
      BY <1>0, <2>1, <2>2, <2>4, <3>0, UseAdded
    <3>2. \A v \in User : SpinsOf(v)' = SpinsOf(v)
      BY <1>0 DEF SpinsOf
    <3>3. RoomLeft(s) => Cardinality(CodesOf(u)') <= DailyCap
      BY <3>0, <3>1, CapNumbers
    <3>4. ses'[s].u \notin User
      BY <1>0, <2>1
    <3> QED
      BY <2>1, <2>2, <3>1, <3>2, <3>3, <3>4, CapStep
  <2> QED
    BY <2>3, <2>4
<1>8. CASE GiveBack(s)
  <2>1. /\ At(s, "deactivate", "write") /\ ses'[s] = Idle /\ crowded' = crowded
        /\ uses' = IF ses[s].flag THEN uses \ {<<ses[s].c, ses[s].u>>} ELSE uses
    BY <1>0, <1>8, GiveBackEffect DEF GiveBack, Ends, notes
  <2>2. PICK c \in Code, u \in User : c = ses[s].c /\ u = ses[s].u
    BY <1>0, <2>1 DEF At, Working
  <2>3. CASE uses' = uses
    BY <1>0, <2>1, <2>2, <2>3, CapStays
  <2>4. CASE uses' # uses
    <3>0. <<c, u>> \in uses /\ uses' = uses \ {<<c, u>>}
      BY <2>1, <2>2, <2>4
    <3>1. /\ Cardinality(CodesOf(u)') = Cardinality(CodesOf(u)) - 1
          /\ \A v \in User \ {u} : CodesOf(v)' = CodesOf(v)
      BY <1>0, <3>0, UseRemoved
    <3>2. \A v \in User : SpinsOf(v)' = SpinsOf(v)
      BY <1>0 DEF SpinsOf
    <3>3. Cardinality(CodesOf(u)) <= DailyCap => Cardinality(CodesOf(u)') <= DailyCap
      BY <3>1, CapNumbers
    <3>4. ses'[s].u \notin User
      BY <1>0, <2>1
    <3> QED
      BY <2>1, <2>2, <3>1, <3>2, <3>3, <3>4, CapStep
  <2> QED
    BY <2>3, <2>4
<1>9. /\ Check(s) \/ Reserve(s) => At(s, "activate", ses[s].pc) /\ UNCHANGED uses
      /\ Inapplicable(s) => Busy(s, "activate") /\ End(s) /\ UNCHANGED uses
  BY DEF Check, Reserve, Inapplicable, At, Busy, promoVars
<1> QED
  BY <1>1, <1>2, <1>3, <1>4, <1>5, <1>6, <1>7, <1>8, <1>9 DEF PromoNext, At, Busy

LEMMA WheelCap ==
  ASSUME LimitInv, NEW s \in Session, WheelNext(s), UNCHANGED uses
  PROVE  \A v \in User : CapInv(v)'
<1>0. /\ TypeOK /\ BookInv /\ Shape(s) /\ ses[s] \in SesState /\ (Working(s) => ses[s].u \in User)
      /\ Idle.u \notin User
  BY Knows, IdleType DEF LimitInv, BookInv, Idle
<1>1. ASSUME NEW u \in User, Enters(s, "spin", "pay", u), SpinsLeft(u), UNCHANGED spins
      PROVE  \A v \in User : CapInv(v)'
  BY <1>1, CapStarts
<1>2. CASE Busy(s, "spin") /\ Carries(s) /\ UNCHANGED spins
  <2>1. ses'[s].op = ses[s].op /\ ses'[s].u = ses[s].u /\ RoomLeft(s) => RoomLeft(s)'
    BY <1>2 DEF RoomLeft, Reserved, SpinsOf, At, Busy
  <2> QED
    BY <1>0, <1>2, <2>1, CapStays DEF Carries, Busy, Working
<1>3. CASE Busy(s, "spin") /\ RecordSpin(s)
  <2>1. PICK u \in User : u = ses[s].u
    BY <1>0, <1>3 DEF Busy, Working
  <2>2. PICK x \in Spin : x = Recorded(s)
    BY <1>0, <1>3, <2>1 DEF Recorded, PrizeDrawn, Spin, SesState, Shape, Busy
  <2>3. Apart(s) /\ ses'[s] = Idle /\ crowded' = crowded /\ spins' = Append(spins, x)
    BY <1>0, <1>3, <2>2, EndEffect DEF RecordSpin, Ends, notes
  <2>4. x.user = u
    BY <2>1, <2>2 DEF Recorded
  <2>5. \A v \in User : CodesOf(v)' = CodesOf(v)
    BY DEF CodesOf
  <2>6. \A v \in User : /\ v # u => SpinsOf(v)' = SpinsOf(v)
                        /\ Cardinality(SpinsOf(v)') = Cardinality(SpinsOf(v)) + IF x.user = v THEN 1 ELSE 0
    BY <1>0, <2>3, <2>4, SpinsGrow DEF TypeOK
  <2>7. RoomLeft(s) => Cardinality(SpinsOf(u)') <= SpinLimit
    <3>1. RoomLeft(s) => Cardinality(SpinsOf(u)) < SpinLimit
      BY <1>3, <2>1 DEF RoomLeft
    <3>2. Cardinality(SpinsOf(u)') = Cardinality(SpinsOf(u)) + 1
      BY <2>4, <2>6
    <3> QED
      BY <3>1, <3>2, CapNumbers
  <2> QED
    BY <1>0, <2>1, <2>3, <2>5, <2>6, <2>7, CapStep
<1> QED
  BY <1>0, <1>1, <1>2, <1>3, WheelMoves

LEMMA WithdrawalCap ==
  ASSUME LimitInv, NEW s \in Session, WithdrawalNext(s), UNCHANGED <<uses, spins>>
  PROVE  \A v \in User : CapInv(v)'
<1>0. BookInv /\ (Working(s) => ses[s].u \in User)
  BY Knows DEF LimitInv, BookInv
<1>1. ASSUME NEW u \in User, NEW op \in {"request", "review"}, NEW pc, Enters(s, op, pc, u)
      PROVE  \A v \in User : CapInv(v)'
  BY <1>1, CapStarts
<1>2. CASE ses[s].op \in {"request", "review"} /\ Carries(s)
  <2>1. ses'[s].op = ses[s].op => RoomLeft(s)'
    BY <1>2 DEF RoomLeft, Reserved, At, Busy
  <2> QED
    BY <1>0, <1>2, <2>1, CapStays DEF Carries, Working
<1> QED
  BY <1>0, <1>1, <1>2, WithdrawalMoves

-----------------------------------------------------------------------------
(* The invariant. *)

LEMMA LimitInitially == Init => LimitInv
<1> SUFFICES ASSUME Init PROVE LimitInv
  OBVIOUS
<1>1. BookInv /\ TypeOK
  BY BookInitially DEF BookInv, IInv
<1>2. /\ ses = [s \in Session |-> Idle] /\ uses = {} /\ spins = <<>> /\ count = [c \in Code |-> 0]
      /\ Idle.op = "idle" /\ Idle.c \notin Code /\ Idle.u \notin User
  BY IdleType DEF Init, RowInit, PromoInit, WheelInit, Idle
<1>3. Cardinality({}) = 0
  BY FS_EmptySet
<1>4. ASSUME NEW c \in Code
      PROVE  CodeInv(c)
  <2>1. UsersOf(c) = {} /\ count[c] = 0 /\ MaxUses[c] \in Nat
    BY <1>2, PromoAssumption DEF UsersOf
  <2>2. \A s \in Session : ses[s].c # c /\ ~ Uncounted(s, c)
    BY <1>2 DEF Uncounted
  <2> QED
    BY <1>3, <2>1, <2>2 DEF CodeInv, AloneOnCode
<1>5. ASSUME NEW u \in User
      PROVE  CapInv(u)
  <2>1. CodesOf(u) = {} /\ SpinsOf(u) = {} /\ DailyCap \in Nat /\ SpinLimit \in Nat
    BY <1>2, PromoAssumption, WheelAssumption DEF CodesOf, SpinsOf
  <2>2. \A s \in Session : ses[s].u # u
    BY <1>2
  <2> QED
    BY <1>3, <2>1, <2>2 DEF CapInv, AloneAsUser
<1> QED
  BY <1>1, <1>4, <1>5 DEF LimitInv

LEMMA LimitInvariance == LimitInv /\ [Next]_vars => LimitInv'
<1> SUFFICES ASSUME LimitInv, [Next]_vars PROVE LimitInv'
  OBVIOUS
<1>0. BookInv /\ BookInv' /\ IInv /\ IInv'
  BY BookInvariance DEF LimitInv, BookInv
<1>1. ASSUME NEW s \in Session, PromoNext(s), UNCHANGED <<wheelVars, withdrawalVars>>
      PROVE  LimitInv'
  <2>1. Apart(s)
    BY <1>0, <1>1, PromoTyping
  <2> QED
    BY <1>0, <1>1, <2>1, PromoCode, PromoCap DEF LimitInv
<1>2. ASSUME NEW s \in Session, WheelNext(s), UNCHANGED <<promoVars, withdrawalVars>>
      PROVE  LimitInv'
  <2>1. Apart(s) /\ Shape(s)' /\ UNCHANGED uses
    BY <1>0, <1>2, WheelTyping DEF promoVars
  <2> QED
    BY <1>0, <1>2, <2>1, CodeElsewhere, WheelCap DEF LimitInv
<1>3. ASSUME NEW s \in Session, WithdrawalNext(s), UNCHANGED <<promoVars, wheelVars>>
      PROVE  LimitInv'
  <2>1. Apart(s) /\ Shape(s)' /\ UNCHANGED <<uses, spins>>
    BY <1>0, <1>3, WithdrawalTyping DEF promoVars, wheelVars
  <2> QED
    BY <1>0, <1>3, <2>1, CodeElsewhere, WithdrawalCap DEF LimitInv
<1>4. ASSUME NEW s \in Session, BreakOff(s)
      PROVE  LimitInv'
  <2>1. Ends(s) /\ Apart(s) /\ ses'[s] = Idle
    BY <1>0, <1>4, BreakOffTyping DEF Ends
  <2>2. ses[s].u \in User /\ UNCHANGED <<uses, spins, crowded>>
    BY <1>0, <1>4, Knows DEF BreakOff, Working, End, notes
  <2> QED
    BY <1>0, <1>4, <2>1, <2>2, BreakOffCode, CapStays DEF LimitInv
<1>5. ASSUME UNCHANGED <<ses, crowded, uses, count, loose, spins>>
      PROVE  LimitInv'
  <2>1. ASSUME NEW c \in Code
        PROVE  CodeInv(c)'
    <3>1. CodeInv(c) /\ UsersOf(c)' = UsersOf(c)
      BY <1>5 DEF LimitInv, UsersOf
    <3>2. ASSUME NEW s \in Session
          PROVE  (Uncounted(s, c)' <=> Uncounted(s, c)) /\ (UsesLeft(s)' <=> UsesLeft(s))
      BY <1>5 DEF Uncounted, UsesLeft, At, Busy
    <3> QED
      BY <1>5, <3>1, <3>2 DEF CodeInv, AloneOnCode
  <2>2. ASSUME NEW u \in User
        PROVE  CapInv(u)'
    <3>1. CapInv(u) /\ CodesOf(u)' = CodesOf(u) /\ SpinsOf(u)' = SpinsOf(u)
      BY <1>5 DEF LimitInv, CodesOf, SpinsOf
    <3>2. ASSUME NEW s \in Session
          PROVE  RoomLeft(s)' <=> RoomLeft(s)
      BY <1>5 DEF RoomLeft, Reserved, CodesOf, SpinsOf, At, Busy
    <3> QED
      BY <1>5, <3>1, <3>2 DEF CapInv, AloneAsUser
  <2> QED
    BY <1>0, <2>1, <2>2 DEF LimitInv
<1>6. (\E i \in DOMAIN requests : Cancel(i) /\ UNCHANGED <<promoVars, wheelVars>>) \/ UNCHANGED vars
        => UNCHANGED <<ses, crowded, uses, count, loose, spins>>
  BY DEF Cancel, promoVars, wheelVars, rowVars, notes, vars
<1> QED
  BY <1>1, <1>2, <1>3, <1>4, <1>5, <1>6 DEF Next

\* LimitInv holds of every state, for any users, codes, sessions and limits.
THEOREM LimitsInductive == Spec => []LimitInv
BY LimitInitially, LimitInvariance, PTL DEF Spec

\* A code is not used more often than max_uses says, and nobody goes over the
\* activations and the spins of a day, although each of them is checked long
\* before it is counted (promocode_service.py, activate_promocode;
\* wheel_service.py, spin): as long as activations of the code, or sessions of
\* the user, do not overlap and none breaks off between a use and its count.
THEOREM LimitsKept == Spec => []LimitsHold
<1>1. LimitInv => LimitsHold
  <2> SUFFICES ASSUME LimitInv PROVE LimitsHold
    OBVIOUS
  <2>1. ASSUME NEW c \in Code \ loose
        PROVE  Cardinality(UsersOf(c)) <= MaxUses[c]
    <3>1. CodeInv(c) /\ count[c] \in Nat /\ MaxUses[c] \in Nat
      BY PromoAssumption DEF LimitInv, BookInv, IInv, TypeOK, PromoTypeOK
    <3>2. CASE \E s \in Session : Uncounted(s, c)
      <4>1. PICK s \in Session : Uncounted(s, c)
        BY <3>2
      <4>2. count[c] < MaxUses[c] /\ Cardinality(UsersOf(c)) = count[c] + 1
        BY <3>1, <4>1 DEF CodeInv, Uncounted, UsesLeft, At, Busy
      <4> QED
        BY <3>1, <4>2
    <3>3. CASE ~ \E s \in Session : Uncounted(s, c)
      BY <3>1, <3>3 DEF CodeInv
    <3> QED
      BY <3>2, <3>3
  <2>2. \A u \in User \ crowded : Cardinality(CodesOf(u)) <= DailyCap /\ Cardinality(SpinsOf(u)) <= SpinLimit
    BY DEF LimitInv, CapInv
  <2> QED
    BY <2>1, <2>2 DEF LimitsHold
<1> QED
  BY <1>1, LimitsInductive, PTL

-----------------------------------------------------------------------------
(* The days of a subscription. *)

DayCodes(u) == {c \in CodesOf(u) : Kind[c] = "days"}
DaySpins(u) == {i \in SpinsOf(u) : spins[i].prize = "days"}
\* What the records say of the days of u.
Due(u) == StartDays + BonusDays * Cardinality(DayCodes(u)) + PrizeDays * Cardinality(DaySpins(u))
          - SpinDays * Cardinality(Paid(u, "days"))

\* What a spin has taken and given so far that is not recorded.
Gave(s) == IF ses[s].pay = "days" /\ ses[s].pc # "pay" /\ ~ ses[s].flag THEN SpinDays ELSE 0
Got(s) == IF ses[s].pc = "record" /\ ses[s].r = 0 THEN PrizeDays ELSE 0
\* The days a session has computed are the ones that are due: they are written
\* already, or the session still holds them.
SpinDaysHeld(s) == LET u == ses[s].u IN
  /\ ses[s].r \in {0, 1, 2} /\ (ses[s].pc # "record" => ses[s].r = 0)
  /\ ses[s].dirty => /\ ses[s].pc # "pay" /\ ses[s].r # 1
                     /\ ses[s].pay = "days" \/ (ses[s].pc = "record" /\ ses[s].r = 0)
  /\ ses[s].pc # "record" /\ ~ ses[s].dirty => ses[s].days = days[u]
  /\ u \notin broken =>
       /\ ses[s].pc = "prize" /\ ses[s].dirty => days[u] = Due(u)
       /\ ses[s].dirty => ses[s].days = Due(u) - Gave(s) + Got(s)
       /\ ~ ses[s].dirty => days[u] = Due(u) - Gave(s) + Got(s)
DaysHeld(s) ==
  /\ Busy(s, "activate") /\ ses[s].pc # "count" => ses[s].days = days[ses[s].u]
  /\ Busy(s, "spin") => SpinDaysHeld(s)
DaysInv(u) == u \notin crowded =>
  /\ u \notin broken /\ ~ Spinning(u) => days[u] = Due(u)
  /\ \A s \in Session : ses[s].u = u => DaysHeld(s)

\* A discount that is given back is one: no days go with it.
Discounts ==
  /\ \A u \in User : discount[u] # None => Kind[discount[u]] = "discount"
  /\ \A s \in Session : Busy(s, "deactivate") => Kind[ses[s].c] = "discount"

DayInv ==
  /\ LimitInv /\ Discounts
  /\ \A u \in Subscribed : DaysInv(u)

\* A user s has nothing to do with.
LEMMA DaysFrame ==
  ASSUME DayInv, NEW s \in Session, NEW u \in Subscribed, Apart(s), ses[s].u # u, ses'[s].u # u,
         days'[u] = days[u], Due(u)' = Due(u),
         u \in crowded => u \in crowded', u \in broken => u \in broken'
  PROVE  DaysInv(u)'
<1>1. SUFFICES ASSUME u \notin crowded' PROVE DaysInv(u)'
  BY DEF DaysInv
<1>2. u \notin crowded /\ DaysInv(u)
  BY <1>1 DEF DayInv
<1>3. \A t \in Session : /\ ses'[t].u = u <=> ses[t].u = u
                         /\ ses[t].u = u => /\ ses'[t].op = ses[t].op
                                            /\ ses[t].op # "deactivate" => ses'[t] = ses[t]
  BY DEF Apart
<1>4. u \notin broken' /\ ~ Spinning(u)' => days'[u] = Due(u)'
  <2>1. Spinning(u)' <=> Spinning(u)
    BY <1>3 DEF Spinning, Busy
  <2> QED
    BY <1>2, <2>1 DEF DaysInv
<1>5. ASSUME NEW t \in Session, ses'[t].u = u
      PROVE  DaysHeld(t)'
  <2>1. DaysHeld(t) /\ ses[t].u = u /\ ses'[t].op = ses[t].op
    BY <1>2, <1>3, <1>5 DEF DaysInv
  <2>2. CASE ses[t].op = "deactivate"
    BY <2>1, <2>2 DEF DaysHeld, Busy
  <2>3. CASE ses[t].op # "deactivate"
    <3>1. ses'[t] = ses[t]
      BY <1>3, <2>1, <2>3
    <3>2. SpinDaysHeld(t) => SpinDaysHeld(t)'
      <4>1. Gave(t)' = Gave(t) /\ Got(t)' = Got(t)
        BY <3>1 DEF Gave, Got
      <4> QED
        BY <2>1, <3>1, <4>1 DEF SpinDaysHeld
    <3> QED
      BY <2>1, <3>1, <3>2 DEF DaysHeld, Busy
  <2> QED
    BY <2>2, <2>3
<1> QED
  BY <1>4, <1>5 DEF DaysInv

\* The user of a session that goes on or ends.
LEMMA DaysStep ==
  ASSUME DayInv, NEW s \in Session, NEW u \in User, u = ses[s].u, Apart(s),
         ses'[s].u = u \/ ses'[s].u \notin User, crowded' = crowded, broken \subseteq broken',
         \A v \in Subscribed \ {u} : days'[v] = days[v] /\ Due(v)' = Due(v),
         u \in Subscribed /\ DaysHeld(s) /\ (u \notin broken /\ ~ Busy(s, "spin") => days[u] = Due(u))
           => /\ ses'[s].u = u => DaysHeld(s)'
              /\ u \notin broken' /\ ~ (ses'[s].u = u /\ Busy(s, "spin")') => days'[u] = Due(u)'
  PROVE  \A v \in Subscribed : DaysInv(v)'
<1>0. Subscribed \subseteq User
  BY UserAssumption
<1>1. ASSUME NEW v \in Subscribed, v # u
      PROVE  DaysInv(v)'
  BY <1>0, <1>1, DaysFrame
<1>2. ASSUME u \in Subscribed
      PROVE  DaysInv(u)'
  <2>1. SUFFICES ASSUME u \notin crowded PROVE DaysInv(u)'
    BY DEF DaysInv
  <2>2. DaysInv(u) /\ AloneAsUser(u)
    BY <1>2, <2>1 DEF DayInv, LimitInv, CapInv
  <2>3. \A t \in Session \ {s} : ses[t].u # u /\ ses'[t].u # u
    BY <2>2 DEF AloneAsUser, Apart
  <2>4. (Spinning(u) <=> Busy(s, "spin")) /\ (Spinning(u)' <=> ses'[s].u = u /\ Busy(s, "spin")')
    BY <2>3 DEF Spinning
  <2>5. DaysHeld(s) /\ (u \notin broken /\ ~ Busy(s, "spin") => days[u] = Due(u))
    BY <2>1, <2>2, <2>4 DEF DaysInv
  <2> QED
    BY <1>2, <2>3, <2>4, <2>5 DEF DaysInv
<1> QED
  BY <1>1, <1>2

LEMMA DueType ==
  ASSUME BookInv, NEW u \in User
  PROVE  /\ IsFiniteSet(DayCodes(u)) /\ Cardinality(DayCodes(u)) \in Nat
         /\ IsFiniteSet(DaySpins(u)) /\ Cardinality(DaySpins(u)) \in Nat
         /\ Cardinality(Paid(u, "days")) \in Nat /\ Due(u) \in Int
<1>1. /\ DayCodes(u) \subseteq CodesOf(u) /\ IsFiniteSet(CodesOf(u))
      /\ DaySpins(u) \subseteq SpinsOf(u) /\ IsFiniteSet(SpinsOf(u))
      /\ Cardinality(Paid(u, "days")) \in Nat
  BY SpinsAreFinite DEF DayCodes, DaySpins, BookInv, IInv, TypeOK, Counted
<1>2. /\ IsFiniteSet(DayCodes(u)) /\ Cardinality(DayCodes(u)) \in Nat
      /\ IsFiniteSet(DaySpins(u)) /\ Cardinality(DaySpins(u)) \in Nat
  BY <1>1, FS_Subset, FS_CardinalityType
<1>3. {StartDays, BonusDays, PrizeDays, SpinDays} \subseteq Nat
  BY StartAssumption, PromoAssumption, WheelAssumption
<1> QED
  BY <1>1, <1>2, <1>3 DEF Due

LEMMA DueKept ==
  ASSUME NEW u, DayCodes(u)' = DayCodes(u), UNCHANGED spins
  PROVE  Due(u)' = Due(u)
BY DEF Due, DaySpins, SpinsOf, Paid

\* A step outside the wheel that writes no days.
LEMMA DaysStay ==
  ASSUME DayInv, NEW s \in Session, ses[s].u \in User, ~ Busy(s, "spin"), Apart(s),
         \/ ses'[s] = Idle
         \/ /\ ses'[s].op = ses[s].op /\ ses'[s].u = ses[s].u /\ ses'[s].days = ses[s].days
            /\ ses[s].pc = "count" => ses'[s].pc = "count"
         \/ ses'[s].op \notin {"activate", "spin"} /\ ses'[s].u = ses[s].u,
         \A v \in User : DayCodes(v)' = DayCodes(v), UNCHANGED <<spins, crowded, days>>,
         broken \subseteq broken'
  PROVE  \A v \in Subscribed : DaysInv(v)'
<1>1. PICK u \in User : u = ses[s].u
  OBVIOUS
<1>2. \A v \in User : Due(v)' = Due(v)
  BY DueKept
<1>3. ses'[s].u = u \/ ses'[s].u \notin User
  BY <1>1, IdleType DEF Idle
<1>4. ~ Busy(s, "spin")' /\ (ses'[s].u = u /\ DaysHeld(s) => DaysHeld(s)')
  BY <1>1, IdleType DEF Idle, Busy, DaysHeld
<1> QED
  BY <1>1, <1>2, <1>3, <1>4, DaysStep, UserAssumption

\* A session that starts.
LEMMA DaysStart ==
  ASSUME DayInv, NEW s \in Session, NEW u \in User, NEW op, NEW pc, Enters(s, op, pc, u),
         op = "activate" => ses'[s].days = days[u],
         op = "spin" => pc = "pay" /\ ses'[s].days = days[u] /\ ses'[s].r = 0 /\ ~ ses'[s].dirty,
         UNCHANGED <<uses, spins, days, broken>>
  PROVE  \A v \in Subscribed : DaysInv(v)'
<1>0. /\ Apart(s) /\ ~ Working(s) /\ ses'[s].u = u /\ ses'[s].op = op /\ ses'[s].pc = pc
      /\ crowded' = IF \E t \in Others(s) : ses[t].u = u THEN crowded \cup {u} ELSE crowded
  BY DEF Enters, Starts
<1>1. \A t \in Session : Working(t) <=> ses[t].u \in User
  BY Knows DEF DayInv, LimitInv, BookInv, IInv, Shape
<1>2. \A v \in User : DayCodes(v)' = DayCodes(v)
  BY DEF DayCodes, CodesOf
<1>3. \A v \in User : Due(v)' = Due(v)
  BY <1>2, DueKept
<1>4. ASSUME NEW v \in Subscribed, v # u
      PROVE  DaysInv(v)'
  BY <1>0, <1>1, <1>3, <1>4, UserAssumption, DaysFrame
<1>5. ASSUME u \in Subscribed
      PROVE  DaysInv(u)'
  <2>1. SUFFICES ASSUME u \notin crowded' PROVE DaysInv(u)'
    BY DEF DaysInv
  <2>2. u \notin crowded /\ DaysInv(u) /\ \A t \in Session : ses[t].u # u
    BY <1>0, <1>1, <1>5, <2>1 DEF Others, Working, DayInv
  <2>3. \A t \in Session \ {s} : ses'[t].u # u
    BY <1>0, <2>2 DEF Apart
  <2>4. u \notin broken => days[u] = Due(u)
    BY <2>2 DEF DaysInv, Spinning
  <2>5. DaysHeld(s)'
    <3>1. Due(u) \in Int /\ Due(u)' = Due(u) /\ days'[u] = days[u]
      BY <1>3, <1>5, DueType DEF DayInv, LimitInv
    <3>2. CASE op = "spin"
      <4>1. Gave(s)' = 0 /\ Got(s)' = 0
        BY <1>0, <3>2 DEF Gave, Got
      <4>2. SpinDaysHeld(s)'
        BY <1>0, <2>4, <3>1, <3>2, <4>1 DEF SpinDaysHeld
      <4> QED
        BY <1>0, <3>2, <4>2 DEF DaysHeld, Busy
    <3>3. CASE op # "spin"
      BY <1>0, <3>3 DEF DaysHeld, Busy
    <3> QED
      BY <3>2, <3>3
  <2> QED
    BY <1>3, <2>3, <2>4, <2>5 DEF DaysInv
<1> QED
  BY <1>4, <1>5

LEMMA DueMoves ==
  ASSUME BookInv, BookInv', NEW u \in User, NEW i \in Int, NEW j \in Int, NEW k \in Int,
         Cardinality(DayCodes(u)') = Cardinality(DayCodes(u)) + i,
         Cardinality(DaySpins(u)') = Cardinality(DaySpins(u)) + j,
         Cardinality(Paid(u, "days")') = Cardinality(Paid(u, "days")) + k
  PROVE  Due(u)' = Due(u) + BonusDays * i + PrizeDays * j - SpinDays * k
<1>1. PICK a \in Int, b \in Int, d \in Int :
        /\ a = Cardinality(DayCodes(u)) /\ b = Cardinality(DaySpins(u)) /\ d = Cardinality(Paid(u, "days"))
  BY DueType
<1>2. {StartDays, BonusDays, PrizeDays, SpinDays} \subseteq Int
  BY StartAssumption, PromoAssumption, WheelAssumption
<1>3. /\ BonusDays * (a + i) = BonusDays * a + BonusDays * i
      /\ PrizeDays * (b + j) = PrizeDays * b + PrizeDays * j
      /\ SpinDays * (d + k) = SpinDays * d + SpinDays * k
  BY <1>2, Distributes
<1>4. Due(u)' = StartDays + BonusDays * (a + i) + PrizeDays * (b + j) - SpinDays * (d + k)
  BY <1>1 DEF Due
<1>5. Due(u) = StartDays + BonusDays * a + PrizeDays * b - SpinDays * d
  BY <1>1 DEF Due
<1>6. /\ BonusDays * a \in Int /\ BonusDays * i \in Int /\ PrizeDays * b \in Int
      /\ PrizeDays * j \in Int /\ SpinDays * d \in Int /\ SpinDays * k \in Int
  BY <1>2
<1> QED
  BY <1>2, <1>3, <1>4, <1>5, <1>6

LEMMA DayCodesKept ==
  ASSUME \A c \in Code, v \in User : Kind[c] = "days" => (<<c, v>> \in uses' <=> <<c, v>> \in uses)
  PROVE  \A v \in User : DayCodes(v)' = DayCodes(v)
BY DEF DayCodes, CodesOf

LEMMA PromoDays ==
  ASSUME DayInv, BookInv', NEW s \in Session, PromoNext(s), UNCHANGED wheelVars, Apart(s)
  PROVE  \A v \in Subscribed : DaysInv(v)'
<1>0. /\ BookInv /\ TypeOK /\ Counted /\ Shape(s) /\ Unused(s) /\ ses[s] \in SesState
      /\ (Working(s) => ses[s].u \in User)
      /\ (ses[s].op \in {"activate", "deactivate"} => ses[s].c \in Code)
      /\ UNCHANGED <<spins, broken>>
  BY Knows DEF DayInv, LimitInv, BookInv, SessionInv, wheelVars
<1>1. ASSUME NEW u \in User, NEW c \in Code, Look(s, u, c)
      PROVE  \A v \in Subscribed : DaysInv(v)'
  <2>1. Enters(s, "activate", "check", u) /\ ses'[s].days = days[u] /\ UNCHANGED <<uses, days>>
    BY <1>0, <1>1, LookFields DEF Look, Enters, rows
  <2> QED
    BY <1>0, <2>1, DaysStart
<1>2. ASSUME NEW u \in User, LookDiscount(s, u)
      PROVE  \A v \in Subscribed : DaysInv(v)'
  <2>1. Enters(s, "deactivate", "write", u) /\ UNCHANGED <<uses, days>>
    BY <1>0, <1>2, LookDiscountFields DEF LookDiscount, Enters, rows
  <2> QED
    BY <1>0, <2>1, DaysStart
<1>3. ASSUME Busy(s, "activate"), End(s), UNCHANGED <<uses, days>>
      PROVE  \A v \in Subscribed : DaysInv(v)'
  BY <1>0, <1>3, EndEffect, DayCodesKept, DaysStay DEF Ends, Busy, Working, notes
<1>4. ASSUME NEW pc \in {"reserve", "apply", "count"}, Busy(s, "activate"), ses[s].pc # "count",
             Continue(s, pc), UNCHANGED days,
             \A c \in Code, v \in User : Kind[c] = "days" => (<<c, v>> \in uses' <=> <<c, v>> \in uses)
      PROVE  \A v \in Subscribed : DaysInv(v)'
  <2>1. ses'[s].op = ses[s].op /\ ses'[s].u = ses[s].u /\ ses'[s].days = ses[s].days /\ crowded' = crowded
    BY <1>0, <1>4, GotoFields DEF Continue, Goes, PC, notes
  <2> QED
    BY <1>0, <1>4, <2>1, DayCodesKept, DaysStay DEF Busy, Working
<1>5. CASE (Check(s) /\ ~ End(s)) \/ (Reserve(s) /\ ~ End(s)) \/ ApplyDiscount(s)
  BY <1>4, <1>5 DEF Check, Reserve, ApplyDiscount, At, Busy, rows, promoVars
<1>6. CASE ApplyBalance(s)
  <2>1. ses[s].c \in Code /\ Busy(s, "activate")
    BY <1>0, <1>6 DEF ApplyBalance, At, Busy
  <2>2. \A c \in Code, v \in User : Kind[c] = "days" => (<<c, v>> \in uses' <=> <<c, v>> \in uses)
    BY <1>6, <2>1 DEF ApplyBalance, Use
  <2> QED
    BY <1>4, <1>6, <2>1, <2>2 DEF ApplyBalance, At
<1>7. CASE ApplyDays(s)
  <2>1. PICK c \in Code, u \in User : c = ses[s].c /\ u = ses[s].u
    BY <1>0, <1>7 DEF ApplyDays, At, Working
  <2>2. /\ At(s, "activate", "apply") /\ Kind[c] = "days" /\ u \in Subscribed /\ Goto(s, "count")
        /\ days' = [days EXCEPT ![u] = ses[s].days + BonusDays] /\ uses' = uses \cup {<<c, u>>}
        /\ crowded' = crowded
    BY <1>7, <2>1 DEF ApplyDays, Continue, Use, notes
  <2>3. At(s, "activate", "count")' /\ ses'[s].u = u
    BY <1>0, <2>1, <2>2, GotoEffect DEF Goes, At, PC
  <2>4. c \notin CodesOf(u)
    BY <1>0, <2>1, <2>2 DEF Unused, Reserved, CodesOf
  <2>5. Due(u)' = Due(u) + BonusDays
    <3>1. DayCodes(u)' = DayCodes(u) \cup {c} /\ c \notin DayCodes(u)
      BY <2>2, <2>4 DEF DayCodes, CodesOf
    <3>2. Cardinality(DayCodes(u)') = Cardinality(DayCodes(u)) + 1
      BY <1>0, <3>1, DueType, FS_AddElement
    <3>3. DaySpins(u)' = DaySpins(u) /\ Paid(u, "days")' = Paid(u, "days")
      BY <1>0 DEF DaySpins, Paid, SpinsOf
    <3>4. /\ Cardinality(DaySpins(u)') = Cardinality(DaySpins(u)) + 0
          /\ Cardinality(Paid(u, "days")') = Cardinality(Paid(u, "days")) + 0
      BY <1>0, <3>3, DueType
    <3>5. Due(u)' = Due(u) + BonusDays * 1 + PrizeDays * 0 - SpinDays * 0
      BY <1>0, <3>2, <3>4, DueMoves
    <3> QED
      BY <1>0, <3>5, DueType, PromoAssumption, WheelAssumption
  <2>6. \A v \in Subscribed \ {u} : days'[v] = days[v] /\ Due(v)' = Due(v)
    <3>1. \A v \in Subscribed \ {u} : DayCodes(v)' = DayCodes(v)
      BY <2>2 DEF DayCodes, CodesOf
    <3>2. \A v \in Subscribed \ {u} : days'[v] = days[v]
      BY <1>0, <2>2, UserAssumption, Types
    <3> QED
      BY <1>0, <3>1, <3>2, DueKept
  <2>7. ~ Busy(s, "spin") /\ ~ Busy(s, "spin")' /\ DaysHeld(s)'
    BY <2>2, <2>3 DEF DaysHeld, At, Busy
  <2>8. DaysHeld(s) => ses[s].days = days[u]
    BY <2>1, <2>2 DEF DaysHeld, At, Busy
  <2>9. days'[u] = ses[s].days + BonusDays
    BY <1>0, <2>2, Types
  <2> QED
    BY <1>0, <2>1, <2>2, <2>3, <2>5, <2>6, <2>7, <2>8, <2>9, DaysStep
<1>8. CASE Count(s)
  <2>1. ses[s].c \in Code /\ Busy(s, "activate") /\ ses[s].u \in User
    BY <1>0, <1>8 DEF Count, At, Busy, Working
  <2>2. \A c \in Code, v \in User : Kind[c] = "days" => (<<c, v>> \in uses' <=> <<c, v>> \in uses)
    BY <1>8, <2>1 DEF Count, Use
  <2>3. ses'[s] = Idle /\ UNCHANGED <<crowded, days>>
    BY <1>0, <1>8, EndEffect DEF Count, Ends, rows, notes
  <2> QED
    BY <1>0, <2>1, <2>2, <2>3, DayCodesKept, DaysStay DEF Busy
<1>9. CASE GiveBack(s)
  <2>1. /\ ses[s].c \in Code /\ Busy(s, "deactivate") /\ ses[s].u \in User
        /\ Kind[ses[s].c] = "discount"
    BY <1>0, <1>9 DEF GiveBack, At, Busy, Working, DayInv, Discounts
  <2>2. \A c \in Code, v \in User : Kind[c] = "days" => (<<c, v>> \in uses' <=> <<c, v>> \in uses)
    BY <1>9, <2>1 DEF GiveBack
  <2>3. ses'[s] = Idle /\ UNCHANGED <<crowded, days>>
    BY <1>0, <1>9, GiveBackEffect DEF GiveBack, Ends, rows, notes
  <2> QED
    BY <1>0, <2>1, <2>2, <2>3, DayCodesKept, DaysStay DEF Busy
<1>10. CASE (Check(s) /\ End(s)) \/ (Reserve(s) /\ End(s)) \/ Inapplicable(s)
  BY <1>3, <1>10 DEF Check, Reserve, Inapplicable, At, Busy, rows, promoVars
<1> QED
  BY <1>1, <1>2, <1>5, <1>6, <1>7, <1>8, <1>9, <1>10 DEF PromoNext

LEMMA WithdrawalDays ==
  ASSUME DayInv, NEW s \in Session, WithdrawalNext(s), UNCHANGED <<promoVars, wheelVars>>
  PROVE  \A v \in Subscribed : DaysInv(v)'
<1>0. BookInv /\ (Working(s) => ses[s].u \in User) /\ UNCHANGED <<uses, spins, broken>>
  BY Knows DEF DayInv, LimitInv, BookInv, promoVars, wheelVars
<1>1. UNCHANGED days
  BY DEF WithdrawalNext, LoadUser, HoldUser, AskAmount, FileRequest, OpenRequest, Approve, Reject,
         Complete, Decline, rows
<1>2. ASSUME NEW u \in User, NEW op \in {"request", "review"}, NEW pc, Enters(s, op, pc, u)
      PROVE  \A v \in Subscribed : DaysInv(v)'
  BY <1>0, <1>1, <1>2, DaysStart
<1>3. CASE ses[s].op \in {"request", "review"} /\ Carries(s)
  BY <1>0, <1>1, <1>3, DayCodesKept, DaysStay DEF Carries, Busy, Working
<1> QED
  BY <1>0, <1>2, <1>3, WithdrawalMoves

\* A spin goes on.
LEMMA SpinGoesOn ==
  ASSUME DayInv, NEW s \in Session, NEW u \in User, u = ses[s].u, Busy(s, "spin"), Apart(s),
         ses'[s].op = ses[s].op, ses'[s].u = u, UNCHANGED <<uses, spins, broken, crowded>>,
         \A v \in Subscribed \ {u} : days'[v] = days[v],
         u \in Subscribed /\ SpinDaysHeld(s) /\ Due(u)' = Due(u) => SpinDaysHeld(s)'
  PROVE  \A v \in Subscribed : DaysInv(v)'
<1>1. \A v \in User : Due(v)' = Due(v)
  BY DayCodesKept, DueKept
<1>2. u \in Subscribed /\ DaysHeld(s) => DaysHeld(s)'
  BY <1>1 DEF DaysHeld, Busy
<1>3. Busy(s, "spin")'
  BY DEF Busy
<1> QED
  BY <1>1, <1>2, <1>3, DaysStep, UserAssumption

\* A spin that was not paid yet.
LEMMA NotPaidYet ==
  ASSUME BookInv, NEW s \in Session, NEW u \in User, u = ses[s].u, SpinDaysHeld(s), ses[s].pc = "pay"
  PROVE  /\ ~ ses[s].dirty /\ ses[s].r = 0 /\ ses[s].days = days[u]
         /\ u \notin broken => days[u] = Due(u)
<1>1. Gave(s) = 0 /\ Got(s) = 0 /\ Due(u) \in Int
  BY DueType DEF Gave, Got
<1> QED
  BY <1>1 DEF SpinDaysHeld

LEMMA WheelDays ==
  ASSUME DayInv, NEW s \in Session, WheelNext(s), UNCHANGED uses, ~ RecordSpin(s)
  PROVE  \A v \in Subscribed : DaysInv(v)'
<1>0. /\ BookInv /\ TypeOK /\ ses[s] \in SesState /\ (Working(s) => ses[s].u \in User)
      /\ Debt(s) /\ Unpaid(s) /\ Free(s)
      /\ {SpinDays, PrizeDays} \subseteq Nat
  BY Knows, WheelAssumption DEF DayInv, LimitInv, BookInv, SpinInv
<1>1. ASSUME NEW u \in Player, NEW pay \in {"balance", "days"}, Available(s, u, pay)
      PROVE  \A v \in Subscribed : DaysInv(v)'
  <2>1. /\ u \in User /\ Enters(s, "spin", "pay", u) /\ UNCHANGED <<spins, days, broken>>
        /\ ses'[s].days = days[u] /\ ses'[s].r = 0 /\ ~ ses'[s].dirty
    BY <1>0, <1>1, AvailableFields DEF Available, Enters, rows, wheelVars
  <2> QED
    BY <1>0, <2>1, DaysStart
<1>2. CASE PayStars(s) /\ End(s)
  <2>1. PICK u \in User : u = ses[s].u
    BY <1>0, <1>2 DEF PayStars, At, Working
  <2>2. At(s, "spin", "pay") /\ Apart(s) /\ ses'[s] = Idle /\ UNCHANGED <<days, spins, broken, crowded>>
    BY <1>0, <1>2, EndEffect DEF PayStars, Ends, rows, notes, wheelVars
  <2>3. \A v \in User : Due(v)' = Due(v)
    BY <2>2, DayCodesKept, DueKept
  <2>4. DaysHeld(s) => (u \notin broken => days[u] = Due(u))
    BY <1>0, <2>1, <2>2, NotPaidYet DEF DaysHeld, At, Busy
  <2>5. ses'[s].u \notin User
    BY <2>2, IdleType DEF Idle
  <2> QED
    BY <2>1, <2>2, <2>3, <2>4, <2>5, DaysStep, UserAssumption
<1>3. CASE PayStars(s) /\ ~ End(s)
  <2>1. PICK u \in User : u = ses[s].u
    BY <1>0, <1>3 DEF PayStars, At, Working
  <2>2. /\ At(s, "spin", "pay") /\ ses[s].pay = "balance" /\ UNCHANGED <<days, spins, broken, crowded>>
    BY <1>3 DEF PayStars, rows, notes, wheelVars
  <2>3. /\ Apart(s) /\ ses'[s].op = ses[s].op /\ ses'[s].pc = "prize" /\ ses'[s].u = u
        /\ ses'[s].pay = ses[s].pay /\ ses'[s].r = ses[s].r
        /\ ses'[s].days = ses[s].days /\ ses'[s].dirty = ses[s].dirty
    BY <1>0, <1>3, <2>1, PayStarsFields
  <2>4. ASSUME SpinDaysHeld(s), Due(u)' = Due(u)
        PROVE  SpinDaysHeld(s)'
    <3>1. ~ ses'[s].dirty /\ ses'[s].r = 0 /\ ses'[s].days = days'[u] /\ (u \notin broken => days[u] = Due(u))
      BY <1>0, <2>1, <2>2, <2>3, <2>4, NotPaidYet DEF At
    <3>2. Gave(s)' = 0 /\ Got(s)' = 0 /\ Due(u) \in Int
      BY <1>0, <2>2, <2>3, DueType DEF Gave, Got
    <3> QED
      BY <2>2, <2>3, <2>4, <3>1, <3>2 DEF SpinDaysHeld
  <2> QED
    BY <2>1, <2>2, <2>3, <2>4, SpinGoesOn DEF At, Busy
<1>4. CASE PayDays(s)
  <2>1. PICK u \in User : u = ses[s].u
    BY <1>0, <1>4 DEF PayDays, At, Working
  <2>2. /\ At(s, "spin", "pay") /\ ses[s].pay = "days" /\ UNCHANGED <<spins, broken, crowded>> /\ ~ ses[s].flag
    BY <1>0, <1>4 DEF PayDays, notes, wheelVars, Free, At, Busy
  <2>3. PICK d \in Nat : (Synced(s, d) \/ NotSynced(s, d)) /\ d = ses[s].days - SpinDays
    BY <1>0, <1>4, DaysMoved
  <2>4. /\ Apart(s) /\ ses'[s].op = ses[s].op /\ ses'[s].pc = "prize" /\ ses'[s].u = u
        /\ ses'[s].pay = ses[s].pay /\ ses'[s].r = ses[s].r /\ ~ ses'[s].flag /\ ses'[s].days = d
        /\ \/ ~ ses'[s].dirty /\ days' = [days EXCEPT ![u] = d]
           \/ ses'[s].dirty /\ days' = days
    BY <1>0, <2>1, <2>2, <2>3, SyncedFields, NotSyncedFields DEF AfterSync, At
  <2>5. ASSUME SpinDaysHeld(s), Due(u)' = Due(u)
        PROVE  SpinDaysHeld(s)'
    <3>1. ses'[s].r = 0 /\ ses[s].days = days[u] /\ (u \notin broken => days[u] = Due(u))
      BY <1>0, <2>1, <2>2, <2>4, <2>5, NotPaidYet DEF At
    <3>2. Gave(s)' = SpinDays /\ Got(s)' = 0 /\ Due(u) \in Int
      BY <1>0, <2>2, <2>4, DueType DEF Gave, Got
    <3>3. u \notin broken => d = Due(u) - SpinDays + 0
      BY <1>0, <2>3, <3>1, <3>2
    <3>4. ~ ses'[s].dirty => days'[u] = d
      BY <1>0, <2>4, Types
    <3> QED
      BY <2>2, <2>4, <2>5, <3>1, <3>2, <3>3, <3>4 DEF SpinDaysHeld
  <2>6. \A v \in Subscribed \ {u} : days'[v] = days[v]
    BY <1>0, <2>4, Types, UserAssumption
  <2> QED
    BY <1>0, <2>1, <2>2, <2>4, <2>5, <2>6, SpinGoesOn DEF At, Busy
<1>5. CASE WinDays(s)
  <2>1. PICK u \in User : u = ses[s].u
    BY <1>0, <1>5 DEF WinDays, At, Working
  <2>2. At(s, "spin", "prize") /\ UNCHANGED <<spins, broken, crowded>> /\ ~ ses[s].flag
    BY <1>0, <1>5 DEF WinDays, notes, wheelVars, Free, At, Busy
  <2>3. PICK d \in Nat : (Synced(s, d) \/ NotSynced(s, d)) /\ d = ses[s].days + PrizeDays
    BY <1>0, <1>5, DaysMoved
  <2>4. /\ Apart(s) /\ ses'[s].op = ses[s].op /\ ses'[s].pc = "record" /\ ses'[s].u = u
        /\ ses'[s].pay = ses[s].pay /\ ses'[s].r = ses[s].r /\ ~ ses'[s].flag /\ ses'[s].days = d
        /\ \/ ~ ses'[s].dirty /\ days' = [days EXCEPT ![u] = d]
           \/ ses'[s].dirty /\ days' = days
    BY <1>0, <2>1, <2>2, <2>3, SyncedFields, NotSyncedFields DEF AfterSync, At
  <2>5. ASSUME SpinDaysHeld(s), Due(u)' = Due(u)
        PROVE  SpinDaysHeld(s)'
    <3>0. Got(s) = 0 /\ Gave(s) \in Int /\ Due(u) \in Int
      BY <1>0, <2>2, DueType DEF Gave, Got, At
    <3>1. /\ ses[s].r = 0 /\ (~ ses[s].dirty => ses[s].days = days[u])
          /\ Got(s) = 0 /\ Gave(s) \in Int /\ Due(u) \in Int
      BY <2>1, <2>2, <2>5, <3>0 DEF SpinDaysHeld, At
    <3>2. u \notin broken => ses[s].days = Due(u) - Gave(s)
      BY <2>1, <2>5, <3>1 DEF SpinDaysHeld
    <3>3. Gave(s)' = Gave(s) /\ Got(s)' = PrizeDays
      BY <2>2, <2>4, <3>1 DEF Gave, Got, At
    <3>4. u \notin broken => d = Due(u) - Gave(s) + PrizeDays
      BY <1>0, <2>3, <3>1, <3>2
    <3>5. ~ ses'[s].dirty => days'[u] = d
      BY <1>0, <2>4, Types
    <3> QED
      BY <2>2, <2>4, <2>5, <3>1, <3>3, <3>4, <3>5 DEF SpinDaysHeld
  <2>6. \A v \in Subscribed \ {u} : days'[v] = days[v]
    BY <1>0, <2>4, Types, UserAssumption
  <2> QED
    BY <1>0, <2>1, <2>2, <2>4, <2>5, <2>6, SpinGoesOn DEF At, Busy
<1>6. CASE WinCash(s)
  <2>1. PICK u \in User : u = ses[s].u
    BY <1>0, <1>6 DEF WinCash, At, Working
  <2>2. /\ At(s, "spin", "prize") /\ UNCHANGED <<days, spins, broken, crowded>> /\ ~ ses[s].flag
    BY <1>0, <1>6 DEF WinCash, notes, wheelVars, Free, At, Busy
  <2>3. /\ Apart(s) /\ ses'[s].op = ses[s].op /\ ses'[s].pc = "record" /\ ses'[s].u = u
        /\ ses'[s].pay = ses[s].pay /\ ses'[s].r = 1
        /\ ses'[s].flag = (ses[s].debt \/ ses[s].dirty) /\ ~ ses'[s].dirty
    BY <1>0, <1>6, <2>1, WinCashFields
  <2>4. ASSUME SpinDaysHeld(s), Due(u)' = Due(u)
        PROVE  SpinDaysHeld(s)'
    <3>1. Got(s) = 0 /\ Got(s)' = 0 /\ Gave(s) \in Int /\ Due(u) \in Int
      BY <1>0, <2>2, <2>3, DueType DEF Gave, Got, At
    <3>2. u \notin broken => days'[u] = Due(u) - Gave(s)'
      <4>1. CASE ses[s].dirty
        <5>1. Gave(s)' = 0
          BY <2>3, <4>1 DEF Gave
        <5> QED
          BY <2>1, <2>2, <2>4, <3>1, <4>1, <5>1 DEF SpinDaysHeld, At
      <4>2. CASE ~ ses[s].dirty
        <5>1. u \notin broken => days'[u] = Due(u) - Gave(s)
          BY <2>1, <2>2, <2>4, <3>1, <4>2 DEF SpinDaysHeld
        <5>2. ses[s].pay = "balance" \/ ~ ses'[s].flag
          BY <1>0, <2>3, <4>2 DEF Debt
        <5>3. Gave(s)' = Gave(s)
          BY <2>2, <2>3, <5>2 DEF Gave, At
        <5> QED
          BY <5>1, <5>3
      <4> QED
        BY <4>1, <4>2
    <3>3. Gave(s)' \in Int
      BY <1>0 DEF Gave
    <3> QED
      BY <2>2, <2>3, <2>4, <3>1, <3>2, <3>3 DEF SpinDaysHeld
  <2> QED
    BY <1>0, <2>1, <2>2, <2>3, <2>4, SpinGoesOn DEF At, Busy
<1>7. CASE WinOther(s)
  <2>1. PICK u \in User : u = ses[s].u
    BY <1>0, <1>7 DEF WinOther, At, Working
  <2>2. At(s, "spin", "prize") /\ UNCHANGED <<days, spins, broken, crowded>>
    BY <1>0, <1>7 DEF WinOther, rows, notes, wheelVars
  <2>3. /\ Apart(s) /\ ses'[s].op = ses[s].op /\ ses'[s].pc = "record" /\ ses'[s].u = u
        /\ ses'[s].pay = ses[s].pay /\ ses'[s].r = 2 /\ ses'[s].flag = ses[s].flag
        /\ ses'[s].days = ses[s].days /\ ses'[s].dirty = ses[s].dirty
    BY <1>0, <1>7, <2>1, WinOtherFields
  <2>4. ASSUME SpinDaysHeld(s), Due(u)' = Due(u)
        PROVE  SpinDaysHeld(s)'
    <3>1. Got(s) = 0 /\ Got(s)' = 0 /\ Gave(s)' = Gave(s)
      BY <2>2, <2>3 DEF Gave, Got, At
    <3>2. ses[s].dirty => ses[s].pay = "days"
      BY <2>2, <2>4 DEF SpinDaysHeld, At
    <3> QED
      BY <2>1, <2>2, <2>3, <2>4, <3>1, <3>2 DEF SpinDaysHeld
  <2> QED
    BY <1>0, <2>1, <2>2, <2>3, <2>4, SpinGoesOn DEF At, Busy
<1> QED
  BY <1>1, <1>2, <1>3, <1>4, <1>5, <1>6, <1>7 DEF WheelNext

LEMMA RecordDays ==
  ASSUME DayInv, BookInv', NEW s \in Session, RecordSpin(s), UNCHANGED uses
  PROVE  \A v \in Subscribed : DaysInv(v)'
<1> DEFINE x == Recorded(s)
<1>0. /\ BookInv /\ TypeOK /\ Shape(s) /\ ses[s] \in SesState /\ At(s, "spin", "record") /\ ses[s].u \in User
  BY Knows DEF DayInv, LimitInv, BookInv, RecordSpin, At, Working
<1>1. PICK u \in User : u = ses[s].u
  BY <1>0
<1>2. /\ x \in Spin /\ x.user = u /\ x.pay = ses[s].pay /\ x.free = ses[s].flag /\ x.prize = PrizeDrawn(s)
  BY <1>0, <1>1 DEF Recorded, PrizeDrawn, Spin, SesState, Shape, At, Busy
<1>3. /\ Apart(s) /\ ses'[s] = Idle /\ UNCHANGED <<crowded, broken>> /\ spins' = Append(spins, x)
      /\ days' = [days EXCEPT ![u] = IF ses[s].dirty THEN ses[s].days ELSE @]
  BY <1>0, <1>1, EndEffect DEF RecordSpin, Ends, notes
<1> HIDE DEF x
<1>4. \A v \in User : DayCodes(v)' = DayCodes(v)
  BY DayCodesKept
<1>5. PICK k : /\ DOMAIN spins' = DOMAIN spins \cup {k} /\ k \notin DOMAIN spins /\ spins'[k] = x
               /\ \A i \in DOMAIN spins : spins'[i] = spins[i]
  BY <1>0, <1>2, <1>3, SpinsGrow DEF TypeOK
<1>6. \A v \in Subscribed \ {u} : days'[v] = days[v] /\ Due(v)' = Due(v)
  <2>1. ASSUME NEW v \in Subscribed \ {u}
        PROVE  SpinsOf(v)' = SpinsOf(v) /\ DaySpins(v)' = DaySpins(v) /\ Paid(v, "days")' = Paid(v, "days")
    <3>1. SpinsOf(v)' = SpinsOf(v) /\ SpinsOf(v) \subseteq DOMAIN spins
      BY <1>2, <1>5, <2>1 DEF SpinsOf
    <3> QED
      BY <1>5, <3>1 DEF DaySpins, Paid
  <2>2. \A v \in Subscribed \ {u} : days'[v] = days[v]
    BY <1>0, <1>3, Types, UserAssumption
  <2> QED
    BY <1>4, <2>1, <2>2, UserAssumption DEF Due
<1>7. ASSUME SpinDaysHeld(s)
      PROVE  Due(u)' = Due(u) - Gave(s) + Got(s)
  <2>1. x.prize = "days" <=> ses[s].r = 0
    BY <1>2, <1>7 DEF SpinDaysHeld, PrizeDrawn
  <2>2. PICK i \in Int, j \in Int :
          /\ i = IF ses[s].r = 0 THEN 1 ELSE 0
          /\ j = IF x.pay = "days" /\ ~ x.free THEN 1 ELSE 0
    OBVIOUS
  <2>3. Cardinality(DaySpins(u)') = Cardinality(DaySpins(u)) + i
    <3>1. k \notin DaySpins(u)
      BY <1>5 DEF DaySpins, SpinsOf
    <3>2. DaySpins(u)' = IF x.prize = "days" THEN DaySpins(u) \cup {k} ELSE DaySpins(u)
      BY <1>2, <1>5 DEF DaySpins, SpinsOf
    <3>3. IsFiniteSet(DaySpins(u)) /\ Cardinality(DaySpins(u)) \in Nat
      BY <1>0, DueType
    <3>4. CASE ses[s].r = 0
      <4>1. i = 1 /\ DaySpins(u)' = DaySpins(u) \cup {k}
        BY <2>1, <2>2, <3>2, <3>4
      <4> QED
        BY <3>1, <3>3, <4>1, FS_AddElement
    <3>5. CASE ses[s].r # 0
      <4>1. i = 0 /\ DaySpins(u)' = DaySpins(u)
        BY <2>1, <2>2, <3>2, <3>5
      <4> QED
        BY <3>3, <4>1
    <3> QED
      BY <3>4, <3>5
  <2>4. Cardinality(Paid(u, "days")') = Cardinality(Paid(u, "days")) + j
    BY <1>0, <1>2, <1>3, <2>2, SpinsGrow DEF TypeOK
  <2>5. Cardinality(DayCodes(u)') = Cardinality(DayCodes(u)) + 0
    BY <1>0, <1>4, DueType
  <2>6. Due(u)' = Due(u) + BonusDays * 0 + PrizeDays * i - SpinDays * j
    BY <1>0, <2>3, <2>4, <2>5, DueMoves
  <2>7. PrizeDays \in Int /\ SpinDays \in Int /\ BonusDays \in Int /\ Due(u) \in Int
    BY <1>0, DueType, PromoAssumption, WheelAssumption
  <2>8. PrizeDays * i = Got(s)
    BY <1>0, <2>2, <2>7 DEF Got, At
  <2>9. SpinDays * j = Gave(s)
    BY <1>0, <1>2, <2>2, <2>7 DEF Gave, At
  <2>10. Got(s) \in Int /\ Gave(s) \in Int
    BY <2>7 DEF Got, Gave
  <2> QED
    BY <2>6, <2>7, <2>8, <2>9, <2>10
<1>8. SpinDaysHeld(s) => (u \notin broken => days'[u] = Due(u) - Gave(s) + Got(s))
  BY <1>0, <1>1, <1>3, Types DEF SpinDaysHeld
<1>9. ses'[s].u \notin User /\ Busy(s, "spin")
  BY <1>0, <1>3, IdleType DEF Idle, At, Busy
<1> QED
  BY <1>1, <1>3, <1>6, <1>7, <1>8, <1>9, DaysStep DEF DaysHeld

LEMMA BreakOffDays ==
  ASSUME DayInv, NEW s \in Session, BreakOff(s), Ends(s)
  PROVE  \A v \in Subscribed : DaysInv(v)'
<1>0. /\ BookInv /\ Shape(s) /\ Apart(s) /\ ses'[s] = Idle /\ UNCHANGED <<uses, spins, crowded, days>>
      /\ broken' = IF Busy(s, "spin") /\ ses[s].pc \in {"prize", "record"} THEN broken \cup {ses[s].u} ELSE broken
  BY Knows DEF DayInv, LimitInv, BookInv, BreakOff, Ends, End, rows, notes
<1>1. PICK u \in User : u = ses[s].u
  BY <1>0 DEF BreakOff, Shape, Working
<1>2. \A v \in User : Due(v)' = Due(v)
  BY <1>0, DayCodesKept, DueKept
<1>3. ses'[s].u \notin User
  BY <1>0, IdleType DEF Idle
<1>4. DaysHeld(s) /\ Busy(s, "spin") => (u \notin broken' => days[u] = Due(u))
  <2>1. SUFFICES ASSUME SpinDaysHeld(s), Busy(s, "spin"), u \notin broken'
                 PROVE  days[u] = Due(u)
    BY DEF DaysHeld
  <2>2. ses[s].pc = "pay" /\ u \notin broken
    BY <1>0, <1>1, <2>1 DEF Shape
  <2> QED
    BY <1>0, <1>1, <2>1, <2>2, NotPaidYet
<1> QED
  BY <1>0, <1>1, <1>2, <1>3, <1>4, DaysStep, UserAssumption

LEMMA DiscountsStep ==
  ASSUME DayInv, NEW s \in Session, Apart(s),
         \A u \in User : discount'[u] # None => discount'[u] = discount[u] \/ Kind[discount'[u]] = "discount",
         Busy(s, "deactivate")' => Kind[ses'[s].c] = "discount"
  PROVE  Discounts'
<1>1. \A t \in Session \ {s} : ses'[t].op = ses[t].op /\ ses'[t].c = ses[t].c
  BY DEF Apart
<1> QED
  BY <1>1 DEF DayInv, Discounts, Busy

LEMMA PromoDiscounts ==
  ASSUME DayInv, NEW s \in Session, PromoNext(s), Apart(s)
  PROVE  Discounts'
<1>0. /\ TypeOK /\ discount \in [User -> Code \cup {None}] /\ Idle.op = "idle"
      /\ (Working(s) => ses[s].u \in User)
  BY Knows DEF DayInv, LimitInv, BookInv, IInv, TypeOK, PromoTypeOK, Idle
<1>1. ASSUME NEW u \in User, NEW c \in Code, Look(s, u, c)
      PROVE  Discounts'
  <2>1. ~ Busy(s, "deactivate")' /\ discount' = discount
    BY <1>0, <1>1, LookFields DEF Look, Starts, Busy
  <2> QED
    BY <2>1, DiscountsStep
<1>2. ASSUME NEW u \in User, LookDiscount(s, u)
      PROVE  Discounts'
  <2>1. ses'[s].c = discount[u] /\ discount[u] # None /\ discount' = discount
    BY <1>0, <1>2, LookDiscountFields DEF LookDiscount
  <2>2. Kind[ses'[s].c] = "discount"
    BY <2>1 DEF DayInv, Discounts
  <2> QED
    BY <2>1, <2>2, DiscountsStep
<1>3. ASSUME NEW pc \in {"reserve", "apply", "count"}, Goto(s, pc), Busy(s, "activate"), discount' = discount
      PROVE  Discounts'
  <2>1. ~ Busy(s, "deactivate")'
    BY <1>0, <1>3, GotoEffect DEF Goes, Busy, PC
  <2> QED
    BY <1>3, <2>1, DiscountsStep
<1>4. ASSUME End(s), discount' = discount
      PROVE  Discounts'
  <2>1. ~ Busy(s, "deactivate")'
    BY <1>0, <1>4, EndEffect DEF Ends, Busy
  <2> QED
    BY <1>4, <2>1, DiscountsStep
<1>5. CASE Count(s)
  <2>1. ~ Busy(s, "deactivate")' /\ ses[s].u \in User
    BY <1>0, <1>5, EndEffect DEF Count, Ends, Busy, At, Working
  <2>2. \A u \in User : discount'[u] # None => discount'[u] = discount[u] \/ Kind[discount'[u]] = "discount"
    BY <1>0, <1>5, <2>1 DEF Count
  <2> QED
    BY <2>1, <2>2, DiscountsStep
<1>6. CASE GiveBack(s)
  <2>1. ~ Busy(s, "deactivate")' /\ ses[s].u \in User
    BY <1>0, <1>6, GiveBackEffect DEF GiveBack, Ends, Busy, At, Working
  <2>2. \A u \in User : discount'[u] # None => discount'[u] = discount[u]
    BY <1>0, <1>6, <2>1 DEF GiveBack
  <2> QED
    BY <2>1, <2>2, DiscountsStep
<1>7. CASE Check(s) \/ Reserve(s) \/ ApplyBalance(s) \/ ApplyDays(s) \/ ApplyDiscount(s) \/ Inapplicable(s)
  BY <1>3, <1>4, <1>7 DEF Check, Reserve, ApplyBalance, ApplyDays, ApplyDiscount, Inapplicable, Continue,
                          At, Busy, promoVars
<1> QED
  BY <1>1, <1>2, <1>5, <1>6, <1>7 DEF PromoNext

\* The other steps start and change no session that gives a discount back.
LEMMA OtherDiscounts ==
  ASSUME DayInv, NEW s \in Session, Apart(s), discount' = discount,
         WheelNext(s) \/ WithdrawalNext(s) \/ ses'[s] = Idle
  PROVE  Discounts'
<1>0. BookInv /\ TypeOK /\ Idle.op = "idle"
  BY DEF DayInv, LimitInv, BookInv, IInv, Idle
<1>1. ~ Busy(s, "deactivate")'
  <2>1. CASE WheelNext(s) /\ ~ RecordSpin(s)
    BY <1>0, <2>1, WheelMoves DEF Enters, Starts, Carries, Busy
  <2>2. CASE RecordSpin(s)
    BY <1>0, <2>2, EndEffect DEF RecordSpin, Ends, Busy
  <2>3. CASE WithdrawalNext(s)
    BY <1>0, <2>3, WithdrawalMoves DEF Enters, Starts, Carries, Busy
  <2>4. CASE ses'[s] = Idle
    BY <1>0, <2>4 DEF Busy
  <2> QED
    BY <2>1, <2>2, <2>3, <2>4
<1> QED
  BY <1>1, DiscountsStep

LEMMA DayInitially == Init => DayInv
<1> SUFFICES ASSUME Init PROVE DayInv
  OBVIOUS
<1>1. LimitInv /\ BookInv
  BY LimitInitially DEF LimitInv
<1>2. /\ ses = [s \in Session |-> Idle] /\ uses = {} /\ spins = <<>> /\ discount = [u \in User |-> None]
      /\ days = [u \in User |-> IF u \in Subscribed THEN StartDays ELSE 0]
      /\ Idle.op = "idle" /\ Idle.u \notin User
  BY IdleType DEF Init, RowInit, PromoInit, WheelInit, Idle
<1>3. Discounts
  BY <1>2 DEF Discounts, Busy
<1>4. ASSUME NEW u \in Subscribed
      PROVE  DaysInv(u)
  <2>1. DayCodes(u) = {} /\ DaySpins(u) = {} /\ Paid(u, "days") = {}
    BY <1>2 DEF DayCodes, DaySpins, Paid, CodesOf, SpinsOf
  <2>2. Due(u) = StartDays + BonusDays * 0 + PrizeDays * 0 - SpinDays * 0
    BY <2>1, FS_EmptySet DEF Due
  <2>3. days[u] = Due(u)
    BY <1>2, <2>2, UserAssumption, StartAssumption, PromoAssumption, WheelAssumption
  <2>4. \A s \in Session : ses[s].u # u
    BY <1>2, UserAssumption
  <2> QED
    BY <2>3, <2>4 DEF DaysInv
<1> QED
  BY <1>1, <1>3, <1>4 DEF DayInv

LEMMA DayInvariance == DayInv /\ [Next]_vars => DayInv'
<1> SUFFICES ASSUME DayInv, [Next]_vars PROVE DayInv'
  OBVIOUS
<1>0. LimitInv' /\ BookInv' /\ IInv
  BY LimitInvariance DEF DayInv, LimitInv, BookInv
<1>1. ASSUME NEW s \in Session, PromoNext(s), UNCHANGED <<wheelVars, withdrawalVars>>
      PROVE  DayInv'
  <2>1. Apart(s)
    BY <1>0, <1>1, PromoTyping
  <2> QED
    BY <1>0, <1>1, <2>1, PromoDays, PromoDiscounts DEF DayInv
<1>2. ASSUME NEW s \in Session, WheelNext(s), UNCHANGED <<promoVars, withdrawalVars>>
      PROVE  DayInv'
  <2>1. Apart(s) /\ UNCHANGED <<uses, discount>>
    BY <1>0, <1>2, WheelTyping DEF promoVars
  <2> QED
    BY <1>0, <1>2, <2>1, WheelDays, RecordDays, OtherDiscounts DEF DayInv
<1>3. ASSUME NEW s \in Session, WithdrawalNext(s), UNCHANGED <<promoVars, wheelVars>>
      PROVE  DayInv'
  <2>1. Apart(s) /\ discount' = discount
    BY <1>0, <1>3, WithdrawalTyping DEF promoVars
  <2> QED
    BY <1>0, <1>3, <2>1, WithdrawalDays, OtherDiscounts DEF DayInv
<1>4. ASSUME NEW s \in Session, BreakOff(s)
      PROVE  DayInv'
  <2>1. Ends(s) /\ Apart(s) /\ ses'[s] = Idle /\ discount' = discount
    BY <1>0, <1>4, BreakOffTyping DEF Ends, BreakOff
  <2> QED
    BY <1>0, <1>4, <2>1, BreakOffDays, OtherDiscounts DEF DayInv
<1>5. ASSUME UNCHANGED <<ses, crowded, uses, spins, days, broken, discount>>
      PROVE  DayInv'
  <2>1. Discounts'
    BY <1>5 DEF DayInv, Discounts, Busy
  <2>2. ASSUME NEW u \in Subscribed
        PROVE  DaysInv(u)'
    <3>1. DaysInv(u) /\ Due(u)' = Due(u) /\ (Spinning(u)' <=> Spinning(u))
      BY <1>5, DayCodesKept, DueKept, UserAssumption DEF DayInv, Spinning, Busy
    <3>2. ASSUME NEW s \in Session, ses[s].u = u, DaysHeld(s)
          PROVE  DaysHeld(s)'
      <4>1. Gave(s)' = Gave(s) /\ Got(s)' = Got(s)
        BY <1>5 DEF Gave, Got
      <4> QED
        BY <1>5, <3>1, <3>2, <4>1 DEF DaysHeld, SpinDaysHeld, Busy
    <3> QED
      BY <1>5, <3>1, <3>2 DEF DaysInv
  <2> QED
    BY <1>0, <2>1, <2>2 DEF DayInv
<1>6. (\E i \in DOMAIN requests : Cancel(i) /\ UNCHANGED <<promoVars, wheelVars>>) \/ UNCHANGED vars
        => UNCHANGED <<ses, crowded, uses, spins, days, broken, discount>>
  BY DEF Cancel, promoVars, wheelVars, rowVars, rows, notes, vars
<1> QED
  BY <1>1, <1>2, <1>3, <1>4, <1>5, <1>6 DEF Next

\* DayInv holds of every state, for any users, codes, sessions and prices.
THEOREM DaysInductive == Spec => []DayInv
BY DayInitially, DayInvariance, PTL DEF Spec

\* The days of a subscription are the ones it started with, those of the codes
\* that were used and the prizes that were recorded, less the price of the
\* spins: extend_subscription writes an end it computed from one read before
\* (promocode_service.py), and a spin holds what the panel did not confirm in
\* memory until a later commit (wheel_service.py), so that this holds of a user
\* whose sessions do not overlap, and between two spins.
THEOREM SubscriptionDaysReconcile == Spec => []DaysReconcile
<1>1. DayInv => DaysReconcile
  <2> SUFFICES ASSUME DayInv, NEW u \in Subscribed \ crowded, Settled(u)
               PROVE  days[u] = Due(u)
    BY DEF DaysReconcile, Due, DayCodes, DaySpins
  <2> QED
    BY DEF DayInv, DaysInv, Settled
<1> QED
  BY <1>1, DaysInductive, PTL
=============================================================================
