------------------------------- MODULE UserRows -------------------------------
(***************************************************************************)
(* What the ways to gain and spend money share: the row of a user with the  *)
(* balance, the end of the subscription, and the database sessions of the   *)
(* handlers.  SELECT ... FOR UPDATE holds a user's row until the session    *)
(* commits or rolls back.  A session does not flush before it reads         *)
(* (autoflush=False): what it changed in memory is written by a flush or a  *)
(* commit, and a SELECT with populate_existing overwrites it.               *)
(***************************************************************************)
EXTENDS Integers, Sequences, FiniteSets

CONSTANTS User, Session,
          Code,         \* promo codes
          None,         \* no user, no code, no session
          Subscribed,   \* users with a subscription, not of a daily tariff
          StartBalance, StartDays,
          MaxStarts     \* bound: sessions started

ASSUME UserAssumption == None \notin User \cup Session \cup Code /\ Subscribed \subseteq User
ASSUME StartAssumption == {StartBalance, StartDays, MaxStarts} \subseteq Nat

VARIABLES
  balance,  \* users.balance_kopeks
  days,     \* of the subscription that are left
  booked,   \* sum of the user's transactions
  lock,     \* the session that holds the user's row
  ses,      \* the sessions
  crowded,  \* history: users with two sessions at work at once
  started   \* how many sessions have started

rows == <<balance, days, booked>>
notes == <<crowded, started>>
rowVars == <<rows, lock, ses, notes>>

(* What a session is doing: for whom, with which code, request or payment;  *)
(* n, days, flag: what it has read or computed; debt, dirty: a balance, an  *)
(* end of the subscription it has not flushed yet.  The session that        *)
(* reviews a request has the status it read for its pc.                     *)
Idle == [op |-> "idle", pc |-> "idle", u |-> None, c |-> None, r |-> 0, pay |-> "none",
         n |-> 0, days |-> 0, flag |-> FALSE, debt |-> FALSE, dirty |-> FALSE]
Op == {"idle", "activate", "deactivate", "spin", "request", "review"}
PC == {"idle", "check", "reserve", "apply", "count", "write", "pay", "prize", "record",
       "hold", "ask", "file", "pending", "approved", "completed", "rejected", "cancelled"}

RowTypeOK ==
  /\ balance \in [User -> Nat] /\ days \in [User -> Nat] /\ booked \in [User -> Int]
  /\ lock \in [User -> Session \cup {None}]
  /\ ses \in [Session -> [op : Op, pc : PC, u : User \cup {None}, c : Code \cup {None}, r : Nat,
                          pay : {"none", "balance", "days"}, n : Nat, days : Nat,
                          flag : BOOLEAN, debt : BOOLEAN, dirty : BOOLEAN]]
  /\ crowded \subseteq User /\ started \in 0..MaxStarts

RowInit ==
  /\ balance = [u \in User |-> StartBalance]
  /\ days = [u \in User |-> IF u \in Subscribed THEN StartDays ELSE 0]
  /\ booked = [u \in User |-> 0]
  /\ lock = [u \in User |-> None]
  /\ ses = [s \in Session |-> Idle]
  /\ crowded = {} /\ started = 0

Busy(s, op) == ses[s].op = op
At(s, op, pc) == ses[s].op = op /\ ses[s].pc = pc
Others(s) == {t \in Session \ {s} : ses[t].op # "idle"}

\* A session starts on u with what it has read.
Begin(s, op, u, read) ==
  /\ ses[s] = Idle /\ started < MaxStarts /\ started' = started + 1
  /\ ses' = [ses EXCEPT ![s] = [read EXCEPT !.op = op, !.u = u]]
  /\ crowded' = IF \E t \in Others(s) : ses[t].u = u THEN crowded \cup {u} ELSE crowded

Goto(s, pc) == ses' = [ses EXCEPT ![s].pc = pc]
Continue(s, pc) == Goto(s, pc) /\ UNCHANGED notes

\* The end of a transaction: what the session locked is free.
Released(s) == [u \in User |-> IF lock[u] = s THEN None ELSE lock[u]]
Release(s) == lock' = Released(s)
\* The end of a session, by COMMIT or ROLLBACK.
End(s) == ses' = [ses EXCEPT ![s] = Idle] /\ Release(s) /\ UNCHANGED notes

\* lock_user_for_update: nobody else holds the row.  (Mutation: no FOR UPDATE.)
LockableAlways(s, u) == TRUE
Lockable(s, u) == lock[u] \in {None, s}
Lock(s, u) == Lockable(s, u) /\ lock' = [lock EXCEPT ![u] = s]

\* add_user_balance: the row as the database has it, the transaction, COMMIT.
AddBalance(s, u, amount) ==
  /\ Lockable(s, u)
  /\ balance' = [balance EXCEPT ![u] = @ + amount]
  /\ booked' = [booked EXCEPT ![u] = @ + amount]
  /\ Release(s)
=============================================================================
