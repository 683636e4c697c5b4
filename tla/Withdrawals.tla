------------------------------ MODULE Withdrawals ------------------------------
(***************************************************************************)
(* Withdrawal of referral earnings: a user files a request, an administrator*)
(* approves it, which takes the money from the balance, or rejects it, and  *)
(* marks an approved one as completed when the money was sent.  The user    *)
(* can cancel a pending request.                                            *)
(***************************************************************************)
EXTENDS UserRows, FiniteSetsExt

CONSTANTS Partner,      \* users who withdraw
          Earned,       \* what each of them has earned from referrals
          MinAmount,    \* REFERRAL_WITHDRAWAL_MIN_AMOUNT_KOPEKS
          OnlyReferral, \* REFERRAL_WITHDRAWAL_ONLY_REFERRAL_BALANCE
          MaxRequests   \* bound

ASSUME WithdrawalAssumption ==
  /\ Partner \subseteq User /\ Earned \in [Partner -> Nat] /\ MinAmount \in Nat \ {0}
  /\ OnlyReferral \in BOOLEAN /\ MaxRequests \in Nat

VARIABLES
  requests, \* withdrawal_requests
  charged,  \* history: how many times the amount of each was taken
  misread   \* history: requests decided on by a status that was not theirs any more

withdrawalVars == <<requests, charged, misread>>

RequestStatus == {"pending", "approved", "rejected", "completed", "cancelled"}
WithdrawalTypeOK ==
  /\ requests \in Seq([user : Partner, amount : Nat \ {0}, status : RequestStatus])
  /\ Len(requests) <= MaxRequests
  /\ charged \in [1..MaxRequests -> Nat] /\ misread \subseteq 1..MaxRequests

WithdrawalInit == requests = <<>> /\ charged = [i \in 1..MaxRequests |-> 0] /\ misread = {}

RequestsOf(u, status) == {i \in DOMAIN requests : requests[i].user = u /\ requests[i].status \in status}
Total(I) == MapThenSumSet(LAMBDA i : requests[i].amount, I)

-----------------------------------------------------------------------------
(* create_withdrawal_request *)

\* The handler has loaded the user before.
LoadUser(s, u) ==
  /\ Len(requests) < MaxRequests
  /\ Begin(s, "request", u, [Idle EXCEPT !.pc = "hold", !.n = balance[u]])
  /\ UNCHANGED <<rows, lock, withdrawalVars>>

\* (Mutation: the user's row is not locked.)
HoldNobody(s) ==
  /\ At(s, "request", "hold")
  /\ Continue(s, "ask")
  /\ UNCHANGED <<rows, lock, withdrawalVars>>
HoldUser(s) ==
  /\ At(s, "request", "hold") /\ Lock(s, ses[s].u)
  /\ Continue(s, "ask")
  /\ UNCHANGED <<rows, withdrawalVars>>

Least(a, b) == IF a <= b THEN a ELSE b
\* Earned, less withdrawn, less pending.  (Mutation: what is withdrawn counts
\* only when it is completed.)
EntitlementLate(u) == Earned[u] - Total(RequestsOf(u, {"completed", "pending"}))
Entitlement(u) == Earned[u] - Total(RequestsOf(u, {"approved", "completed", "pending"}))
AvailableAmount(s) == LET u == ses[s].u IN
  IF OnlyReferral THEN Least(ses[s].n, Entitlement(u)) ELSE ses[s].n

\* The last request must not be pending; the days between two requests pass, so
\* that the one filed last is also the last by created_at.
LastPending(u) == LET I == RequestsOf(u, RequestStatus) IN
  I # {} /\ requests[Max(I)].status = "pending"
AskAmount(s) ==
  /\ At(s, "request", "ask")
  /\ \/ /\ AvailableAmount(s) < MinAmount \/ LastPending(ses[s].u)
        /\ End(s)
     \/ /\ ~ LastPending(ses[s].u)
        /\ \E a \in MinAmount..AvailableAmount(s) : ses' = [ses EXCEPT ![s].pc = "file", ![s].n = a]
        /\ UNCHANGED <<lock, notes>>
  /\ UNCHANGED <<rows, withdrawalVars>>

FileRequest(s) ==
  /\ At(s, "request", "file") /\ Len(requests) < MaxRequests
  /\ requests' = Append(requests, [user |-> ses[s].u, amount |-> ses[s].n, status |-> "pending"])
  /\ End(s)
  /\ UNCHANGED <<rows, charged, misread>>

\* cancel_withdrawal: locked and read at once.
Cancel(i) ==
  /\ requests[i].status = "pending"
  /\ requests' = [requests EXCEPT ![i].status = "cancelled"]
  /\ UNCHANGED <<rowVars, charged, misread>>

-----------------------------------------------------------------------------
(* The administrators.  The handler of the bot loads the request before the *)
(* service locks it, and the lock does not refresh what is loaded.  The     *)
(* cabinet loads it by the lock: the two steps follow on each other.        *)

OpenRequest(s, i) ==
  /\ Begin(s, "review", requests[i].user, [Idle EXCEPT !.pc = requests[i].status, !.r = i])
  /\ UNCHANGED <<rows, lock, withdrawalVars>>

\* A status is written over the one that was read.
Decide(s, status) == LET i == ses[s].r IN
  /\ requests' = [requests EXCEPT ![i].status = status]
  /\ misread' = IF requests[i].status = ses[s].pc THEN misread ELSE misread \cup {i}
  /\ End(s)

\* (Mutation: the status is not looked at.)
ApprovableAlways(s) == ses[s].pc \in RequestStatus
Approvable(s) == ses[s].pc = "pending"
Covered(u, amount) == balance[u] >= amount
Approve(s) == LET i == ses[s].r  u == ses[s].u IN
  /\ Busy(s, "review") /\ Approvable(s)
  /\ lock[u] = None
  /\ Covered(u, requests[i].amount)
  /\ balance' = [balance EXCEPT ![u] = @ - requests[i].amount]
  /\ booked' = [booked EXCEPT ![u] = @ - requests[i].amount]
  /\ charged' = [charged EXCEPT ![i] = @ + 1]
  /\ Decide(s, "approved")
  /\ UNCHANGED days

Reject(s) ==
  /\ Busy(s, "review") /\ ses[s].pc = "pending"
  /\ Decide(s, "rejected")
  /\ UNCHANGED <<rows, charged>>

Complete(s) ==
  /\ Busy(s, "review") /\ ses[s].pc = "approved"
  /\ Decide(s, "completed")
  /\ UNCHANGED <<rows, charged>>

\* Already decided, or the balance is too small.
Decline(s) ==
  /\ Busy(s, "review")
  /\ End(s)
  /\ UNCHANGED <<rows, withdrawalVars>>

WithdrawalNext(s) ==
  \/ \E u \in Partner : LoadUser(s, u)
  \/ HoldUser(s) \/ AskAmount(s) \/ FileRequest(s)
  \/ \E i \in DOMAIN requests : OpenRequest(s, i)
  \/ Approve(s) \/ Reject(s) \/ Complete(s) \/ Decline(s)
=============================================================================
