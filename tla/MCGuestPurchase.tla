-------------------------- MODULE MCGuestPurchase --------------------------
(* Small instances of GuestPurchase for TLC. *)
EXTENDS GuestPurchaseHistory

CONSTANTS p1, p2, p3, p4, u1, m, s1, s2

\* One recipient for every purchase: they meet on one subscription.
SameRecipient == [p \in Purchase |-> u1]

\* Sessions other than the monitoring loop's are interchangeable.
Symmetry == {f \in [Session -> Session] :
               /\ f[Monitor] = Monitor
               /\ \A a, b \in Session : f[a] = f[b] => a = b}

\* The gift by code and the wrong amount meet the ordinary purchase, p4; none
\* outlives max_age_hours, after which the loop leaves it alone; a handler
\* fails or the process dies, but not both.
FewAtATime ==
  /\ \A p, q \in Purchase :
       p # q /\ status[p] # "absent" /\ status[q] # "absent" => {p, q} \in {{p1, p4}, {p3, p4}}
  /\ \A p \in Purchase : age[p] # "old"
  /\ used["faults"] + used["crashes"] <= 1
=============================================================================
