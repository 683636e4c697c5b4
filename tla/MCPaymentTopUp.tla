--------------------------- MODULE MCPaymentTopUp ---------------------------
(* Small instances of PaymentTopUp for TLC: a payment is named after its     *)
(* provider, a charge after its payment.                                     *)
EXTENDS PaymentTopUp, TLC

CONSTANTS yoo, dir, cp, plat, hel, \* payments
          cYoo, cDir, cCp, cCp2, cPlat, cHel, \* charges
          payer, friend, s1, s2

ProviderIs == [p \in Payment |->
  CASE p \in {yoo, dir} -> "yookassa" [] p = cp -> "cloudpayments"
    [] p = plat -> "platega" [] p = hel -> "heleket"]
PaymentOf == [c \in Charge |->
  CASE c = cYoo -> yoo [] c = cDir -> dir [] c \in {cCp, cCp2} -> cp
    [] c = cPlat -> plat [] c = cHel -> hel]

\* One payer for all payments: their credits meet on one balance.
SamePayer == [p \in Payment |-> payer]
Ones == [p \in Payment |-> 1]

\* The payer was invited by a friend, or by nobody.
Invited == [u \in User |-> IF u = payer THEN friend ELSE None]
Alone == [u \in User |-> None]

Symmetry == Permutations(Session)
=============================================================================
