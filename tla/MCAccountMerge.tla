--------------------------- MODULE MCAccountMerge ---------------------------
(* A small instance of AccountMerge for TLC.                                 *)
EXTENDS AccountMerge, TLC

CONSTANTS a, b, c, ab, ba, ca, x1, x2, s1, s2

InOrder == <<{"google", "discord"}, {"telegram"}, {"email"}>>
PrimaryOf == [t \in Token |-> CASE t = ab -> a [] t = ba -> b [] t = ca -> c]
SecondaryOf == [t \in Token |-> CASE t = ab -> b [] t = ba -> a [] t = ca -> a]
Identities == [u \in User |->
  CASE u = a -> {"discord", "email"} [] u = b -> {"google", "telegram"} [] u = c -> {"email"}]
OneUnit == [u \in User |-> IF u = b THEN 1 ELSE 0]
Payers == [x \in Payment |-> IF x = x1 THEN b ELSE a]
Symmetry == Permutations(Session)
=============================================================================
