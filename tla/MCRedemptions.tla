---------------------------- MODULE MCRedemptions ----------------------------
(* Small instances of Redemptions for TLC. *)
EXTENDS Redemptions, TLC

CONSTANTS u1, u2, cash, time, off, s1, s2

KindOf == [c \in Code |-> CASE c = time -> "days" [] c = off -> "discount" [] OTHER -> "balance"]
Once == [c \in Code |-> 1]
OneEarned == [u \in Partner |-> 1]
Symmetry == Permutations(Session)
=============================================================================
