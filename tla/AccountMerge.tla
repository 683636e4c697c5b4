---------------------------- MODULE AccountMerge ----------------------------
(***************************************************************************)
(* Two accounts of one person become one: whoever presents a merge token    *)
(* moves the identities, the money, the subscription and the payments of    *)
(* the secondary account to the primary one and deletes the secondary.      *)
(*                                                                          *)
(* A merge is one transaction that works on two rows it loaded without a    *)
(* lock.  A flush locks what it writes; only if the secondary has money are *)
(* both rows locked and read again, which discards what was not yet         *)
(* flushed.  Meanwhile payment handlers credit the accounts and other       *)
(* merges run.                                                              *)
(***************************************************************************)
EXTENDS Integers, Sequences, FiniteSets, FiniteSetsExt

CONSTANTS
  User, Session,
  Token,       \* merge tokens that were handed out
  Payment,     \* payments not yet confirmed, of one unit each
  None,        \* no user, no token
  Groups,      \* sequence of sets: the kinds of identity moved by one flush, in order
  Email,       \* the kind that signs in with a password
  WithPassword, \* users whose e-mail has one; a provider's e-mail has none
  Primary, Secondary, \* Token -> User
  Has,         \* User -> the kinds of identity the user starts with
  Subscribed,  \* users with a subscription
  StartMoney,  \* User -> balance
  StartPayer,  \* Payment -> User
  MaxRestores  \* _MAX_MERGE_RESTORE_ATTEMPTS

ASSUME UserAssumption ==
  /\ None \notin User \cup Token /\ Subscribed \subseteq User
  /\ IsFiniteSet(User) /\ IsFiniteSet(Payment)
ASSUME TokenAssumption ==
  /\ {Primary, Secondary} \subseteq [Token -> User] /\ \A t \in Token : Primary[t] # Secondary[t]
ASSUME StartAssumption == StartMoney \in [User -> Int] /\ StartPayer \in [Payment -> User]
ASSUME SessionAssumption == None \notin Session /\ MaxRestores \in Nat

VARIABLES
  row,      \* users as committed: id, money, deleted
  owner,    \* subscriptions.user_id; None: the subscription is deleted
  payer,    \* user_id of the payments
  credit,   \* the user a payment's handler has read; None: not yet
  paid,     \* payments that were credited
  lock,     \* the session that holds a user's row
  token,    \* "valid" or "consumed" in Redis
  restored, \* _restore_count of a token
  ses,      \* the merges at work
  late      \* history: users that got money after a merge had seen them without any

vars == <<row, owner, payer, credit, paid, lock, token, restored, ses, late>>

Kind == UNION {Groups[i] : i \in DOMAIN Groups}
ASSUME KindAssumption ==
  /\ Groups \in Seq(SUBSET Kind)
  /\ \A i, j \in DOMAIN Groups : i # j => Groups[i] \cap Groups[j] = {}
Row == [id : [Kind -> User \cup {None}], money : Int, deleted : BOOLEAN]
NoRow == [id |-> [k \in Kind |-> None], money |-> 0, deleted |-> FALSE]

(* A merge: the token, the two users as they are in memory, with their      *)
(* subscriptions; what was cleared on the secondary, what is set on the     *)
(* primary and what of it is not flushed; whether the money was moved and   *)
(* whether no other merge has worked on these users, or had one of their    *)
(* subscriptions in memory, meanwhile.                                      *)
Idle == [pc |-> "idle", t |-> None, keep |-> "primary", p |-> NoRow, q |-> NoRow,
         psub |-> None, qsub |-> None, cleared |-> {}, put |-> {}, dirty |-> {},
         moved |-> FALSE, alone |-> TRUE]
SessionState ==
  [pc : {"idle", "move", "second", "finish"}, t : Token \cup {None},
   keep : {"primary", "secondary"}, p : Row, q : Row,
   psub : Subscribed \cup {None}, qsub : Subscribed \cup {None},
   cleared : SUBSET Kind, put : SUBSET Kind, dirty : SUBSET Kind,
   moved : BOOLEAN, alone : BOOLEAN]

Init ==
  /\ row = [u \in User |-> [id |-> [k \in Kind |-> IF k \in Has[u] THEN u ELSE None],
                            money |-> StartMoney[u], deleted |-> FALSE]]
  /\ owner = [u \in Subscribed |-> u]
  /\ payer = StartPayer
  /\ credit = [x \in Payment |-> None] /\ paid = {}
  /\ lock = [u \in User |-> None]
  /\ token = [t \in Token |-> "valid"] /\ restored = [t \in Token |-> 0]
  /\ ses = [s \in Session |-> Idle]
  /\ late = {}

Active == {s \in Session : ses[s].pc # "idle"}
P(s) == Primary[ses[s].t]
Q(s) == Secondary[ses[s].t]
Subs(u) == {x \in Subscribed : owner[x] = u}
SubOf(u) == IF Subs(u) = {} THEN None ELSE CHOOSE x \in Subs(u) : TRUE

Free(s, us) == \A u \in us : lock[u] \in {None, s}
Take(s, us) == Free(s, us) /\ lock' = [u \in User |-> IF u \in us THEN s ELSE lock[u]]
Released(s) == [u \in User |-> IF lock[u] = s THEN None ELSE lock[u]]

-----------------------------------------------------------------------------
(* Payments: the handler reads the payment's user_id, then locks that user  *)
(* and adds the amount to the balance, deleted or not.                      *)

\* Money that arrives at u is not seen by a merge of u into another account.
Unseen(u) ==
  \/ row[u].deleted
  \/ \E s \in Active : Q(s) = u /\ ses[s].pc = "move" /\ ses[s].q.money = 0
Arrives(u) == late' = IF Unseen(u) THEN late \cup {u} ELSE late

ReadPayer(x) ==
  /\ credit[x] = None /\ credit' = [credit EXCEPT ![x] = payer[x]]
  /\ UNCHANGED <<row, owner, payer, paid, lock, token, restored, ses, late>>

Credit(x) ==
  /\ credit[x] # None /\ x \notin paid /\ lock[credit[x]] = None
  /\ row' = [row EXCEPT ![credit[x]].money = @ + 1]
  /\ paid' = paid \cup {x}
  /\ Arrives(credit[x])
  /\ UNCHANGED <<owner, payer, credit, lock, token, restored, ses>>

-----------------------------------------------------------------------------
(* execute_merge and its callers.                                           *)

\* restore_merge_token.  (Mutation: it never refuses.)
RestorableAlways(t) == TRUE
Restorable(t) == restored[t] < MaxRestores
Restore(t) ==
  IF Restorable(t)
  THEN token' = [token EXCEPT ![t] = "valid"] /\ restored' = [restored EXCEPT ![t] = @ + 1]
  ELSE UNCHANGED <<token, restored>>

\* consume_merge_token: GETDEL.
Consume(t) == token[t] = "valid" /\ token' = [token EXCEPT ![t] = "consumed"]

\* The request does not name the subscription to keep, or one of the accounts
\* is deleted already: the token is consumed and restored.
Refuse(t, named) ==
  /\ token[t] = "valid"
  /\ ~ named \/ row[Primary[t]].deleted \/ row[Secondary[t]].deleted
  /\ IF Restorable(t)
     THEN restored' = [restored EXCEPT ![t] = @ + 1] /\ UNCHANGED token
     ELSE Consume(t) /\ UNCHANGED restored
  /\ UNCHANGED <<row, owner, payer, credit, paid, lock, ses, late>>

\* The merge of s works on a user of t, or holds a subscription that has come to
\* one of them since it was read.
Overlaps(s, t) ==
  \/ {P(s), Q(s)} \cap {Primary[t], Secondary[t]} # {}
  \/ {ses[s].psub, ses[s].qsub} \cap (Subs(Primary[t]) \cup Subs(Secondary[t])) # {}

\* Both users are loaded, unlocked, with their subscriptions.
Load(s, t, keep) ==
  LET p == Primary[t]  q == Secondary[t]
      others == {r \in Active : Overlaps(r, t)}
  IN /\ ses[s] = Idle /\ Consume(t)
     /\ ~ row[p].deleted /\ ~ row[q].deleted
     /\ ses' = [r \in Session |->
          IF r = s THEN [Idle EXCEPT !.pc = "move", !.t = t, !.keep = keep,
                           !.p = row[p], !.q = row[q], !.psub = SubOf(p), !.qsub = SubOf(q),
                           !.alone = others = {}]
          ELSE IF r \in others THEN [ses[r] EXCEPT !.alone = FALSE] ELSE ses[r]]
     /\ UNCHANGED <<row, owner, payer, credit, paid, lock, restored, late>>

\* The identities of a group to move: the secondary has them and the primary has
\* none of the kind.  An e-mail moves with its password, and an e-mail without
\* one is an e-mail.
Group(s, i) == {k \in Groups[i] : ses[s].q.id[k] # None /\ ses[s].p.id[k] = None}
Movable(s) == {i \in DOMAIN Groups : Group(s, i) # {}}

\* Cleared on the secondary, flush, set on the primary: the OAuth providers all
\* at once, Telegram, the e-mail.  The flush writes what the group before has
\* set on the primary.
MoveIdentity(s) ==
  /\ ses[s].pc = "move" /\ Movable(s) # {}
  /\ LET G == Group(s, Min(Movable(s)))
     IN ses' = [ses EXCEPT
          ![s].p.id = [k \in Kind |-> IF k \in G THEN ses[s].q.id[k] ELSE ses[s].p.id[k]],
          ![s].q.id = [k \in Kind |-> IF k \in G THEN None ELSE ses[s].q.id[k]],
          ![s].cleared = @ \cup G, ![s].put = @ \cup G, ![s].dirty = G]
  /\ Take(s, {Q(s)} \cup IF ses[s].dirty = {} THEN {} ELSE {P(s)})
  /\ UNCHANGED <<row, owner, payer, credit, paid, token, restored, late>>

\* What the primary keeps when it is read again: what was flushed.
\* (Mutation: nothing is written before the read.)
FlushedNone(s) == {}
Flushed(s) == ses[s].put \ ses[s].dirty

\* The secondary has money: lock_user_for_update(primary).
LockPrimary(s) ==
  /\ ses[s].pc = "move" /\ Movable(s) = {} /\ ses[s].q.money # 0
  /\ Take(s, {P(s)})
  /\ LET kept == Flushed(s)
         id == [k \in Kind |-> IF k \in kept THEN ses[s].p.id[k] ELSE row[P(s)].id[k]]
     IN ses' = [ses EXCEPT ![s].pc = "second", ![s].p = [row[P(s)] EXCEPT !.id = id],
                           ![s].psub = SubOf(P(s)), ![s].put = kept, ![s].dirty = {}]
  /\ UNCHANGED <<row, owner, payer, credit, paid, token, restored, late>>

\* The balance that is moved.  (Mutation: as it was before the lock.)
TransferredLoaded(s) == ses[s].q.money
Transferred(s) == row[Q(s)].money

\* lock_user_for_update(secondary); its money goes to the primary.
LockSecondary(s) ==
  /\ ses[s].pc = "second" /\ Take(s, {Q(s)})
  /\ LET id == [k \in Kind |-> IF k \in ses[s].cleared THEN None ELSE row[Q(s)].id[k]]
     IN ses' = [ses EXCEPT ![s].pc = "finish", ![s].moved = TRUE,
                           ![s].p.money = @ + Transferred(s),
                           ![s].q = [row[Q(s)] EXCEPT !.id = id, !.money = 0],
                           ![s].qsub = SubOf(Q(s))]
  /\ UNCHANGED <<row, owner, payer, credit, paid, token, restored, late>>

Ready(s) ==
  \/ ses[s].pc = "finish"
  \/ (ses[s].pc = "move" /\ Movable(s) = {} /\ ses[s].q.money = 0)

\* A UNIQUE constraint: an identity that is set belongs to nobody else.
Unique(s) ==
  \A k \in ses[s].put, u \in User \ {P(s), Q(s)} : row[u].id[k] # ses[s].p.id[k]

\* _handle_subscription_merge: of two subscriptions the chosen one is kept.
KeepsOwn(s) ==
  ses[s].qsub = None \/ (ses[s].psub # None /\ ses[s].keep = "primary")
MergedSubs(s) ==
  [x \in Subscribed |->
     IF KeepsOwn(s) THEN IF x = ses[s].qsub /\ ses[s].psub # None THEN None ELSE owner[x]
     ELSE IF x = ses[s].qsub THEN P(s) ELSE IF x = ses[s].psub THEN None ELSE owner[x]]

\* The subscriptions, the payments, the deletion, the last flush and COMMIT:
\* only columns that were changed in memory are written.
Finish(s) ==
  LET p == P(s)  q == Q(s)  m == ses[s]
  IN /\ Ready(s) /\ Unique(s)
     /\ Free(s, {q} \cup IF m.moved \/ m.dirty # {} THEN {p} ELSE {})
     /\ KeepsOwn(s) \/ m.qsub \in {x \in Subscribed : owner[x] # None}
     /\ row' = [row EXCEPT
          ![p].id = [k \in Kind |-> IF k \in m.put THEN m.p.id[k] ELSE @[k]],
          ![p].money = IF m.moved THEN m.p.money ELSE @,
          ![q].id = [k \in Kind |-> IF k \in m.cleared \/ m.q.id[k] # None THEN None ELSE @[k]],
          ![q].money = IF m.moved THEN 0 ELSE @,
          ![q].deleted = TRUE]
     /\ owner' = MergedSubs(s)
     /\ payer' = [x \in Payment |-> IF payer[x] = q THEN p ELSE payer[x]]
     /\ IF m.moved THEN Arrives(p) ELSE UNCHANGED late
     /\ lock' = Released(s) /\ ses' = [ses EXCEPT ![s] = Idle]
     /\ UNCHANGED <<credit, paid, token, restored>>

\* An exception, or the loser of a deadlock: ROLLBACK, the token is restored.
Fail(s) ==
  /\ s \in Active /\ Restore(ses[s].t)
  /\ lock' = Released(s) /\ ses' = [ses EXCEPT ![s] = Idle]
  /\ UNCHANGED <<row, owner, payer, credit, paid, late>>

\* The process dies, or Redis fails: the token stays consumed.
Die(s) ==
  /\ s \in Active
  /\ lock' = Released(s) /\ ses' = [ses EXCEPT ![s] = Idle]
  /\ UNCHANGED <<row, owner, payer, credit, paid, token, restored, late>>

Next ==
  \/ \E x \in Payment : ReadPayer(x) \/ Credit(x)
  \/ \E t \in Token, named \in BOOLEAN : Refuse(t, named)
  \/ \E s \in Session, t \in Token, keep \in {"primary", "secondary"} : Load(s, t, keep)
  \/ \E s \in Session : \/ MoveIdentity(s) \/ LockPrimary(s) \/ LockSecondary(s)
                        \/ Finish(s) \/ Fail(s) \/ Die(s)

Spec == Init /\ [][Next]_vars

-----------------------------------------------------------------------------
TypeOK ==
  /\ row \in [User -> Row]
  /\ owner \in [Subscribed -> User \cup {None}]
  /\ payer \in [Payment -> User] /\ credit \in [Payment -> User \cup {None}]
  /\ paid \subseteq Payment /\ late \subseteq User
  /\ lock \in [User -> Session \cup {None}]
  /\ token \in [Token -> {"valid", "consumed"}] /\ restored \in [Token -> 0..MaxRestores]
  /\ ses \in [Session -> SessionState]

Sum(f) == MapThenSumSet(LAMBDA u : f[u], User)

\* Merges, in any number and order, and the payments credited meanwhile
\* neither make nor destroy money, and none of it stays on a deleted account,
\* unless it came after the merge had seen the account without any.
NoneStranded == \A u \in User \ late : row[u].deleted => row[u].money = 0
MoneyKept ==
  /\ Sum([u \in User |-> row[u].money]) = Sum(StartMoney) + Cardinality(paid)
  /\ NoneStranded

\* The merge of session s is committed by this step, and no other merge of
\* these accounts ran beside it.
Merges(s) ==
  s \in Active /\ ses[s].alone /\ ~ row[Q(s)].deleted /\ row'[Q(s)].deleted

\* The identities one of the two had before.
Either(s) == {k \in Kind : row[P(s)].id[k] # None \/ row[Q(s)].id[k] # None}
\* compute_auth_methods: an e-mail signs in only with a password.
SignsIn(id, k) == id[k] # None /\ (k = Email => id[k] \in WithPassword)
\* What one of the two could sign in with.
Usable(s) == {k \in Kind : SignsIn(row[P(s)].id, k) \/ SignsIn(row[Q(s)].id, k)}
\* The primary has an e-mail without a password: the secondary's is not moved.
InTheWay(s, k) == row[P(s)].id[k] # None /\ ~ SignsIn(row[P(s)].id, k)
\* Moved by the last flush.
Last(s, k) ==
  k \in ses[s].cleared /\ \A i, j \in DOMAIN Groups :
    k \in Groups[i] /\ Groups[j] \cap ses[s].cleared # {} => j <= i

AtMostOne(subs) == \A x, y \in subs : x = y
\* The account that survives a merge lives, has a subscription if one of the
\* two had, and not two unless it had two; and it can sign in every way that one
\* of the two could, with two exceptions.  When money was moved too, what the
\* last flush cleared on the secondary may be missing: reading the primary again
\* discards it.  And a password does not come to a primary that has an e-mail
\* without one.
Survives(s) ==
  /\ ~ row'[P(s)].deleted
  /\ LET new == {x \in Subscribed : owner'[x] = P(s)}
     IN /\ Subs(P(s)) \cup Subs(Q(s)) # {} => new # {}
        /\ AtMostOne(Subs(P(s))) => AtMostOne(new)
  /\ \A k \in Usable(s) :
       SignsIn(row'[P(s)].id, k) \/ (ses[s].moved /\ Last(s, k)) \/ InTheWay(s, k)
AccessKept == [][\A s \in Session : Merges(s) => Survives(s)]_vars

\* "Transfers all data from secondary to primary" (execute_merge).
IdentityMoved ==
  [][\A s \in Session : Merges(s) => \A k \in Either(s) : row'[P(s)].id[k] # None]_vars
=============================================================================
