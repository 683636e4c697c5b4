-------------------------- MODULE AccountMergeProofs --------------------------
(***************************************************************************)
(* For any accounts, tokens and payments: merges make and lose no money,    *)
(* and a merge that is alone with its accounts keeps the access to them.    *)
(*                                                                         *)
(* A merge works on what it has read.  The inductive invariant says what    *)
(* of it is still so: of a merge that is alone, that its accounts live and  *)
(* that the subscriptions and identities in its memory are those of the     *)
(* rows, but for what it has moved; of any merge, that the money it read    *)
(* under a lock is the money of the row.                                    *)
(***************************************************************************)
EXTENDS AccountMerge, FiniteSums, TLAPS

\* Every merge at work has its token.
TypeInv == TypeOK /\ \A s \in Active : ses[s].t \in Token

\* No other merge works on the users of s, or holds a subscription of theirs.
Apart(s) == \A r \in Active \ {s} : ~ Overlaps(r, ses[s].t)
\* The primary lives, and the subscriptions in memory are those of the users.
Known(s) ==
  /\ ~ row[P(s)].deleted
  /\ ses[s].psub = SubOf(P(s)) /\ ses[s].qsub = SubOf(Q(s))
\* The primary in memory is the row, but for what is to be set on it: that is
\* the secondary's, and the row has none of the kind.
PrimaryView(s) ==
  /\ \A k \in Kind \ ses[s].put : ses[s].p.id[k] = row[P(s)].id[k]
  /\ \A k \in ses[s].put :
       /\ ses[s].p.id[k] = row[Q(s)].id[k] /\ ses[s].p.id[k] # None
       /\ row[P(s)].id[k] = None
\* While identities are moved: what was cleared on the secondary is set on the
\* primary, what was not is as in the row, what is not flushed was moved last,
\* and what is still to move comes after all that was moved.
Moving(s) == ses[s].pc = "move" =>
  /\ ses[s].cleared = ses[s].put
  /\ \A k \in Kind \ ses[s].cleared : ses[s].q.id[k] = row[Q(s)].id[k]
  /\ ses[s].dirty \subseteq ses[s].put /\ \A k \in ses[s].dirty : Last(s, k)
  /\ \A i \in DOMAIN Groups, j \in Movable(s) :
       Groups[i] \cap ses[s].cleared # {} => i < j
\* Once the primary was read again: only what was moved last is not on it.
Reread(s) == ses[s].pc \in {"second", "finish"} =>
  \A k \in Either(s) : ses[s].p.id[k] # None \/ Last(s, k)

AloneInv(s) == s \in Active /\ ses[s].alone =>
  Apart(s) /\ Known(s) /\ PrimaryView(s) /\ Moving(s) /\ Reread(s)

\* A secondary that was seen without money has none, or it got it late.
MoneySeen(s) ==
  /\ ses[s].pc = "finish" => ses[s].moved
  /\ ses[s].pc = "move" /\ ses[s].q.money = 0 /\ Q(s) \notin late => row[Q(s)].money = 0

\* The money a merge has read under a lock is what is in the rows: nobody else
\* can write them, and the primary in memory has what is moved to it.
MoneyHeld(s) ==
  /\ ses[s].pc = "move" => ~ ses[s].moved
  /\ ses[s].pc = "second" => lock[P(s)] = s /\ ses[s].p.money = row[P(s)].money
  /\ ses[s].pc = "finish" =>
       /\ lock[P(s)] = s /\ lock[Q(s)] = s
       /\ ses[s].p.money = row[P(s)].money + row[Q(s)].money

IInv ==
  TypeInv /\ MoneyKept /\ \A s \in Session : AloneInv(s) /\ MoneySeen(s) /\ MoneyHeld(s)

-----------------------------------------------------------------------------
(* The smallest of some numbers, users and rows.                            *)

\* Of numbers there is a smallest one, and Min picks it.
LEMMA MinIsLeast ==
  ASSUME NEW I \in SUBSET Nat, I # {}
  PROVE  Min(I) \in I /\ \A j \in I : Min(I) <= j
<1>1. PICK x \in I : \A y \in I : ~ (<<y, x>> \in OpToRel(<, Nat))
  BY NatLessThanWellFounded, WFMin, Zenon
<1>2. \A y \in I : ~ (y < x)
  BY <1>1 DEF OpToRel
<1>3. \A y \in I : x <= y
  BY <1>2
<1> QED
  BY <1>1, <1>3 DEF Min

\* The places of the kinds.
LEMMA KindsPlaced ==
  /\ DOMAIN Groups \subseteq Nat
  /\ \A i \in DOMAIN Groups : Groups[i] \subseteq Kind
  /\ \A k \in Kind : \E i \in DOMAIN Groups : k \in Groups[i]
  /\ \A i, j \in DOMAIN Groups, k \in Kind : k \in Groups[i] /\ k \in Groups[j] => i = j
<1>1. Groups \in Seq(SUBSET Kind) /\ DOMAIN Groups \subseteq Nat
  BY KindAssumption
<1>2. \A i \in DOMAIN Groups : Groups[i] \subseteq Kind
  BY <1>1
<1>3. \A k \in Kind : \E i \in DOMAIN Groups : k \in Groups[i]
  BY DEF Kind
<1>4. \A i, j \in DOMAIN Groups, k \in Kind : k \in Groups[i] /\ k \in Groups[j] => i = j
  BY KindAssumption
<1> QED
  BY <1>1, <1>2, <1>3, <1>4

\* A merge at work has two users.
LEMMA TwoUsers ==
  ASSUME TypeInv, NEW s \in Active
  PROVE  /\ s \in Session /\ ses[s] \in SessionState /\ ses[s].t \in Token
         /\ P(s) \in User /\ Q(s) \in User /\ P(s) # Q(s)
         /\ P(s) # None /\ Q(s) # None
<1>1. s \in Session /\ ses[s] \in SessionState /\ ses[s].t \in Token
  BY DEF TypeInv, TypeOK, Active
<1>2. P(s) \in User /\ Q(s) \in User /\ P(s) # Q(s)
  BY <1>1, TokenAssumption DEF P, Q
<1> QED
  BY <1>1, <1>2, UserAssumption

\* A user's subscription in memory is one of the user's, or None when the user
\* has none.
LEMMA SubIsTheirs ==
  ASSUME NEW u \in User
  PROVE  /\ SubOf(u) \in Subscribed \cup {None}
         /\ SubOf(u) = None <=> Subs(u) = {}
         /\ SubOf(u) # None => SubOf(u) \in Subs(u)
<1>1. None \notin Subs(u) /\ Subs(u) \subseteq Subscribed
  BY UserAssumption DEF Subs
<1>2. CASE Subs(u) = {}
  BY <1>1, <1>2 DEF SubOf
<1>3. CASE Subs(u) # {}
  BY <1>1, <1>3 DEF SubOf
<1> QED
  BY <1>2, <1>3

-----------------------------------------------------------------------------
(* What a step of a merge leaves in its session, field by field.            *)

\* A step leaves the merge of r as it is, but that it may not be alone any more.
Stands(r) ==
  /\ ses'[r].pc = ses[r].pc /\ ses'[r].t = ses[r].t
  /\ ses'[r].p = ses[r].p /\ ses'[r].q = ses[r].q
  /\ ses'[r].psub = ses[r].psub /\ ses'[r].qsub = ses[r].qsub
  /\ ses'[r].cleared = ses[r].cleared /\ ses'[r].put = ses[r].put
  /\ ses'[r].dirty = ses[r].dirty /\ ses'[r].moved = ses[r].moved
  /\ ses'[r].alone => ses[r].alone

LEMMA IdleTyped == Idle \in SessionState /\ Idle.pc = "idle" /\ NoRow \in Row
BY DEF Idle, NoRow, SessionState, Row

\* A merge that is not alone any more is what it was otherwise.
LEMMA CompanyMade ==
  ASSUME NEW m \in SessionState
  PROVE  /\ [m EXCEPT !.alone = FALSE] \in SessionState
         /\ [m EXCEPT !.alone = FALSE].pc = m.pc /\ [m EXCEPT !.alone = FALSE].t = m.t
         /\ [m EXCEPT !.alone = FALSE].p = m.p /\ [m EXCEPT !.alone = FALSE].q = m.q
         /\ [m EXCEPT !.alone = FALSE].psub = m.psub /\ [m EXCEPT !.alone = FALSE].qsub = m.qsub
         /\ [m EXCEPT !.alone = FALSE].cleared = m.cleared
         /\ [m EXCEPT !.alone = FALSE].put = m.put
         /\ [m EXCEPT !.alone = FALSE].dirty = m.dirty
         /\ [m EXCEPT !.alone = FALSE].moved = m.moved /\ ~ [m EXCEPT !.alone = FALSE].alone
BY DEF SessionState

\* A merge with both rows changed in memory is a merge.
LEMMA RowsMade ==
  ASSUME NEW m \in SessionState, NEW p \in Row, NEW q \in Row
  PROVE  [m EXCEPT !.p = p, !.q = q] \in SessionState
BY DEF SessionState

\* A merge with other marks on its kinds is a merge.
LEMMA MarksMade ==
  ASSUME NEW m \in SessionState, NEW cleared \in SUBSET Kind,
         NEW put \in SUBSET Kind, NEW dirty \in SUBSET Kind
  PROVE  [m EXCEPT !.cleared = cleared, !.put = put, !.dirty = dirty] \in SessionState
BY DEF SessionState

\* A merge that has read its primary again is a merge.
LEMMA FirstMade ==
  ASSUME NEW m \in SessionState, NEW p \in Row, NEW x \in Subscribed \cup {None},
         NEW put \in SUBSET Kind
  PROVE  [m EXCEPT !.pc = "second", !.p = p, !.psub = x, !.put = put, !.dirty = {}]
           \in SessionState
BY DEF SessionState

\* Load gives its session the rows and the subscriptions as they are.
LEMMA LoadStep ==
  ASSUME TypeInv, NEW s \in Session, NEW t \in Token, NEW keep \in {"primary", "secondary"},
         Load(s, t, keep)
  PROVE  /\ ses' \in [Session -> SessionState] /\ s \notin Active
         /\ ses'[s].pc = "move" /\ ses'[s].t = t /\ ses'[s].p = row[Primary[t]]
         /\ ses'[s].q = row[Secondary[t]] /\ ses'[s].psub = SubOf(Primary[t])
         /\ ses'[s].qsub = SubOf(Secondary[t]) /\ ses'[s].cleared = {} /\ ses'[s].put = {}
         /\ ses'[s].dirty = {} /\ ~ ses'[s].moved
         /\ ses'[s].alone <=> \A r \in Active : ~ Overlaps(r, t)
         /\ \A r \in Session \ {s} :
              Stands(r) /\ (r \in Active /\ Overlaps(r, t) => ~ ses'[r].alone)
<1> DEFINE p == Primary[t]  q == Secondary[t]
           others == {r \in Active : Overlaps(r, t)}
           new == [Idle EXCEPT !.pc = "move", !.t = t, !.keep = keep,
                     !.p = row[p], !.q = row[q], !.psub = SubOf(p), !.qsub = SubOf(q),
                     !.alone = others = {}]
<1>1. p \in User /\ q \in User /\ row[p] \in Row /\ row[q] \in Row
      /\ ses \in [Session -> SessionState]
  BY TokenAssumption DEF TypeInv, TypeOK
<1>2. ses[s] = Idle /\ ses' = [r \in Session |-> IF r = s THEN new
        ELSE IF r \in others THEN [ses[r] EXCEPT !.alone = FALSE] ELSE ses[r]]
  BY DEF Load
<1>3. SubOf(p) \in Subscribed \cup {None} /\ SubOf(q) \in Subscribed \cup {None}
  BY <1>1, SubIsTheirs
<1>4. new \in SessionState
  <2> HIDE DEF others
  <2> QED BY <1>1, <1>3 DEF Idle, NoRow, SessionState, Row
<1>5. /\ new.pc = "move" /\ new.t = t /\ new.p = row[p] /\ new.q = row[q]
      /\ new.psub = SubOf(p) /\ new.qsub = SubOf(q) /\ new.cleared = {} /\ new.put = {}
      /\ new.dirty = {} /\ ~ new.moved /\ (new.alone <=> others = {})
  <2> HIDE DEF others
  <2> QED BY DEF Idle
<1>6. ses'[s] = new
  BY <1>2
<1> HIDE DEF new
<1>7. ASSUME NEW r \in Session \ {s}
      PROVE  /\ ses'[r] \in SessionState /\ Stands(r)
             /\ r \in Active /\ Overlaps(r, t) => ~ ses'[r].alone
  <2>1. ses'[r] = IF r \in others THEN [ses[r] EXCEPT !.alone = FALSE] ELSE ses[r]
    BY <1>2
  <2>2. ses[r] \in SessionState
    BY <1>1
  <2>3. CASE r \in others
    <3>1. ses'[r] = [ses[r] EXCEPT !.alone = FALSE]
      BY <2>1, <2>3
    <3> QED BY <2>2, <3>1, CompanyMade DEF Stands
  <2>4. CASE r \notin others
    BY <2>1, <2>2, <2>4 DEF Stands
  <2> QED BY <2>3, <2>4
<1>8. ses' \in [Session -> SessionState]
  BY <1>2, <1>4, <1>6, <1>7
<1>9. s \notin Active
  BY <1>2, IdleTyped DEF Active
<1> QED
  BY <1>5, <1>6, <1>7, <1>8, <1>9

\* A row that was given other identities and another balance is a row.
LEMMA RowMade ==
  ASSUME NEW m \in Row, NEW id \in [Kind -> User \cup {None}], NEW money \in Int
  PROVE  [m EXCEPT !.id = id, !.money = money] \in Row
BY DEF Row

\* MoveIdentity takes what there is to move of the first group that has any.
LEMMA MoveStep ==
  ASSUME TypeInv, NEW s \in Session, MoveIdentity(s)
  PROVE  /\ ses' \in [Session -> SessionState] /\ s \in Active
         /\ \A r \in Session \ {s} : ses'[r] = ses[r]
         /\ ses'[s].pc = "move" /\ ses[s].pc = "move" /\ ses'[s].t = ses[s].t
         /\ ses'[s].psub = ses[s].psub /\ ses'[s].qsub = ses[s].qsub
         /\ ses'[s].moved = ses[s].moved /\ ses'[s].alone = ses[s].alone
         /\ ses'[s].q.money = ses[s].q.money
         /\ \E i \in Movable(s) :
              /\ \A j \in Movable(s) : i <= j
              /\ \A k \in Kind :
                   /\ ses'[s].p.id[k] =
                        IF k \in Group(s, i) THEN ses[s].q.id[k] ELSE ses[s].p.id[k]
                   /\ ses'[s].q.id[k] = IF k \in Group(s, i) THEN None ELSE ses[s].q.id[k]
              /\ ses'[s].cleared = ses[s].cleared \cup Group(s, i)
              /\ ses'[s].put = ses[s].put \cup Group(s, i) /\ ses'[s].dirty = Group(s, i)
<1> DEFINE i == Min(Movable(s))  G == Group(s, i)
<1>1. Movable(s) \in SUBSET Nat /\ Movable(s) # {} /\ ses[s].pc = "move"
  BY KindsPlaced DEF Movable, MoveIdentity
<1>2. i \in Movable(s) /\ \A j \in Movable(s) : i <= j
  BY <1>1, MinIsLeast
<1>3. G \subseteq Kind
  BY <1>2, KindsPlaced DEF Movable, Group
<1> DEFINE pid == [k \in Kind |-> IF k \in G THEN ses[s].q.id[k] ELSE ses[s].p.id[k]]
           qid == [k \in Kind |-> IF k \in G THEN None ELSE ses[s].q.id[k]]
<1>4. ses' = [ses EXCEPT ![s].p.id = pid, ![s].q.id = qid,
                         ![s].cleared = @ \cup G, ![s].put = @ \cup G, ![s].dirty = G]
  BY DEF MoveIdentity
<1>5. ses \in [Session -> SessionState] /\ ses[s].p \in Row /\ ses[s].q \in Row
  BY DEF TypeInv, TypeOK, SessionState
<1>6. /\ pid \in [Kind -> User \cup {None}] /\ qid \in [Kind -> User \cup {None}]
      /\ \A k \in Kind : /\ pid[k] = IF k \in G THEN ses[s].q.id[k] ELSE ses[s].p.id[k]
                         /\ qid[k] = IF k \in G THEN None ELSE ses[s].q.id[k]
  <2> HIDE DEF G
  <2> QED BY <1>5 DEF Row
<1> HIDE DEF i, G, pid, qid
<1> DEFINE pnew == [ses[s].p EXCEPT !.id = pid]
           qnew == [ses[s].q EXCEPT !.id = qid]
           cleared == ses[s].cleared \cup G
           put == ses[s].put \cup G
           new == [ses[s] EXCEPT !.p = pnew, !.q = qnew,
                     !.cleared = cleared, !.put = put, !.dirty = G]
<1>7. ses' = [ses EXCEPT ![s] = new]
  <2>1. ses' = [ses EXCEPT ![s] = ses'[s]]
    BY <1>4, <1>5
  <2>2. ses'[s] = new
    BY <1>4, <1>5
  <2> QED BY <2>1, <2>2
<1>8. /\ new \in SessionState /\ new.pc = ses[s].pc /\ new.t = ses[s].t
      /\ new.psub = ses[s].psub /\ new.qsub = ses[s].qsub /\ new.moved = ses[s].moved
      /\ new.alone = ses[s].alone /\ new.cleared = cleared /\ new.put = put /\ new.dirty = G
      /\ new.p.id = pid /\ new.q.id = qid /\ new.q.money = ses[s].q.money
  <2>1. pnew \in Row /\ pnew.id = pid /\ qnew \in Row /\ qnew.id = qid
        /\ qnew.money = ses[s].q.money
    BY <1>5, <1>6 DEF Row
  <2>2. cleared \in SUBSET Kind /\ put \in SUBSET Kind /\ G \in SUBSET Kind
    BY <1>3, <1>5 DEF SessionState
  <2> HIDE DEF pnew, qnew, cleared, put
  <2>3. new \in SessionState
    <3> DEFINE one == [ses[s] EXCEPT !.p = pnew, !.q = qnew]
    <3>1. ses[s] \in SessionState
      BY <1>5
    <3>2. one \in SessionState
      BY <2>1, <3>1, RowsMade, Zenon
    <3>3. new = [one EXCEPT !.cleared = cleared, !.put = put, !.dirty = G]
      BY Zenon
    <3> HIDE DEF one
    <3> QED BY <2>2, <3>2, <3>3, MarksMade, Zenon
  <2> QED BY <1>5, <2>1, <2>3 DEF SessionState
<1> HIDE DEF new
<1>9. ses' \in [Session -> SessionState] /\ ses'[s] = new
      /\ \A r \in Session \ {s} : ses'[r] = ses[r]
  BY <1>5, <1>7, <1>8
<1> QED
  BY <1>1, <1>2, <1>6, <1>8, <1>9 DEF i, G, Active

\* LockPrimary reads the primary again and keeps what was flushed.
LEMMA PrimaryStep ==
  ASSUME TypeInv, NEW s \in Session, LockPrimary(s)
  PROVE  /\ ses' \in [Session -> SessionState] /\ s \in Active
         /\ \A r \in Session \ {s} : ses'[r] = ses[r]
         /\ ses[s].pc = "move" /\ Movable(s) = {} /\ ses'[s].pc = "second"
         /\ ses'[s].t = ses[s].t /\ ses'[s].psub = SubOf(P(s)) /\ ses'[s].qsub = ses[s].qsub
         /\ ses'[s].alone = ses[s].alone /\ ses'[s].cleared = ses[s].cleared
         /\ ses'[s].put = ses[s].put \ ses[s].dirty /\ ses'[s].p.money = row[P(s)].money
         /\ \A k \in Kind : ses'[s].p.id[k] =
              IF k \in ses'[s].put THEN ses[s].p.id[k] ELSE row[P(s)].id[k]
<1> DEFINE kept == Flushed(s)
           id == [k \in Kind |-> IF k \in kept THEN ses[s].p.id[k] ELSE row[P(s)].id[k]]
           pnew == [row[P(s)] EXCEPT !.id = id]
           new == [ses[s] EXCEPT !.pc = "second", !.p = pnew,
                     !.psub = SubOf(P(s)), !.put = kept, !.dirty = {}]
<1>1. ses[s].pc = "move" /\ Movable(s) = {} /\ s \in Active
  BY DEF LockPrimary, Active
<1>2. ses \in [Session -> SessionState] /\ ses[s].p \in Row /\ row[P(s)] \in Row
  BY <1>1, TwoUsers DEF TypeInv, TypeOK, SessionState
<1>3. ses' = [ses EXCEPT ![s] = new]
  BY <1>2 DEF LockPrimary, SessionState
<1>4. id \in [Kind -> User \cup {None}]
  BY <1>2 DEF Row
<1>5. pnew \in Row /\ pnew.id = id /\ pnew.money = row[P(s)].money
  <2> HIDE DEF id
  <2> QED BY <1>2, <1>4 DEF Row
<1>6. SubOf(P(s)) \in Subscribed \cup {None}
  BY <1>1, TwoUsers, SubIsTheirs
<1>7. /\ new \in SessionState /\ new.pc = "second" /\ new.t = ses[s].t
      /\ new.psub = SubOf(P(s)) /\ new.qsub = ses[s].qsub /\ new.alone = ses[s].alone
      /\ new.cleared = ses[s].cleared /\ new.put = kept /\ new.p = pnew
  <2>1. kept \subseteq Kind
    BY <1>2 DEF SessionState, Flushed
  <2>2. pnew \in Row
    BY <1>5
  <2> HIDE DEF kept, pnew
  <2>3. new \in SessionState
    <3>1. ses[s] \in SessionState
      BY <1>2
    <3> QED BY <1>6, <2>1, <2>2, <3>1, FirstMade, Zenon
  <2> QED BY <1>2, <2>3 DEF SessionState
<1>8. ses' \in [Session -> SessionState] /\ ses'[s] = new
      /\ \A r \in Session \ {s} : ses'[r] = ses[r]
  <2> HIDE DEF new
  <2> QED BY <1>2, <1>3, <1>7
<1> HIDE DEF new, pnew
<1> QED
  BY <1>1, <1>5, <1>7, <1>8 DEF Flushed

\* LockSecondary reads the secondary again and takes its money.
LEMMA SecondMade ==
  ASSUME NEW m \in SessionState, NEW p \in Row, NEW q \in Row, NEW x \in Subscribed \cup {None}
  PROVE  [m EXCEPT !.pc = "finish", !.moved = TRUE, !.p = p, !.q = q, !.qsub = x] \in SessionState
BY DEF SessionState

LEMMA SecondaryStep ==
  ASSUME TypeInv, NEW s \in Session, LockSecondary(s)
  PROVE  /\ ses' \in [Session -> SessionState] /\ s \in Active
         /\ \A r \in Session \ {s} : ses'[r] = ses[r]
         /\ ses[s].pc = "second" /\ ses'[s].pc = "finish" /\ ses'[s].moved
         /\ ses'[s].t = ses[s].t /\ ses'[s].psub = ses[s].psub /\ ses'[s].qsub = SubOf(Q(s))
         /\ ses'[s].alone = ses[s].alone /\ ses'[s].cleared = ses[s].cleared
         /\ ses'[s].put = ses[s].put /\ ses'[s].p.id = ses[s].p.id
         /\ ses'[s].p.money = ses[s].p.money + row[Q(s)].money
<1> DEFINE id == [k \in Kind |-> IF k \in ses[s].cleared THEN None ELSE row[Q(s)].id[k]]
           money == ses[s].p.money + Transferred(s)
           pnew == [ses[s].p EXCEPT !.money = money]
           qnew == [row[Q(s)] EXCEPT !.id = id, !.money = 0]
           new == [ses[s] EXCEPT !.pc = "finish", !.moved = TRUE,
                     !.p = pnew, !.q = qnew, !.qsub = SubOf(Q(s))]
<1>1. ses[s].pc = "second" /\ s \in Active
  BY DEF LockSecondary, Active
<1>2. ses \in [Session -> SessionState] /\ ses[s].p \in Row /\ row[Q(s)] \in Row
  BY <1>1, TwoUsers DEF TypeInv, TypeOK, SessionState
<1>3. ses' = [ses EXCEPT ![s] = new]
  <2>1. ses' = [ses EXCEPT ![s].pc = "finish", ![s].moved = TRUE,
                           ![s].p.money = @ + Transferred(s), ![s].q = qnew,
                           ![s].qsub = SubOf(Q(s))]
    BY DEF LockSecondary
  <2>2. ses' = [ses EXCEPT ![s] = ses'[s]]
    <3> HIDE DEF qnew
    <3> QED BY <1>2, <2>1
  <2>3. ses'[s] = new
    BY <1>2 DEF LockSecondary
  <2> QED BY <2>2, <2>3
<1>4. id \in [Kind -> User \cup {None}] /\ money \in Int /\ 0 \in Int
  BY <1>2 DEF Row, Transferred
<1>5. qnew \in Row /\ pnew \in Row /\ pnew.id = ses[s].p.id /\ pnew.money = money
  <2> HIDE DEF id, money
  <2>1. qnew \in Row
    BY <1>2, <1>4, RowMade, Zenon
  <2>2. pnew \in Row /\ pnew.id = ses[s].p.id /\ pnew.money = money
    BY <1>2, <1>4 DEF Row
  <2> QED BY <2>1, <2>2
<1>6. SubOf(Q(s)) \in Subscribed \cup {None}
  BY <1>1, TwoUsers, SubIsTheirs
<1>7. /\ new \in SessionState /\ new.pc = "finish" /\ new.moved /\ new.t = ses[s].t
      /\ new.psub = ses[s].psub /\ new.qsub = SubOf(Q(s)) /\ new.alone = ses[s].alone
      /\ new.cleared = ses[s].cleared /\ new.put = ses[s].put /\ new.p = pnew
  <2> HIDE DEF pnew, qnew
  <2>1. new \in SessionState
    BY <1>2, <1>5, <1>6, SecondMade, Zenon
  <2>2. /\ new.pc = "finish" /\ new.moved /\ new.t = ses[s].t
        /\ new.psub = ses[s].psub /\ new.qsub = SubOf(Q(s)) /\ new.alone = ses[s].alone
        /\ new.cleared = ses[s].cleared /\ new.put = ses[s].put /\ new.p = pnew
    BY <1>2 DEF SessionState
  <2> QED BY <1>5, <2>1, <2>2
<1>8. ses' \in [Session -> SessionState] /\ ses'[s] = new
      /\ \A r \in Session \ {s} : ses'[r] = ses[r]
  <2> HIDE DEF new
  <2> QED BY <1>2, <1>3, <1>7
<1> HIDE DEF new, pnew
<1> QED
  BY <1>1, <1>5, <1>7, <1>8 DEF Transferred

\* A merge that ends leaves its session idle and the others as they are.
LEMMA EndStep ==
  ASSUME TypeInv, NEW s \in Session, ses' = [ses EXCEPT ![s] = Idle]
  PROVE  /\ ses' \in [Session -> SessionState] /\ ses'[s].pc = "idle"
         /\ \A r \in Session \ {s} : ses'[r] = ses[r]
BY IdleTyped DEF TypeInv, TypeOK

\* A payment changes one balance.
LEMMA CreditRows ==
  ASSUME TypeInv, NEW x \in Payment, Credit(x)
  PROVE  /\ credit[x] \in User /\ row' \in [User -> Row]
         /\ \A u \in User \ {credit[x]} : row'[u] = row[u]
         /\ \A u \in User : row'[u].id = row[u].id /\ row'[u].deleted = row[u].deleted
<1> DEFINE c == credit[x]  n == row[c].money + 1  new == [row[c] EXCEPT !.money = n]
<1>1. c \in User /\ row \in [User -> Row]
  BY DEF Credit, TypeInv, TypeOK
<1>2. row' = [row EXCEPT ![c] = new]
  BY <1>1 DEF Credit
<1>3. n \in Int
  BY <1>1 DEF Row
<1>4. new \in Row /\ new.id = row[c].id /\ new.deleted = row[c].deleted
  <2> HIDE DEF n, c
  <2> QED BY <1>1, <1>3 DEF Row
<1> HIDE DEF new, c
<1>5. row' \in [User -> Row] /\ row'[c] = new /\ \A u \in User \ {c} : row'[u] = row[u]
  BY <1>1, <1>2, <1>4
<1>6. \A u \in User : row'[u].id = row[u].id /\ row'[u].deleted = row[u].deleted
  BY <1>4, <1>5
<1> QED
  BY <1>1, <1>5, <1>6 DEF c

\* What the commit of a merge writes in the rows.
LEMMA FinishRows ==
  ASSUME TypeInv, NEW s \in Session, Finish(s)
  PROVE  /\ s \in Active /\ row' \in [User -> Row]
         /\ \A u \in User \ {P(s), Q(s)} : row'[u] = row[u]
         /\ \A k \in Kind : row'[P(s)].id[k] =
              IF k \in ses[s].put THEN ses[s].p.id[k] ELSE row[P(s)].id[k]
         /\ row'[P(s)].money = IF ses[s].moved THEN ses[s].p.money ELSE row[P(s)].money
         /\ row'[P(s)].deleted = row[P(s)].deleted
         /\ row'[Q(s)].money = IF ses[s].moved THEN 0 ELSE row[Q(s)].money
         /\ row'[Q(s)].deleted
<1> DEFINE p == P(s)  q == Q(s)  m == ses[s]
           pid == [k \in Kind |-> IF k \in m.put THEN m.p.id[k] ELSE row[p].id[k]]
           qid == [k \in Kind |->
                     IF k \in m.cleared \/ m.q.id[k] # None THEN None ELSE row[q].id[k]]
           pmoney == IF m.moved THEN m.p.money ELSE row[p].money
           qmoney == IF m.moved THEN 0 ELSE row[q].money
           pnew == [row[p] EXCEPT !.id = pid, !.money = pmoney]
           qnew == [row[q] EXCEPT !.id = qid, !.money = qmoney, !.deleted = TRUE]
<1>1. s \in Active
  BY DEF Finish, Ready, Active
<1>2. p \in User /\ q \in User /\ p # q /\ m \in SessionState /\ row \in [User -> Row]
  BY <1>1, TwoUsers DEF TypeInv, TypeOK
<1>3. row[p] \in Row /\ row[q] \in Row /\ m.p \in Row /\ m.q \in Row /\ m.moved \in BOOLEAN
  BY <1>2 DEF SessionState
<1>4. row' = [row EXCEPT ![p].id = [k \in Kind |-> IF k \in m.put THEN m.p.id[k] ELSE @[k]],
                         ![p].money = IF m.moved THEN m.p.money ELSE @,
                         ![q].id = [k \in Kind |-> IF k \in m.cleared \/ m.q.id[k] # None
                                                   THEN None ELSE @[k]],
                         ![q].money = IF m.moved THEN 0 ELSE @,
                         ![q].deleted = TRUE]
  BY DEF Finish
<1> HIDE DEF p, q, m
<1>5. pid \in [Kind -> User \cup {None}] /\ qid \in [Kind -> User \cup {None}]
      /\ pmoney \in Int /\ qmoney \in Int
  BY <1>3 DEF Row
<1>6. row' = [row EXCEPT ![p] = pnew, ![q] = qnew]
  <2>1. \A u \in User \ {p, q} : row'[u] = row[u]
    BY <1>2, <1>4
  <2>2. row'[p] = pnew
    BY <1>2, <1>3, <1>4 DEF Row
  <2>3. row'[q] = qnew
    BY <1>2, <1>3, <1>4 DEF Row
  <2>4. row' = [u \in User |-> row'[u]]
    BY <1>2, <1>4
  <2> HIDE DEF pnew, qnew
  <2> QED BY <1>2, <2>1, <2>2, <2>3, <2>4
<1>7. pnew \in Row /\ pnew.id = pid /\ pnew.money = pmoney /\ pnew.deleted = row[p].deleted
  <2> HIDE DEF pid, pmoney
  <2> QED BY <1>3, <1>5 DEF Row
<1>8. qnew \in Row /\ qnew.money = qmoney /\ qnew.deleted
  <2> HIDE DEF qid, qmoney
  <2> QED BY <1>3, <1>5 DEF Row
<1> HIDE DEF pnew, qnew
<1>9. row' \in [User -> Row] /\ row'[p] = pnew /\ row'[q] = qnew
      /\ \A u \in User \ {p, q} : row'[u] = row[u]
  BY <1>2, <1>6, <1>7, <1>8
<1> QED
  BY <1>1, <1>7, <1>8, <1>9 DEF p, q, m

\* Where the subscriptions are after the commit of a merge.
LEMMA FinishSubs ==
  ASSUME TypeInv, NEW s \in Session, Finish(s)
  PROVE  /\ owner' \in [Subscribed -> User \cup {None}]
         /\ \A x \in Subscribed \ {ses[s].psub, ses[s].qsub} : owner'[x] = owner[x]
         /\ \A x \in Subscribed : owner'[x] \in {owner[x], P(s), None}
         /\ KeepsOwn(s) => \A x \in Subscribed : owner'[x] =
              IF x = ses[s].qsub /\ ses[s].psub # None THEN None ELSE owner[x]
         /\ ~ KeepsOwn(s) => /\ \A x \in Subscribed : owner'[x] =
                                  IF x = ses[s].qsub THEN P(s)
                                  ELSE IF x = ses[s].psub THEN None ELSE owner[x]
                             /\ ses[s].qsub \in Subscribed
<1>1. s \in Active
  BY DEF Finish, Ready, Active
<1>2. P(s) \in User /\ owner \in [Subscribed -> User \cup {None}]
  BY <1>1, TwoUsers DEF TypeInv, TypeOK
<1>3. owner' = MergedSubs(s) /\ (~ KeepsOwn(s) => ses[s].qsub \in Subscribed)
  BY DEF Finish
<1>4. CASE KeepsOwn(s)
  BY <1>2, <1>3, <1>4 DEF MergedSubs
<1>5. CASE ~ KeepsOwn(s)
  BY <1>2, <1>3, <1>5 DEF MergedSubs
<1> QED
  BY <1>4, <1>5

-----------------------------------------------------------------------------
(* The types.                                                               *)

LEMMA InitTypes == Init => TypeInv
<1> SUFFICES ASSUME Init PROVE TypeInv
  OBVIOUS
<1>1. row \in [User -> Row]
  BY StartAssumption DEF Init, Row
<1>2. ses \in [Session -> SessionState] /\ Active = {}
  BY IdleTyped DEF Init, Active
<1>3. owner \in [Subscribed -> User \cup {None}]
  BY UserAssumption DEF Init
<1>4. restored \in [Token -> 0..MaxRestores] /\ token \in [Token -> {"valid", "consumed"}]
  BY SessionAssumption DEF Init
<1>5. /\ payer \in [Payment -> User] /\ credit \in [Payment -> User \cup {None}]
      /\ paid \subseteq Payment /\ late \subseteq User /\ lock \in [User -> Session \cup {None}]
  BY StartAssumption DEF Init
<1> QED
  BY <1>1, <1>2, <1>3, <1>4, <1>5 DEF TypeInv, TypeOK

LEMMA LockTypes ==
  ASSUME TypeInv, NEW s \in Session
  PROVE  /\ Released(s) \in [User -> Session \cup {None}]
         /\ \A us : Take(s, us) => lock' \in [User -> Session \cup {None}]
BY DEF TypeInv, TypeOK, Released, Take

LEMMA TokenTypes ==
  ASSUME TypeInv, NEW t \in Token
  PROVE  /\ Consume(t) => token' \in [Token -> {"valid", "consumed"}]
         /\ Restorable(t) => [restored EXCEPT ![t] = @ + 1] \in [Token -> 0..MaxRestores]
BY SessionAssumption DEF TypeInv, TypeOK, Consume, Restorable

LEMMA TypeStep == TypeInv /\ [Next]_vars => TypeInv'
<1> SUFFICES ASSUME TypeInv, [Next]_vars PROVE TypeInv'
  OBVIOUS
<1>1. ASSUME NEW x \in Payment, ReadPayer(x) PROVE TypeInv'
  BY <1>1 DEF ReadPayer, TypeInv, TypeOK, Active
<1>2. ASSUME NEW x \in Payment, Credit(x) PROVE TypeInv'
  <2>1. credit[x] \in User
    BY <1>2 DEF Credit, TypeInv, TypeOK
  <2>2. row' \in [User -> Row]
    BY <1>2, CreditRows
  <2>3. late' \subseteq User /\ paid' \subseteq Payment
    BY <1>2, <2>1 DEF Credit, Arrives, TypeInv, TypeOK
  <2> QED BY <1>2, <2>2, <2>3 DEF Credit, TypeInv, TypeOK, Active
<1>3. ASSUME NEW t \in Token, NEW named \in BOOLEAN, Refuse(t, named) PROVE TypeInv'
  <2>1. restored' \in [Token -> 0..MaxRestores] /\ token' \in [Token -> {"valid", "consumed"}]
    <3>1. CASE Restorable(t)
      BY <1>3, <3>1, TokenTypes DEF Refuse, TypeInv, TypeOK
    <3>2. CASE ~ Restorable(t)
      BY <1>3, <3>2, TokenTypes DEF Refuse, TypeInv, TypeOK
    <3> QED BY <3>1, <3>2
  <2> QED BY <1>3, <2>1 DEF Refuse, TypeInv, TypeOK, Active
<1>4. ASSUME NEW s \in Session, NEW t \in Token, NEW keep \in {"primary", "secondary"},
             Load(s, t, keep)
      PROVE  TypeInv'
  <2>1. /\ ses' \in [Session -> SessionState] /\ ses'[s].t \in Token
        /\ \A r \in Session \ {s} : ses'[r].pc = ses[r].pc /\ ses'[r].t = ses[r].t
    BY <1>4, LoadStep DEF Stands
  <2>2. \A r \in Active' : ses'[r].t \in Token
    BY <2>1 DEF TypeInv, Active
  <2>3. token' \in [Token -> {"valid", "consumed"}]
    BY <1>4, TokenTypes DEF Load
  <2> QED BY <1>4, <2>1, <2>2, <2>3 DEF Load, TypeInv, TypeOK
<1>5. ASSUME NEW s \in Session, MoveIdentity(s) \/ LockPrimary(s) \/ LockSecondary(s)
      PROVE  TypeInv'
  <2>1. /\ ses' \in [Session -> SessionState] /\ s \in Active /\ ses'[s].t = ses[s].t
        /\ \A r \in Session \ {s} : ses'[r] = ses[r]
    BY <1>5, MoveStep, PrimaryStep, SecondaryStep
  <2>2. \A r \in Active' : ses'[r].t \in Token
    BY <2>1 DEF TypeInv, Active
  <2>3. lock' \in [User -> Session \cup {None}]
    BY <1>5, LockTypes DEF MoveIdentity, LockPrimary, LockSecondary
  <2> QED BY <1>5, <2>1, <2>2, <2>3
          DEF MoveIdentity, LockPrimary, LockSecondary, TypeInv, TypeOK
<1>6. ASSUME NEW s \in Session, ses' = [ses EXCEPT ![s] = Idle]
      PROVE  ses' \in [Session -> SessionState] /\ \A r \in Active' : ses'[r].t \in Token
  BY <1>6, EndStep DEF TypeInv, Active
<1>7. ASSUME NEW s \in Session, Finish(s) PROVE TypeInv'
  <2>1. row' \in [User -> Row] /\ owner' \in [Subscribed -> User \cup {None}] /\ s \in Active
    BY <1>7, FinishRows, FinishSubs
  <2>2. P(s) \in User
    BY <2>1, TwoUsers
  <2>3. payer' \in [Payment -> User] /\ late' \subseteq User
    BY <1>7, <2>2 DEF Finish, Arrives, TypeInv, TypeOK
  <2>4. lock' \in [User -> Session \cup {None}]
    BY <1>7, LockTypes DEF Finish
  <2>5. ses' = [ses EXCEPT ![s] = Idle]
    BY <1>7 DEF Finish
  <2> QED BY <1>6, <1>7, <2>1, <2>3, <2>4, <2>5 DEF Finish, TypeInv, TypeOK
<1>8. ASSUME NEW s \in Session, Fail(s) PROVE TypeInv'
  <2>1. ses[s].t \in Token
    BY <1>8 DEF Fail, TypeInv
  <2>2. restored' \in [Token -> 0..MaxRestores] /\ token' \in [Token -> {"valid", "consumed"}]
    BY <1>8, <2>1, TokenTypes DEF Fail, Restore, TypeInv, TypeOK
  <2>3. lock' \in [User -> Session \cup {None}] /\ ses' = [ses EXCEPT ![s] = Idle]
    BY <1>8, LockTypes DEF Fail
  <2> QED BY <1>6, <1>8, <2>2, <2>3 DEF Fail, TypeInv, TypeOK
<1>9. ASSUME NEW s \in Session, Die(s) PROVE TypeInv'
  <2>1. lock' \in [User -> Session \cup {None}] /\ ses' = [ses EXCEPT ![s] = Idle]
    BY <1>9, LockTypes DEF Die
  <2> QED BY <1>6, <1>9, <2>1 DEF Die, TypeInv, TypeOK
<1>10. CASE UNCHANGED vars
  BY <1>10 DEF vars, TypeInv, TypeOK, Active
<1> QED
  BY <1>1, <1>2, <1>3, <1>4, <1>5, <1>7, <1>8, <1>9, <1>10 DEF Next

-----------------------------------------------------------------------------
(* No money is left on a deleted account, but what came late.               *)

\* Nothing changes for what a merge knows of money while the secondary's
\* balance stays, or is emptied, or the secondary is late.
LEMMA SeenStays ==
  ASSUME NEW s \in Session, Stands(s), MoneySeen(s), late \subseteq late',
         ses[s].pc = "move" /\ ses[s].q.money = 0 =>
           \/ row'[Q(s)].money = row[Q(s)].money \/ row'[Q(s)].money = 0 \/ Q(s) \in late'
  PROVE  MoneySeen(s)'
<1>1. Q(s)' = Q(s)
  BY DEF Stands, Q
<1>2. (ses[s].pc = "finish" => ses[s].moved)'
  BY DEF Stands, MoneySeen
<1>3. ASSUME ses'[s].pc = "move", ses'[s].q.money = 0, Q(s) \notin late'
      PROVE  row'[Q(s)].money = 0
  BY <1>3 DEF Stands, MoneySeen
<1> QED
  BY <1>1, <1>2, <1>3 DEF MoneySeen

\* The same for a step that writes no row.
LEMMA SeenUnwritten ==
  ASSUME NEW s \in Session, ses'[s] = ses[s], MoneySeen(s), UNCHANGED <<row, late>>
  PROVE  MoneySeen(s)'
BY DEF MoneySeen, Q

LEMMA MoneyStep ==
  ASSUME TypeInv, NoneStranded, \A s \in Session : MoneySeen(s), [Next]_vars
  PROVE  NoneStranded' /\ \A s \in Session : MoneySeen(s)'
<1>1. ASSUME UNCHANGED <<row, late, ses>>
      PROVE  NoneStranded' /\ \A s \in Session : MoneySeen(s)'
  BY <1>1, SeenUnwritten DEF NoneStranded
<1>2. ASSUME NEW x \in Payment, Credit(x)
      PROVE  NoneStranded' /\ \A s \in Session : MoneySeen(s)'
  <2> DEFINE c == credit[x]
  <2>1. c \in User /\ \A u \in User : row'[u].deleted = row[u].deleted
    BY <1>2, CreditRows
  <2>2. \A u \in User \ {c} : row'[u] = row[u]
    BY <1>2, CreditRows
  <2>3. late' = (IF Unseen(c) THEN late \cup {c} ELSE late) /\ ses' = ses
    BY <1>2 DEF Credit, Arrives
  <2> HIDE DEF c
  <2>4. NoneStranded'
    BY <2>1, <2>2, <2>3 DEF NoneStranded, Unseen
  <2>5. ASSUME NEW s \in Session PROVE MoneySeen(s)'
    <3>1. Stands(s) /\ late \subseteq late'
      BY <2>3 DEF Stands
    <3>2. ASSUME ses[s].pc = "move", ses[s].q.money = 0
          PROVE  row'[Q(s)].money = row[Q(s)].money \/ Q(s) \in late'
      <4>1. s \in Active
        BY <3>2 DEF Active
      <4>2. CASE Q(s) = c
        BY <2>3, <3>2, <4>1, <4>2 DEF Unseen
      <4>3. CASE Q(s) # c
        BY <2>2, <4>1, <4>3, TwoUsers
      <4> QED BY <4>2, <4>3
    <3> QED BY <3>1, <3>2, SeenStays
  <2> QED BY <2>4, <2>5
<1>3. ASSUME NEW s \in Session, NEW t \in Token, NEW keep \in {"primary", "secondary"},
             Load(s, t, keep)
      PROVE  NoneStranded' /\ \A r \in Session : MoneySeen(r)'
  <2>1. UNCHANGED <<row, late>>
    BY <1>3 DEF Load
  <2>2. MoneySeen(s)'
    BY <1>3, <2>1, LoadStep DEF MoneySeen, Q
  <2>3. ASSUME NEW r \in Session \ {s} PROVE MoneySeen(r)'
    <3>1. Stands(r)
      BY <1>3, LoadStep
    <3> QED BY <2>1, <3>1, SeenStays
  <2> QED BY <2>1, <2>2, <2>3 DEF NoneStranded
<1>4. ASSUME NEW s \in Session, MoveIdentity(s) \/ LockPrimary(s) \/ LockSecondary(s)
      PROVE  NoneStranded' /\ \A r \in Session : MoneySeen(r)'
  <2>1. UNCHANGED <<row, late>>
    BY <1>4 DEF MoveIdentity, LockPrimary, LockSecondary
  <2>2. MoneySeen(s)'
    <3>1. CASE MoveIdentity(s)
      BY <2>1, <3>1, MoveStep DEF MoneySeen, Q
    <3>2. CASE LockPrimary(s)
      BY <3>2, PrimaryStep DEF MoneySeen
    <3>3. CASE LockSecondary(s)
      BY <3>3, SecondaryStep DEF MoneySeen
    <3> QED BY <1>4, <3>1, <3>2, <3>3
  <2>3. ASSUME NEW r \in Session \ {s} PROVE MoneySeen(r)'
    <3>1. ses'[r] = ses[r]
      BY <1>4, MoveStep, PrimaryStep, SecondaryStep
    <3> QED BY <2>1, <3>1, SeenUnwritten
  <2> QED BY <2>1, <2>2, <2>3 DEF NoneStranded
<1>5. ASSUME NEW s \in Session, Finish(s)
      PROVE  NoneStranded' /\ \A r \in Session : MoneySeen(r)'
  <2> DEFINE p == P(s)  q == Q(s)
  <2>1. s \in Active /\ p \in User /\ q \in User /\ p # q
    BY <1>5, FinishRows, TwoUsers
  <2>2. /\ \A u \in User \ {p, q} : row'[u] = row[u]
        /\ row'[p].deleted = row[p].deleted
        /\ ~ ses[s].moved => row'[p].money = row[p].money /\ row'[q].money = row[q].money
        /\ ses[s].moved => row'[q].money = 0
    BY <1>5, FinishRows
  <2>3. late' = IF ses[s].moved /\ Unseen(p) THEN late \cup {p} ELSE late
    BY <1>5 DEF Finish, Arrives
  <2>4. ses'[s].pc = "idle" /\ \A r \in Session \ {s} : ses'[r] = ses[r]
    BY <1>5, EndStep DEF Finish
  <2>5. ~ ses[s].moved => ses[s].pc = "move" /\ ses[s].q.money = 0
    BY <1>5 DEF Finish, Ready, MoneySeen
  <2>6. q \notin late' => row'[q].money = 0
    BY <2>2, <2>3, <2>5 DEF MoneySeen
  <2> HIDE DEF p, q
  <2>7. row[p].deleted /\ p \notin late' => row'[p].money = 0
    BY <2>1, <2>2, <2>3 DEF NoneStranded, Unseen
  <2>8. NoneStranded'
    BY <2>1, <2>2, <2>3, <2>6, <2>7 DEF NoneStranded
  <2>9. ASSUME NEW r \in Session \ {s} PROVE MoneySeen(r)'
    <3>1. Stands(r) /\ late \subseteq late'
      BY <2>3, <2>4 DEF Stands
    <3>2. ASSUME ses[r].pc = "move", ses[r].q.money = 0
          PROVE  \/ row'[Q(r)].money = row[Q(r)].money \/ row'[Q(r)].money = 0
                 \/ Q(r) \in late'
      <4>1. r \in Active
        BY <3>2 DEF Active
      <4>2. CASE Q(r) = p
        BY <2>2, <2>3, <3>2, <4>1, <4>2 DEF Unseen
      <4>3. CASE Q(r) = q
        BY <2>2, <4>3
      <4>4. CASE Q(r) \notin {p, q}
        BY <2>2, <4>1, <4>4, TwoUsers
      <4> QED BY <4>2, <4>3, <4>4
    <3> QED BY <3>1, <3>2, SeenStays
  <2>10. MoneySeen(s)'
    BY <2>4 DEF MoneySeen
  <2> QED BY <2>8, <2>9, <2>10
<1>6. ASSUME NEW s \in Session, Fail(s) \/ Die(s)
      PROVE  NoneStranded' /\ \A r \in Session : MoneySeen(r)'
  <2>1. UNCHANGED <<row, late>> /\ ses' = [ses EXCEPT ![s] = Idle]
    BY <1>6 DEF Fail, Die
  <2>2. ses'[s].pc = "idle" /\ \A r \in Session \ {s} : ses'[r] = ses[r]
    BY <2>1, EndStep
  <2>3. MoneySeen(s)'
    BY <2>2 DEF MoneySeen
  <2>4. \A r \in Session \ {s} : MoneySeen(r)'
    BY <2>1, <2>2, SeenUnwritten
  <2> QED BY <2>1, <2>3, <2>4 DEF NoneStranded
<1>7. ASSUME \/ \E x \in Payment : ReadPayer(x)
             \/ \E t \in Token, named \in BOOLEAN : Refuse(t, named)
             \/ UNCHANGED vars
      PROVE  UNCHANGED <<row, late, ses>>
  BY <1>7 DEF ReadPayer, Refuse, vars
<1> QED
  BY <1>1, <1>2, <1>3, <1>4, <1>5, <1>6, <1>7 DEF Next

-----------------------------------------------------------------------------
(* Money is neither made nor lost.                                          *)

\* Whoever steps beside a merge leaves its users' locks and, as long as it has
\* the lock, their balances.
Beside(s) ==
  /\ Stands(s)
  /\ \A u \in User : lock[u] = s => lock'[u] = s /\ row'[u].money = row[u].money

LEMMA HeldStays ==
  ASSUME TypeInv, NEW s \in Session, MoneyHeld(s), Beside(s)
  PROVE  MoneyHeld(s)'
<1>1. P(s)' = P(s) /\ Q(s)' = Q(s)
  BY DEF Beside, Stands, P, Q
<1>2. CASE s \notin Active
  BY <1>2 DEF MoneyHeld, Beside, Stands, Active
<1>3. CASE s \in Active
  <2>1. P(s) \in User /\ Q(s) \in User
    BY <1>3, TwoUsers
  <2>2. /\ lock[P(s)] = s => lock'[P(s)] = s /\ row'[P(s)].money = row[P(s)].money
        /\ lock[Q(s)] = s => lock'[Q(s)] = s /\ row'[Q(s)].money = row[Q(s)].money
    BY <2>1 DEF Beside
  <2> QED BY <1>1, <2>2 DEF MoneyHeld, Beside, Stands
<1> QED
  BY <1>2, <1>3

LEMMA HeldStep ==
  ASSUME TypeInv, \A s \in Session : MoneyHeld(s), [Next]_vars
  PROVE  \A s \in Session : MoneyHeld(s)'
<1>1. ASSUME NEW x \in Payment, ReadPayer(x) \/ Credit(x), NEW s \in Session PROVE Beside(s)
  <2>1. CASE ReadPayer(x)
    BY <2>1 DEF ReadPayer, Beside, Stands
  <2>2. CASE Credit(x)
    <3>1. UNCHANGED <<ses, lock>> /\ lock[credit[x]] = None
      BY <2>2 DEF Credit
    <3>2. \A u \in User \ {credit[x]} : row'[u] = row[u]
      BY <2>2, CreditRows
    <3> QED BY <3>1, <3>2, SessionAssumption DEF Beside, Stands
  <2> QED BY <1>1, <2>1, <2>2
<1>2. ASSUME (\E t \in Token, named \in BOOLEAN : Refuse(t, named)) \/ UNCHANGED vars,
             NEW s \in Session
      PROVE  Beside(s)
  <2>1. UNCHANGED <<row, lock, ses>>
    BY <1>2 DEF Refuse, vars
  <2> QED BY <2>1 DEF Beside, Stands
<1>3. ASSUME NEW r \in Session, NEW t \in Token, NEW keep \in {"primary", "secondary"},
             Load(r, t, keep)
      PROVE  MoneyHeld(r)' /\ \A s \in Session \ {r} : Beside(s)
  <2>1. UNCHANGED <<row, lock>>
    BY <1>3 DEF Load
  <2>2. ses'[r].pc = "move" /\ ~ ses'[r].moved /\ \A s \in Session \ {r} : Stands(s)
    BY <1>3, LoadStep
  <2> QED BY <2>1, <2>2 DEF Beside, MoneyHeld
<1>4. ASSUME NEW r \in Session, NEW us, Take(r, us), UNCHANGED row, NEW s \in Session \ {r},
             ses'[s] = ses[s]
      PROVE  Beside(s)
  BY <1>4, SessionAssumption DEF Take, Free, Beside, Stands
<1>5. ASSUME NEW r \in Session, MoveIdentity(r)
      PROVE  MoneyHeld(r)' /\ \A s \in Session \ {r} : Beside(s)
  <2>1. /\ ses'[r].pc = "move" /\ ses[r].pc = "move" /\ ses'[r].moved = ses[r].moved
        /\ \A s \in Session \ {r} : ses'[s] = ses[s]
    BY <1>5, MoveStep
  <2>2. UNCHANGED row /\ \E us : Take(r, us)
    BY <1>5 DEF MoveIdentity
  <2>3. MoneyHeld(r)'
    BY <2>1 DEF MoneyHeld
  <2> QED BY <1>4, <2>1, <2>2, <2>3
<1>6. ASSUME NEW r \in Session, LockPrimary(r)
      PROVE  MoneyHeld(r)' /\ \A s \in Session \ {r} : Beside(s)
  <2>1. /\ r \in Active /\ ses'[r].pc = "second" /\ ses'[r].t = ses[r].t
        /\ ses'[r].p.money = row[P(r)].money /\ \A s \in Session \ {r} : ses'[s] = ses[s]
    BY <1>6, PrimaryStep
  <2>2. UNCHANGED row /\ Take(r, {P(r)})
    BY <1>6 DEF LockPrimary
  <2>3. P(r)' = P(r) /\ P(r) \in User
    BY <2>1, TwoUsers DEF P
  <2>4. MoneyHeld(r)'
    BY <2>1, <2>2, <2>3 DEF MoneyHeld, Take
  <2> QED BY <1>4, <2>1, <2>2, <2>4
<1>7. ASSUME NEW r \in Session, LockSecondary(r)
      PROVE  MoneyHeld(r)' /\ \A s \in Session \ {r} : Beside(s)
  <2>1. /\ r \in Active /\ ses[r].pc = "second" /\ ses'[r].pc = "finish" /\ ses'[r].t = ses[r].t
        /\ ses'[r].p.money = ses[r].p.money + row[Q(r)].money
        /\ \A s \in Session \ {r} : ses'[s] = ses[s]
    BY <1>7, SecondaryStep
  <2>2. UNCHANGED row /\ Take(r, {Q(r)})
    BY <1>7 DEF LockSecondary
  <2>3. P(r)' = P(r) /\ Q(r)' = Q(r) /\ P(r) \in User /\ Q(r) \in User
    BY <2>1, TwoUsers DEF P, Q
  <2>4. lock[P(r)] = r /\ ses[r].p.money = row[P(r)].money
    BY <2>1 DEF MoneyHeld
  <2>5. MoneyHeld(r)'
    BY <2>1, <2>2, <2>3, <2>4 DEF MoneyHeld, Take
  <2> QED BY <1>4, <2>1, <2>2, <2>5
<1>8. ASSUME NEW r \in Session, Finish(r) \/ Fail(r) \/ Die(r)
      PROVE  MoneyHeld(r)' /\ \A s \in Session \ {r} : Beside(s)
  <2>1. lock' = Released(r) /\ ses' = [ses EXCEPT ![r] = Idle]
    BY <1>8 DEF Finish, Fail, Die
  <2>2. ses'[r].pc = "idle" /\ \A s \in Session \ {r} : ses'[s] = ses[s]
    BY <2>1, EndStep
  <2>3. MoneyHeld(r)'
    BY <2>2 DEF MoneyHeld
  <2>4. ASSUME NEW s \in Session \ {r}, NEW u \in User, lock[u] = s
        PROVE  row'[u].money = row[u].money
    <3>1. CASE Fail(r) \/ Die(r)
      BY <3>1 DEF Fail, Die
    <3>2. CASE Finish(r)
      <4>1. /\ \A v \in User \ {P(r), Q(r)} : row'[v] = row[v]
            /\ ~ ses[r].moved => /\ row'[P(r)].money = row[P(r)].money
                                 /\ row'[Q(r)].money = row[Q(r)].money
        BY <3>2, FinishRows
      <4>2. Free(r, {Q(r)} \cup IF ses[r].moved \/ ses[r].dirty # {} THEN {P(r)} ELSE {})
        BY <3>2 DEF Finish
      <4>3. ses[r].moved => u \notin {P(r), Q(r)}
        BY <2>4, <4>2, SessionAssumption DEF Free
      <4> QED BY <4>1, <4>3
    <3> QED BY <1>8, <3>1, <3>2
  <2>5. \A s \in Session \ {r} : Beside(s)
    BY <2>1, <2>2, <2>4 DEF Beside, Stands, Released
  <2> QED BY <2>3, <2>5
<1>9. CASE \E x \in Payment : ReadPayer(x) \/ Credit(x)
  BY <1>1, <1>9, HeldStays
<1>10. CASE (\E t \in Token, named \in BOOLEAN : Refuse(t, named)) \/ UNCHANGED vars
  BY <1>2, <1>10, HeldStays
<1>11. ASSUME NEW r \in Session, MoneyHeld(r)', \A s \in Session \ {r} : Beside(s)
       PROVE  \A s \in Session : MoneyHeld(s)'
  BY <1>11, HeldStays
<1> QED
  BY <1>3, <1>5, <1>6, <1>7, <1>8, <1>9, <1>10, <1>11 DEF Next

Money == [u \in User |-> row[u].money]

LEMMA SumIsOver == \A f : Sum(f) = SumOver(f, User)
BY Zenon DEF Sum, SumOver

\* A commit moves money between its two users.
LEMMA FinishMoney ==
  ASSUME TypeInv, NEW s \in Session, MoneyHeld(s), Finish(s)
  PROVE  SumOver(Money, User)' = SumOver(Money, User)
<1> DEFINE p == P(s)  q == Q(s)
<1>1. /\ p \in User /\ q \in User /\ p # q /\ row' \in [User -> Row] /\ row \in [User -> Row]
      /\ \A u \in User \ {p, q} : row'[u] = row[u]
      /\ row'[p].money = IF ses[s].moved THEN ses[s].p.money ELSE row[p].money
      /\ row'[q].money = IF ses[s].moved THEN 0 ELSE row[q].money
  BY FinishRows, TwoUsers DEF TypeInv, TypeOK
<1>2. ses[s].moved => ses[s].p.money = row[p].money + row[q].money
  BY DEF MoneyHeld, Finish, Ready
<1> HIDE DEF p, q
<1>3. \A u \in User : row[u].money \in Int /\ row'[u].money \in Int
  BY <1>1 DEF Row
<1>4. row'[p].money + row'[q].money = row[p].money + row[q].money
  BY <1>1, <1>2, <1>3
<1> DEFINE a == [u \in User |-> row[u].money]
           c == [u \in User |-> row'[u].money]
           b == [u \in User |-> IF u = p THEN row'[p].money ELSE row[u].money]
<1>5. /\ \A u \in User : a[u] \in Int /\ b[u] \in Int /\ c[u] \in Int
      /\ \A u \in User \ {p} : b[u] = a[u]
      /\ \A u \in User \ {q} : c[u] = b[u]
      /\ b[p] - a[p] = a[q] - c[q] /\ b[q] = a[q]
  BY <1>1, <1>3, <1>4
<1>6. SumOver(Money, User) = SumOver(a, User) /\ SumOver(Money, User)' = SumOver(c, User)
  BY DEF Money
<1> HIDE DEF a, b, c
<1>7. SumOver(b, User) = SumOver(a, User) + b[p] - a[p]
  BY <1>1, <1>5, SumChange, UserAssumption
<1>8. SumOver(c, User) = SumOver(b, User) + c[q] - b[q]
  BY <1>1, <1>5, SumChange, UserAssumption
<1>9. SumOver(a, User) \in Int
  BY <1>5, SumType, UserAssumption
<1> QED
  BY <1>1, <1>5, <1>6, <1>7, <1>8, <1>9

\* A payment adds its unit.
LEMMA CreditMoney ==
  ASSUME TypeInv, NEW x \in Payment, Credit(x)
  PROVE  SumOver(Money, User)' = SumOver(Money, User) + 1 /\ Cardinality(paid') = Cardinality(paid) + 1
<1> DEFINE c == credit[x]
<1>1. /\ c \in User /\ row' \in [User -> Row] /\ row \in [User -> Row]
      /\ \A u \in User \ {c} : row'[u] = row[u]
  BY CreditRows DEF TypeInv, TypeOK
<1>2. row'[c].money = row[c].money + 1
  BY <1>1 DEF Credit, Row
<1>3. x \notin paid /\ paid' = paid \cup {x} /\ IsFiniteSet(paid)
  BY FS_Subset, UserAssumption DEF Credit, TypeInv, TypeOK
<1>4. Cardinality(paid') = Cardinality(paid) + 1
  BY <1>3, FS_AddElement
<1> HIDE DEF c
<1>5. \A u \in User : row[u].money \in Int /\ row'[u].money \in Int
  BY <1>1 DEF Row
<1> DEFINE a == [u \in User |-> row[u].money]
           b == [u \in User |-> row'[u].money]
<1>6. /\ \A u \in User : a[u] \in Int /\ b[u] \in Int
      /\ \A u \in User \ {c} : b[u] = a[u]
      /\ b[c] = a[c] + 1
  BY <1>1, <1>2, <1>5
<1>7. SumOver(Money, User) = SumOver(a, User) /\ SumOver(Money, User)' = SumOver(b, User)
  BY DEF Money
<1> HIDE DEF a, b
<1>8. SumOver(b, User) = SumOver(a, User) + b[c] - a[c]
  BY <1>1, <1>6, SumChange, UserAssumption
<1>9. SumOver(a, User) \in Int
  BY <1>6, SumType, UserAssumption
<1> QED
  BY <1>1, <1>4, <1>6, <1>7, <1>8, <1>9

\* What there is on the accounts is what there was and what was paid.
Balanced == SumOver(Money, User) = SumOver(StartMoney, User) + Cardinality(paid)

LEMMA BalancedStep ==
  ASSUME TypeInv, \A s \in Session : MoneyHeld(s), Balanced, [Next]_vars
  PROVE  Balanced'
<1>1. ASSUME UNCHANGED <<row, paid>> PROVE Balanced'
  <2>1. SumOver(Money, User)' = SumOver(Money, User)
    BY <1>1 DEF Money
  <2> QED BY <1>1, <2>1 DEF Balanced
<1>2. ASSUME NEW s \in Session, Finish(s) PROVE Balanced'
  <2>1. SumOver(Money, User)' = SumOver(Money, User) /\ UNCHANGED paid
    BY <1>2, FinishMoney DEF Finish
  <2> QED BY <2>1 DEF Balanced
<1>3. ASSUME NEW x \in Payment, Credit(x) PROVE Balanced'
  <2>1. SumOver(Money, User)' = SumOver(Money, User) + 1 /\ Cardinality(paid') = Cardinality(paid) + 1
    BY <1>3, CreditMoney
  <2>2. SumOver(StartMoney, User) \in Int /\ Cardinality(paid) \in Nat
    <3>1. IsFiniteSet(paid)
      BY FS_Subset, UserAssumption DEF TypeInv, TypeOK
    <3>2. \A u \in User : StartMoney[u] \in Int
      BY StartAssumption
    <3> QED BY <3>1, <3>2, SumType, FS_CardinalityType, UserAssumption
  <2> QED BY <2>1, <2>2 DEF Balanced
<1>4. ASSUME NEW x \in Payment, ReadPayer(x) PROVE UNCHANGED <<row, paid>>
  BY <1>4 DEF ReadPayer
<1>5. ASSUME NEW t \in Token, NEW named \in BOOLEAN, Refuse(t, named)
      PROVE  UNCHANGED <<row, paid>>
  BY <1>5 DEF Refuse
<1>6. ASSUME NEW s \in Session, NEW t \in Token, NEW keep \in {"primary", "secondary"},
             Load(s, t, keep)
      PROVE  UNCHANGED <<row, paid>>
  BY <1>6 DEF Load
<1>7. ASSUME NEW s \in Session, MoveIdentity(s) \/ LockPrimary(s) \/ LockSecondary(s)
                                \/ Fail(s) \/ Die(s)
      PROVE  UNCHANGED <<row, paid>>
  BY <1>7 DEF MoveIdentity, LockPrimary, LockSecondary, Fail, Die
<1>8. ASSUME UNCHANGED vars PROVE UNCHANGED <<row, paid>>
  BY <1>8 DEF vars
<1> QED
  BY <1>1, <1>2, <1>3, <1>4, <1>5, <1>6, <1>7, <1>8 DEF Next

-----------------------------------------------------------------------------
(* A merge that is alone knows its accounts.                                *)

\* A step of somebody else does not touch the merge of s: neither the users'
\* identities nor who of them lives, nor which subscriptions are theirs.
Spared(s) ==
  /\ Stands(s)
  /\ row'[P(s)].id = row[P(s)].id /\ row'[P(s)].deleted = row[P(s)].deleted
  /\ row'[Q(s)].id = row[Q(s)].id
  /\ \A x \in Subscribed : (owner'[x] = P(s) <=> owner[x] = P(s))
                           /\ (owner'[x] = Q(s) <=> owner[x] = Q(s))

LEMMA SparedUsers ==
  ASSUME NEW s \in Session, Spared(s)
  PROVE  /\ P(s)' = P(s) /\ Q(s)' = Q(s)
         /\ Subs(P(s))' = Subs(P(s)) /\ Subs(Q(s))' = Subs(Q(s))
         /\ SubOf(P(s))' = SubOf(P(s)) /\ SubOf(Q(s))' = SubOf(Q(s))
<1>1. P(s)' = P(s) /\ Q(s)' = Q(s)
  BY DEF Spared, Stands, P, Q
<1>2. PICK p : p = P(s)
  OBVIOUS
<1>3. PICK q : q = Q(s)
  OBVIOUS
<1>4. Subs(p)' = Subs(p) /\ Subs(q)' = Subs(q)
  BY <1>2, <1>3 DEF Spared, Subs
<1>5. SubOf(p)' = SubOf(p) /\ SubOf(q)' = SubOf(q)
  BY <1>4 DEF SubOf
<1>6. P(s)' = p /\ Q(s)' = q
  BY <1>1, <1>2, <1>3
<1>7. Subs(P(s))' = Subs(p)' /\ Subs(Q(s))' = Subs(q)'
  BY <1>6 DEF Subs
<1>8. SubOf(P(s))' = SubOf(p)' /\ SubOf(Q(s))' = SubOf(q)'
  BY <1>6, <1>7 DEF SubOf
<1> QED
  BY <1>1, <1>2, <1>3, <1>4, <1>5, <1>7, <1>8

\* A merge that is spared still knows what it knew.
LEMMA SparedKnows ==
  ASSUME NEW s \in Session, Spared(s), Apart(s)', AloneInv(s)
  PROVE  AloneInv(s)'
<1> SUFFICES ASSUME s \in Active', ses'[s].alone
             PROVE  (Known(s) /\ PrimaryView(s) /\ Moving(s) /\ Reread(s))'
  BY DEF AloneInv
<1>1. Known(s) /\ PrimaryView(s) /\ Moving(s) /\ Reread(s)
  BY DEF AloneInv, Active, Spared, Stands
<1>2. P(s)' = P(s) /\ Q(s)' = Q(s)
      /\ SubOf(P(s))' = SubOf(P(s)) /\ SubOf(Q(s))' = SubOf(Q(s))
  BY SparedUsers
<1>3. Known(s)'
  BY <1>1, <1>2 DEF Known, Spared, Stands
<1>4. PrimaryView(s)'
  BY <1>1, <1>2 DEF PrimaryView, Spared, Stands
<1>5. Movable(s)' = Movable(s) /\ \A k \in Kind : Last(s, k)' <=> Last(s, k)
  BY DEF Movable, Group, Last, Spared, Stands
<1>6. Moving(s)'
  <2>1. \A k \in Kind : row'[Q(s)'].id[k] = row[Q(s)].id[k]
    BY <1>2 DEF Spared
  <2>2. CASE ses'[s].pc # "move"
    BY <2>2 DEF Moving
  <2>3. CASE ses'[s].pc = "move"
    <3>1. /\ ses[s].cleared = ses[s].put /\ ses[s].dirty \subseteq ses[s].put
          /\ \A k \in Kind \ ses[s].cleared : ses[s].q.id[k] = row[Q(s)].id[k]
          /\ \A k \in ses[s].dirty : Last(s, k)
          /\ \A i \in DOMAIN Groups, j \in Movable(s) :
               Groups[i] \cap ses[s].cleared # {} => i < j
      BY <1>1, <2>3 DEF Moving, Spared, Stands
    <3>2. /\ ses'[s].cleared = ses'[s].put /\ ses'[s].dirty \subseteq ses'[s].put
          /\ \A k \in Kind \ ses'[s].cleared : ses'[s].q.id[k] = row'[Q(s)'].id[k]
          /\ \A i \in DOMAIN Groups, j \in Movable(s)' :
               Groups[i] \cap ses'[s].cleared # {} => i < j
      BY <1>5, <2>1, <3>1 DEF Spared, Stands
    <3>3. \A k \in ses'[s].dirty : Last(s, k)'
      BY <3>1 DEF Last, Spared, Stands
    <3> QED BY <3>2, <3>3 DEF Moving
  <2> QED BY <2>2, <2>3
<1>7. Reread(s)'
  BY <1>1, <1>2, <1>5 DEF Reread, Either, Spared, Stands
<1> QED
  BY <1>3, <1>4, <1>6, <1>7

\* The merge of r has nothing in common with the one of s.
Strange(r, s) ==
  /\ P(r) \notin {P(s), Q(s)} /\ Q(r) \notin {P(s), Q(s)}
  /\ ses[r].psub \notin Subs(P(s)) \cup Subs(Q(s))
  /\ ses[r].qsub \notin Subs(P(s)) \cup Subs(Q(s))

LEMMA ApartMeans ==
  ASSUME NEW s \in Session
  PROVE  Apart(s) <=> \A r \in Active \ {s} : Strange(r, s)
BY DEF Apart, Overlaps, Strange, P, Q

LEMMA ApartMeansNext ==
  ASSUME NEW s \in Session
  PROVE  (Apart(s) <=> \A r \in Active \ {s} : Strange(r, s))'
BY ApartMeans, PTL

\* What another merge holds after a step it held before, or it is not owned by
\* the users of s; and it had its token before.
Keeps(r, s) ==
  /\ r \in Active /\ ses'[r].t = ses[r].t
  /\ ses'[r].psub = ses[r].psub \/ ses'[r].psub \notin Subs(P(s)) \cup Subs(Q(s))
  /\ ses'[r].qsub = ses[r].qsub \/ ses'[r].qsub \notin Subs(P(s)) \cup Subs(Q(s))

LEMMA ApartStays ==
  ASSUME NEW s \in Session, Spared(s), Apart(s), \A r \in Active' \ {s} : Keeps(r, s)
  PROVE  Apart(s)'
<1>1. \A r \in Active \ {s} : Strange(r, s)
  BY ApartMeans
<1>2. /\ P(s)' = P(s) /\ Q(s)' = Q(s)
      /\ Subs(P(s))' = Subs(P(s)) /\ Subs(Q(s))' = Subs(Q(s))
  BY SparedUsers
<1>3. ASSUME NEW r \in Active' \ {s} PROVE Strange(r, s)'
  <2>1. r \in Active \ {s} /\ Keeps(r, s)
    BY DEF Keeps
  <2>2. P(r)' = P(r) /\ Q(r)' = Q(r)
    BY <2>1 DEF Keeps, P, Q
  <2>3. /\ ses'[r].psub \notin Subs(P(s)) \cup Subs(Q(s))
        /\ ses'[r].qsub \notin Subs(P(s)) \cup Subs(Q(s))
    BY <1>1, <2>1 DEF Keeps, Strange
  <2> QED BY <1>1, <1>2, <2>1, <2>2, <2>3 DEF Strange
<1> QED
  BY <1>3, ApartMeansNext

\* A step of one merge, or of none, that writes neither users nor subscriptions
\* spares the others; of its subscriptions in memory it may read its own again.
LEMMA OthersSpared ==
  ASSUME TypeInv, \A r \in Session : AloneInv(r), UNCHANGED owner,
         \A u \in User : row'[u].id = row[u].id /\ row'[u].deleted = row[u].deleted,
         NEW s \in Session, \A r \in Session \ {s} : ses'[r] = ses[r],
         s \in Active' => /\ s \in Active /\ ses'[s].t = ses[s].t
                          /\ ses'[s].psub \in {ses[s].psub, SubOf(P(s))}
                          /\ ses'[s].qsub \in {ses[s].qsub, SubOf(Q(s))}
  PROVE  /\ \A r \in Session \ {s} : AloneInv(r)'
         /\ s \in Active' /\ Apart(s) => Apart(s)'
<1>1. \A r \in Active' : r \in Active /\ ses'[r].t = ses[r].t
  BY DEF Active
<1>2. ASSUME NEW r \in Active', Apart(r), NEW o \in Active' \ {r} PROVE Keeps(o, r)
  <2>1. r \in Active /\ o \in Active \ {r}
    BY <1>1, <1>2
  <2>2. CASE o # s
    BY <1>1, <2>1, <2>2 DEF Keeps, Active
  <2>3. CASE o = s
    <3>1. /\ P(s) \in User /\ Q(s) \in User /\ P(s) \notin {P(r), Q(r)}
          /\ Q(s) \notin {P(r), Q(r)}
      BY <1>2, <2>1, <2>3, ApartMeans, TwoUsers DEF Strange
    <3>2. /\ SubOf(P(s)) \in Subs(P(s)) \cup {None} /\ SubOf(Q(s)) \in Subs(Q(s)) \cup {None}
      BY <3>1, SubIsTheirs
    <3>3. None \notin Subs(P(r)) \cup Subs(Q(r))
      BY UserAssumption DEF Subs
    <3>4. /\ SubOf(P(s)) \notin Subs(P(r)) \cup Subs(Q(r))
          /\ SubOf(Q(s)) \notin Subs(P(r)) \cup Subs(Q(r))
      BY <3>1, <3>2, <3>3 DEF Subs
    <3> QED BY <1>1, <2>1, <2>3, <3>4 DEF Keeps
  <2> QED BY <2>2, <2>3
<1>3. ASSUME NEW r \in Session \ {s} PROVE AloneInv(r)'
  <2>1. CASE r \notin Active \/ ~ ses[r].alone
    BY <2>1 DEF AloneInv, Active
  <2>2. CASE r \in Active /\ ses[r].alone
    <3>1. P(r) \in User /\ Q(r) \in User
      BY <2>2, TwoUsers
    <3>2. Spared(r)
      BY <3>1 DEF Spared, Stands
    <3>3. Apart(r) /\ r \in Active'
      BY <2>2 DEF AloneInv, Active
    <3>4. Apart(r)'
      BY <1>2, <3>2, <3>3, ApartStays
    <3> QED BY <3>2, <3>4, SparedKnows
  <2> QED BY <2>1, <2>2
<1>4. ASSUME s \in Active', Apart(s) PROVE Apart(s)'
  <2>1. PICK p : p = P(s)
    OBVIOUS
  <2>2. PICK q : q = Q(s)
    OBVIOUS
  <2>3. P(s)' = p /\ Q(s)' = q /\ s \in Active
    BY <1>1, <1>4, <2>1, <2>2 DEF P, Q
  <2>4. Subs(P(s))' = Subs(P(s)) /\ Subs(Q(s))' = Subs(Q(s))
    BY <2>1, <2>2, <2>3 DEF Subs
  <2>5. ASSUME NEW r \in Active' \ {s}
        PROVE  Strange(r, s)'
    <3>1. r \in Active \ {s} /\ ses'[r] = ses[r]
      BY <1>1 DEF Active
    <3>2. P(r)' = P(r) /\ Q(r)' = Q(r)
      BY <3>1 DEF P, Q
    <3>3. Strange(r, s)
      BY <1>4, <3>1, ApartMeans
    <3> QED BY <2>1, <2>2, <2>3, <2>4, <3>1, <3>2, <3>3 DEF Strange
  <2> QED BY <2>5, ApartMeansNext
<1> QED
  BY <1>3, <1>4

LEMMA AloneQuiet ==
  ASSUME TypeInv, \A r \in Session : AloneInv(r), UNCHANGED <<owner, ses>>,
         \A u \in User : row'[u].id = row[u].id /\ row'[u].deleted = row[u].deleted
  PROVE  \A r \in Session : AloneInv(r)'
<1>1. ASSUME NEW r \in Session PROVE AloneInv(r)'
  <2>1. CASE r \notin Active \/ ~ ses[r].alone
    BY <2>1 DEF AloneInv, Active
  <2>2. CASE r \in Active /\ ses[r].alone
    <3>1. P(r) \in User /\ Q(r) \in User
      BY <2>2, TwoUsers
    <3>2. Spared(r)
      BY <3>1 DEF Spared, Stands
    <3>3. Apart(r)
      BY <2>2 DEF AloneInv
    <3>4. Apart(r)'
      BY <3>2, <3>3, ApartStays DEF Keeps, Active
    <3> QED BY <3>2, <3>4, SparedKnows
  <2> QED BY <2>1, <2>2
<1> QED
  BY <1>1

\* A new merge is alone only if no other holds anything of its users, and one
\* that goes on being alone does not see it.
LEMMA AloneLoad ==
  ASSUME TypeInv, \A r \in Session : AloneInv(r), NEW s \in Session, NEW t \in Token,
         NEW keep \in {"primary", "secondary"}, Load(s, t, keep)
  PROVE  \A r \in Session : AloneInv(r)'
<1> DEFINE p == Primary[t]  q == Secondary[t]
<1>1. /\ s \notin Active /\ ses'[s].pc = "move" /\ ses'[s].t = t
      /\ ses'[s].p = row[p] /\ ses'[s].q = row[q]
      /\ ses'[s].psub = SubOf(p) /\ ses'[s].qsub = SubOf(q)
      /\ ses'[s].cleared = {} /\ ses'[s].put = {} /\ ses'[s].dirty = {}
      /\ ses'[s].alone <=> \A r \in Active : ~ Overlaps(r, t)
  BY LoadStep
<1>2. \A r \in Session \ {s} : Stands(r) /\ (r \in Active /\ Overlaps(r, t) => ~ ses'[r].alone)
  BY LoadStep
<1>3. UNCHANGED <<row, owner>> /\ p \in User /\ q \in User /\ ~ row[p].deleted
  BY TokenAssumption DEF Load
<1>4. P(s)' = p /\ Q(s)' = q
  BY <1>1 DEF P, Q
<1>5. /\ SubOf(p) \in Subs(p) \cup {None} /\ SubOf(q) \in Subs(q) \cup {None}
      /\ Subs(p)' = Subs(p) /\ Subs(q)' = Subs(q)
      /\ SubOf(p)' = SubOf(p) /\ SubOf(q)' = SubOf(q)
  BY <1>3, SubIsTheirs DEF Subs, SubOf
<1> HIDE DEF p, q
<1>6. AloneInv(s)'
  <2> SUFFICES ASSUME ses'[s].alone
               PROVE  (Apart(s) /\ Known(s) /\ PrimaryView(s) /\ Moving(s) /\ Reread(s))'
    BY DEF AloneInv
  <2>1. Apart(s)'
    <3>1. ASSUME NEW r \in Active' \ {s} PROVE ~ Overlaps(r, t)'
      <4>1. r \in Active /\ Stands(r) /\ ~ Overlaps(r, t)
        BY <1>1, <1>2 DEF Active, Stands
      <4>2. P(r)' = P(r) /\ Q(r)' = Q(r)
        BY <4>1 DEF P, Q, Stands
      <4> QED BY <1>3, <4>1, <4>2 DEF Overlaps, Subs, Stands
    <3>2. \A r : Overlaps(r, ses[s].t)' <=> Overlaps(r, t)'
      BY <1>1 DEF Overlaps, Subs
    <3> QED BY <3>1, <3>2 DEF Apart
  <2>2. SubOf(P(s))' = SubOf(p)' /\ SubOf(Q(s))' = SubOf(q)'
    BY <1>4 DEF SubOf, Subs
  <2>3. Known(s)'
    BY <1>1, <1>3, <1>4, <1>5, <2>2 DEF Known
  <2>4. PrimaryView(s)' /\ Reread(s)'
    BY <1>1, <1>3, <1>4 DEF PrimaryView, Reread
  <2>5. Moving(s)'
    BY <1>1, <1>3, <1>4 DEF Moving
  <2> QED BY <2>1, <2>3, <2>4, <2>5
<1>7. ASSUME NEW r \in Session \ {s} PROVE AloneInv(r)'
  <2>1. CASE r \notin Active \/ ~ ses'[r].alone
    BY <1>2, <2>1 DEF AloneInv, Active, Stands
  <2>2. CASE r \in Active /\ ses'[r].alone
    <3>1. Spared(r) /\ Apart(r) /\ ~ Overlaps(r, t)
      BY <1>2, <1>3, <2>2 DEF Spared, AloneInv, Stands
    <3>2. /\ P(r)' = P(r) /\ Q(r)' = Q(r)
          /\ Subs(P(r))' = Subs(P(r)) /\ Subs(Q(r))' = Subs(Q(r))
      BY <3>1, SparedUsers
    <3>3. p \notin {P(r), Q(r)} /\ q \notin {P(r), Q(r)}
      BY <3>1 DEF Overlaps, p, q
    <3>4. None \notin Subs(P(r)) \cup Subs(Q(r))
      BY UserAssumption DEF Subs
    <3>5. /\ SubOf(p) \notin Subs(P(r)) \cup Subs(Q(r))
          /\ SubOf(q) \notin Subs(P(r)) \cup Subs(Q(r))
      BY <1>5, <3>3, <3>4 DEF Subs
    <3>6. ASSUME NEW o \in Active' \ {r}
          PROVE  Strange(o, r)'
      <4>1. CASE o = s
        BY <1>1, <1>4, <3>2, <3>3, <3>5, <4>1 DEF Strange
      <4>2. CASE o # s
        <5>1. o \in Active \ {r} /\ Stands(o)
          BY <1>2, <4>2 DEF Active, Stands
        <5>2. P(o)' = P(o) /\ Q(o)' = Q(o)
          BY <5>1 DEF P, Q, Stands
        <5>3. Strange(o, r)
          BY <3>1, <5>1, ApartMeans
        <5> QED BY <3>2, <5>1, <5>2, <5>3 DEF Stands, Strange
      <4> QED BY <4>1, <4>2
    <3>7. Apart(r)'
      BY <3>6, ApartMeansNext
    <3> QED BY <3>1, <3>7, SparedKnows
  <2> QED BY <2>1, <2>2
<1> QED
  BY <1>6, <1>7

\* Moving the first kind that can be moved keeps what a merge knows of the
\* identities.
LEMMA AloneMove ==
  ASSUME TypeInv, \A r \in Session : AloneInv(r), NEW s \in Session, MoveIdentity(s)
  PROVE  \A r \in Session : AloneInv(r)'
<1>1. /\ s \in Active /\ \A r \in Session \ {s} : ses'[r] = ses[r]
      /\ ses'[s].pc = "move" /\ ses[s].pc = "move" /\ ses'[s].t = ses[s].t
      /\ ses'[s].psub = ses[s].psub /\ ses'[s].qsub = ses[s].qsub
      /\ ses'[s].alone = ses[s].alone
  BY MoveStep
<1>2. UNCHANGED <<row, owner>>
  BY DEF MoveIdentity
<1>3. (\A r \in Session \ {s} : AloneInv(r)') /\ (s \in Active' /\ Apart(s) => Apart(s)')
  BY <1>1, <1>2, OthersSpared
<1>4. AloneInv(s)'
  <2> SUFFICES ASSUME ses[s].alone
               PROVE  (Apart(s) /\ Known(s) /\ PrimaryView(s) /\ Moving(s) /\ Reread(s))'
    BY <1>1 DEF AloneInv
  <2>1. Apart(s) /\ Known(s) /\ PrimaryView(s) /\ Moving(s)
    BY <1>1 DEF AloneInv
  <2>2. PICK p : p = P(s)
    OBVIOUS
  <2>3. PICK q : q = Q(s)
    OBVIOUS
  <2>4. P(s)' = p /\ Q(s)' = q
    BY <1>1, <2>2, <2>3 DEF P, Q
  <2>5. SubOf(P(s))' = SubOf(P(s)) /\ SubOf(Q(s))' = SubOf(Q(s))
    BY <1>2, <2>2, <2>3, <2>4 DEF SubOf, Subs
  <2>6. Known(s)'
    BY <1>1, <1>2, <2>1, <2>2, <2>4, <2>5 DEF Known
  <2>7. PICK i \in Movable(s) :
          /\ \A j \in Movable(s) : i <= j
          /\ \A k \in Kind :
               /\ ses'[s].p.id[k] =
                    IF k \in Group(s, i) THEN ses[s].q.id[k] ELSE ses[s].p.id[k]
               /\ ses'[s].q.id[k] = IF k \in Group(s, i) THEN None ELSE ses[s].q.id[k]
          /\ ses'[s].cleared = ses[s].cleared \cup Group(s, i)
          /\ ses'[s].put = ses[s].put \cup Group(s, i) /\ ses'[s].dirty = Group(s, i)
    BY MoveStep
  <2>8. PICK G : G = Group(s, i)
    OBVIOUS
  <2>9. /\ i \in DOMAIN Groups /\ i \in Nat /\ G \subseteq Kind /\ G \subseteq Groups[i]
        /\ \A k \in G : ses[s].q.id[k] # None /\ ses[s].p.id[k] = None
    BY <2>8, KindsPlaced DEF Movable, Group
  <2>10. /\ ses'[s].cleared = ses[s].cleared \cup G /\ ses'[s].put = ses[s].put \cup G
         /\ ses'[s].dirty = G
         /\ \A k \in Kind : /\ ses'[s].p.id[k] = IF k \in G THEN ses[s].q.id[k] ELSE ses[s].p.id[k]
                            /\ ses'[s].q.id[k] = IF k \in G THEN None ELSE ses[s].q.id[k]
    BY <2>7, <2>8
  <2>11. ses[s].cleared \subseteq Kind /\ ses[s].put \subseteq Kind
    BY <1>1, TwoUsers DEF SessionState
  <2>12. /\ ses[s].cleared = ses[s].put
         /\ \A k \in Kind \ ses[s].cleared : ses[s].q.id[k] = row[q].id[k]
         /\ \A h \in DOMAIN Groups, j \in Movable(s) :
              Groups[h] \cap ses[s].cleared # {} => h < j
    BY <1>1, <2>1, <2>3 DEF Moving
  <2>13. PrimaryView(s)'
    <3>1. /\ \A k \in Kind \ ses[s].put : ses[s].p.id[k] = row[p].id[k]
          /\ \A k \in ses[s].put :
               /\ ses[s].p.id[k] = row[q].id[k] /\ ses[s].p.id[k] # None /\ row[p].id[k] = None
      BY <2>1, <2>2, <2>3 DEF PrimaryView
    <3>2. G \cap ses[s].put = {}
      BY <2>9, <3>1
    <3>3. \A k \in G : ses[s].q.id[k] = row[q].id[k] /\ row[p].id[k] = None
      BY <2>9, <2>12, <3>1, <3>2
    <3>4. /\ \A k \in Kind \ ses'[s].put : ses'[s].p.id[k] = row'[p].id[k]
          /\ \A k \in ses'[s].put :
               /\ ses'[s].p.id[k] = row'[q].id[k] /\ ses'[s].p.id[k] # None
               /\ row'[p].id[k] = None
      BY <1>2, <2>9, <2>10, <2>11, <3>1, <3>2, <3>3
    <3> QED BY <2>4, <3>4 DEF PrimaryView
  <2>14. \A j \in Movable(s)' : j \in Movable(s) \ {i}
    <3>1. ASSUME NEW j \in DOMAIN Groups, NEW k \in Groups[j], ses'[s].q.id[k] # None,
                 ses'[s].p.id[k] = None
          PROVE  j \in Movable(s) \ {i}
      <4>1. k \in Kind
        BY KindsPlaced
      <4>2. k \notin G /\ ses[s].q.id[k] # None /\ ses[s].p.id[k] = None
        BY <2>10, <3>1, <4>1
      <4>3. j # i
        BY <2>8, <4>2 DEF Group
      <4> QED BY <4>2, <4>3 DEF Movable, Group
    <3> QED BY <3>1 DEF Movable, Group
  <2>15. \A h \in DOMAIN Groups : Groups[h] \cap ses'[s].cleared # {} => h <= i
    <3> SUFFICES ASSUME NEW h \in DOMAIN Groups, NEW k \in Groups[h], k \in ses'[s].cleared
                 PROVE  h <= i
      OBVIOUS
    <3>1. CASE k \in ses[s].cleared
      BY <2>7, <2>9, <2>12, <3>1, KindsPlaced
    <3>2. CASE k \in G
      BY <2>9, <3>2, KindsPlaced
    <3> QED BY <2>10, <3>1, <3>2
  <2>16. ASSUME NEW k \in G PROVE Last(s, k)'
    <3>1. ASSUME NEW h \in DOMAIN Groups, NEW j \in DOMAIN Groups, k \in Groups[h],
                 Groups[j] \cap ses'[s].cleared # {}
          PROVE  j <= h
      <4>1. h = i
        BY <2>9, <3>1, KindsPlaced
      <4> QED BY <2>15, <3>1, <4>1
    <3> QED BY <2>10, <3>1 DEF Last
  <2>17. Moving(s)'
    <3>1. ses'[s].cleared = ses'[s].put /\ ses'[s].dirty \subseteq ses'[s].put
      BY <2>10, <2>12
    <3>2. \A k \in Kind \ ses'[s].cleared : ses'[s].q.id[k] = row'[q].id[k]
      BY <1>2, <2>10, <2>12
    <3>3. \A k \in ses'[s].dirty : Last(s, k)'
      BY <2>10, <2>16
    <3>4. \A h \in DOMAIN Groups, j \in Movable(s)' :
            Groups[h] \cap ses'[s].cleared # {} => h < j
      <4> SUFFICES ASSUME NEW h \in DOMAIN Groups, NEW j \in Movable(s)',
                          Groups[h] \cap ses'[s].cleared # {}
                   PROVE  h < j
        OBVIOUS
      <4>1. h <= i /\ h \in Nat
        BY <2>15, KindsPlaced
      <4>2. i <= j /\ i # j /\ j \in Nat
        BY <2>7, <2>14, KindsPlaced DEF Movable
      <4> QED BY <2>9, <4>1, <4>2
    <3> QED BY <2>4, <3>1, <3>2, <3>3, <3>4 DEF Moving
  <2>18. Reread(s)'
    BY <1>1 DEF Reread
  <2> QED BY <1>1, <1>3, <2>1, <2>6, <2>13, <2>17, <2>18 DEF Active
<1> QED
  BY <1>3, <1>4

\* When nothing is left to move, an identity that one of the two has is on the
\* primary in memory.
LEMMA NothingLeft ==
  ASSUME NEW s \in Session, PrimaryView(s), Moving(s), ses[s].pc = "move", Movable(s) = {}
  PROVE  \A k \in Either(s) : ses[s].p.id[k] # None
<1> SUFFICES ASSUME NEW k \in Either(s) PROVE ses[s].p.id[k] # None
  OBVIOUS
<1>1. PICK i \in DOMAIN Groups : k \in Groups[i]
  BY KindsPlaced DEF Either
<1>2. ses[s].q.id[k] = None \/ ses[s].p.id[k] # None
  BY <1>1 DEF Movable, Group
<1>3. CASE k \in ses[s].put
  BY <1>3 DEF PrimaryView, Either
<1>4. CASE k \notin ses[s].put
  <2>1. ses[s].p.id[k] = row[P(s)].id[k] /\ ses[s].q.id[k] = row[Q(s)].id[k]
    BY <1>4 DEF PrimaryView, Moving, Either
  <2> QED BY <1>2, <2>1 DEF Either
<1> QED
  BY <1>3, <1>4

\* Reading the primary again loses what was not flushed, and no more.
LEMMA AlonePrimary ==
  ASSUME TypeInv, \A r \in Session : AloneInv(r), NEW s \in Session, LockPrimary(s)
  PROVE  \A r \in Session : AloneInv(r)'
<1>1. /\ s \in Active /\ \A r \in Session \ {s} : ses'[r] = ses[r]
      /\ ses[s].pc = "move" /\ Movable(s) = {} /\ ses'[s].pc = "second"
      /\ ses'[s].t = ses[s].t /\ ses'[s].psub = SubOf(P(s)) /\ ses'[s].qsub = ses[s].qsub
      /\ ses'[s].alone = ses[s].alone /\ ses'[s].cleared = ses[s].cleared
      /\ ses'[s].put = ses[s].put \ ses[s].dirty
      /\ \A k \in Kind : ses'[s].p.id[k] =
           IF k \in ses'[s].put THEN ses[s].p.id[k] ELSE row[P(s)].id[k]
  BY PrimaryStep
<1>2. UNCHANGED <<row, owner>>
  BY DEF LockPrimary
<1>3. (\A r \in Session \ {s} : AloneInv(r)') /\ (s \in Active' /\ Apart(s) => Apart(s)')
  BY <1>1, <1>2, OthersSpared
<1>4. AloneInv(s)'
  <2> SUFFICES ASSUME ses[s].alone
               PROVE  (Apart(s) /\ Known(s) /\ PrimaryView(s) /\ Moving(s) /\ Reread(s))'
    BY <1>1 DEF AloneInv
  <2>1. Apart(s) /\ Known(s) /\ PrimaryView(s) /\ Moving(s)
    BY <1>1 DEF AloneInv
  <2>2. PICK p : p = P(s)
    OBVIOUS
  <2>3. PICK q : q = Q(s)
    OBVIOUS
  <2>4. P(s)' = p /\ Q(s)' = q
    BY <1>1, <2>2, <2>3 DEF P, Q
  <2>5. SubOf(P(s))' = SubOf(P(s)) /\ SubOf(Q(s))' = SubOf(Q(s))
    BY <1>2, <2>2, <2>3, <2>4 DEF SubOf, Subs
  <2>6. Known(s)'
    BY <1>1, <1>2, <2>1, <2>2, <2>4, <2>5 DEF Known
  <2>7. PrimaryView(s)'
    <3>1. ses[s].put \subseteq Kind /\ ses'[s].put \subseteq Kind
      BY PrimaryStep DEF TypeInv, TypeOK, SessionState
    <3>2. ASSUME NEW k \in Kind \ ses'[s].put PROVE ses'[s].p.id[k] = row[p].id[k]
      BY <1>1, <2>2, <3>2
    <3>3. ASSUME NEW k \in ses'[s].put
          PROVE  /\ ses'[s].p.id[k] = row[q].id[k] /\ ses'[s].p.id[k] # None
                 /\ row[p].id[k] = None
      <4>1. k \in ses[s].put /\ ses'[s].p.id[k] = ses[s].p.id[k]
        BY <1>1, <3>1, <3>3
      <4> QED BY <2>1, <2>2, <2>3, <4>1 DEF PrimaryView
    <3> QED BY <1>2, <2>4, <3>2, <3>3 DEF PrimaryView
  <2>8. Moving(s)'
    BY <1>1 DEF Moving
  <2>9. \A k \in Either(s) : ses[s].p.id[k] # None
    BY <1>1, <2>1, NothingLeft
  <2>10. \A k \in ses[s].dirty : Last(s, k)
    BY <1>1, <2>1 DEF Moving
  <2>11. Either(s)' = Either(s)
    BY <1>2, <2>2, <2>3, <2>4 DEF Either
  <2>12. ASSUME NEW k \in Either(s) PROVE ses'[s].p.id[k] # None \/ Last(s, k)'
    <3>1. Last(s, k) => Last(s, k)'
      BY <1>1 DEF Last
    <3>2. CASE k \in ses[s].dirty
      BY <2>10, <3>1, <3>2
    <3>3. CASE k \notin ses[s].dirty
      BY <1>1, <2>1, <2>9, <3>3 DEF PrimaryView, Either
    <3> QED BY <3>2, <3>3
  <2>13. Reread(s)'
    BY <2>11, <2>12 DEF Reread
  <2> QED BY <1>1, <1>3, <2>1, <2>6, <2>7, <2>8, <2>13 DEF Active
<1> QED
  BY <1>3, <1>4

LEMMA AloneSecondary ==
  ASSUME TypeInv, \A r \in Session : AloneInv(r), NEW s \in Session, LockSecondary(s)
  PROVE  \A r \in Session : AloneInv(r)'
<1>1. /\ s \in Active /\ \A r \in Session \ {s} : ses'[r] = ses[r]
      /\ ses[s].pc = "second" /\ ses'[s].pc = "finish" /\ ses'[s].t = ses[s].t
      /\ ses'[s].psub = ses[s].psub /\ ses'[s].qsub = SubOf(Q(s))
      /\ ses'[s].alone = ses[s].alone /\ ses'[s].cleared = ses[s].cleared
      /\ ses'[s].put = ses[s].put /\ ses'[s].p.id = ses[s].p.id
  BY SecondaryStep
<1>2. UNCHANGED <<row, owner>>
  BY DEF LockSecondary
<1>3. (\A r \in Session \ {s} : AloneInv(r)') /\ (s \in Active' /\ Apart(s) => Apart(s)')
  BY <1>1, <1>2, OthersSpared
<1>4. AloneInv(s)'
  <2> SUFFICES ASSUME ses[s].alone
               PROVE  (Apart(s) /\ Known(s) /\ PrimaryView(s) /\ Moving(s) /\ Reread(s))'
    BY <1>1 DEF AloneInv
  <2>1. Apart(s) /\ Known(s) /\ PrimaryView(s) /\ Reread(s)
    BY <1>1 DEF AloneInv
  <2>2. PICK p : p = P(s)
    OBVIOUS
  <2>3. PICK q : q = Q(s)
    OBVIOUS
  <2>4. P(s)' = p /\ Q(s)' = q
    BY <1>1, <2>2, <2>3 DEF P, Q
  <2>5. SubOf(P(s))' = SubOf(P(s)) /\ SubOf(Q(s))' = SubOf(Q(s))
    BY <1>2, <2>2, <2>3, <2>4 DEF SubOf, Subs
  <2>6. Known(s)'
    BY <1>1, <1>2, <2>1, <2>2, <2>4, <2>5 DEF Known
  <2>7. PrimaryView(s)'
    BY <1>1, <1>2, <2>1, <2>2, <2>3, <2>4 DEF PrimaryView
  <2>8. Moving(s)'
    BY <1>1 DEF Moving
  <2>9. Either(s)' = Either(s)
    BY <1>2, <2>2, <2>3, <2>4 DEF Either
  <2>10. \A k \in Either(s) : ses'[s].p.id[k] # None \/ Last(s, k)'
    BY <1>1, <2>1 DEF Reread, Last
  <2>11. Reread(s)'
    BY <2>9, <2>10 DEF Reread
  <2> QED BY <1>1, <1>3, <2>1, <2>6, <2>7, <2>8, <2>11 DEF Active
<1> QED
  BY <1>3, <1>4

\* The commit of another merge leaves a merge that is alone untouched.
LEMMA AloneFinish ==
  ASSUME TypeInv, \A r \in Session : AloneInv(r), NEW s \in Session, Finish(s)
  PROVE  \A r \in Session : AloneInv(r)'
<1>1. ses'[s].pc = "idle" /\ \A r \in Session \ {s} : ses'[r] = ses[r]
  BY EndStep DEF Finish
<1>2. s \in Active /\ \A u \in User \ {P(s), Q(s)} : row'[u] = row[u]
  BY FinishRows
<1>3. /\ \A x \in Subscribed \ {ses[s].psub, ses[s].qsub} : owner'[x] = owner[x]
      /\ \A x \in Subscribed : owner'[x] \in {owner[x], P(s), None}
  BY FinishSubs
<1>4. AloneInv(s)'
  BY <1>1 DEF AloneInv, Active
<1>5. ASSUME NEW r \in Session \ {s} PROVE AloneInv(r)'
  <2>1. CASE r \notin Active \/ ~ ses[r].alone
    BY <1>1, <2>1 DEF AloneInv, Active
  <2>2. CASE r \in Active /\ ses[r].alone
    <3>1. P(r) \in User /\ Q(r) \in User /\ P(r) # None /\ Q(r) # None
      BY <2>2, TwoUsers
    <3>2. Apart(r)
      BY <2>2 DEF AloneInv
    <3>3. Strange(s, r)
      BY <1>2, <3>2, ApartMeans
    <3>4. row'[P(r)] = row[P(r)] /\ row'[Q(r)] = row[Q(r)]
      BY <1>2, <3>1, <3>3 DEF Strange
    <3>5. ASSUME NEW x \in Subscribed
          PROVE  (owner'[x] = P(r) <=> owner[x] = P(r)) /\ (owner'[x] = Q(r) <=> owner[x] = Q(r))
      <4>1. CASE x \notin {ses[s].psub, ses[s].qsub}
        BY <1>3, <4>1
      <4>2. CASE x \in {ses[s].psub, ses[s].qsub}
        BY <1>3, <3>1, <3>3, <4>2 DEF Strange, Subs
      <4> QED BY <4>1, <4>2
    <3>6. Spared(r)
      BY <1>1, <3>4, <3>5 DEF Spared, Stands
    <3>7. Apart(r)'
      BY <1>1, <3>2, <3>6, ApartStays DEF Keeps, Active
    <3> QED BY <3>6, <3>7, SparedKnows
  <2> QED BY <2>1, <2>2
<1> QED
  BY <1>4, <1>5

LEMMA AloneStep ==
  ASSUME TypeInv, \A r \in Session : AloneInv(r), [Next]_vars
  PROVE  \A r \in Session : AloneInv(r)'
<1>1. ASSUME \/ \E x \in Payment : ReadPayer(x)
             \/ \E t \in Token, named \in BOOLEAN : Refuse(t, named)
             \/ UNCHANGED vars
      PROVE  \A r \in Session : AloneInv(r)'
  <2>1. UNCHANGED <<row, owner, ses>>
    BY <1>1 DEF ReadPayer, Refuse, vars
  <2> QED BY <2>1, AloneQuiet
<1>2. ASSUME NEW x \in Payment, Credit(x) PROVE \A r \in Session : AloneInv(r)'
  <2>1. UNCHANGED <<owner, ses>>
    BY <1>2 DEF Credit
  <2> QED BY <1>2, <2>1, CreditRows, AloneQuiet
<1>3. ASSUME NEW s \in Session, Fail(s) \/ Die(s) PROVE \A r \in Session : AloneInv(r)'
  <2>1. UNCHANGED <<row, owner>> /\ ses' = [ses EXCEPT ![s] = Idle]
    BY <1>3 DEF Fail, Die
  <2>2. ses'[s].pc = "idle" /\ \A r \in Session \ {s} : ses'[r] = ses[r]
    BY <2>1, EndStep
  <2>3. \A r \in Session \ {s} : AloneInv(r)'
    BY <2>1, <2>2, OthersSpared DEF Active
  <2>4. AloneInv(s)'
    BY <2>2 DEF AloneInv, Active
  <2> QED BY <2>3, <2>4
<1> QED
  BY <1>1, <1>2, <1>3, AloneLoad, AloneMove, AlonePrimary, AloneSecondary, AloneFinish DEF Next

-----------------------------------------------------------------------------
(* The theorems.                                                            *)

LEMMA InitInv == Init => IInv
<1> SUFFICES ASSUME Init PROVE IInv
  OBVIOUS
<1>1. TypeInv
  BY InitTypes
<1>2. \A s \in Session : ses[s].pc = "idle"
  BY IdleTyped DEF Init
<1>3. NoneStranded
  BY DEF Init, NoneStranded
<1>4. Balanced
  <2>1. Money = [u \in User |-> StartMoney[u]]
    BY DEF Init, Money
  <2>2. Money = StartMoney /\ paid = {}
    BY <2>1, StartAssumption DEF Init
  <2>3. SumOver(StartMoney, User) \in Int
    BY StartAssumption, UserAssumption, SumType
  <2> QED BY <2>2, <2>3, FS_EmptySet DEF Balanced
<1>5. MoneyKept
  BY <1>3, <1>4, SumIsOver DEF MoneyKept, Balanced, Money
<1> QED
  BY <1>1, <1>2, <1>5 DEF IInv, AloneInv, MoneySeen, MoneyHeld, Active

\* What a merge knows of its accounts, and the money it holds under a lock,
\* while it is at work, is inductive.
THEOREM MergeInductive == Spec => []IInv
<1>1. MoneyKept <=> Balanced /\ NoneStranded
  BY SumIsOver DEF MoneyKept, Balanced, Money
<1>2. MoneyKept' <=> Balanced' /\ NoneStranded'
  BY <1>1, PTL
<1>3. IInv /\ [Next]_vars => IInv'
  BY <1>1, <1>2, TypeStep, MoneyStep, HeldStep, BalancedStep, AloneStep DEF IInv
<1> QED
  BY <1>3, InitInv, PTL DEF Spec

\* Every variable keeps its type: in particular no token is restored more often
\* than it may be.
THEOREM MergeTypes == Spec => []TypeOK
<1>1. IInv => TypeOK
  BY DEF IInv, TypeInv
<1> QED
  BY <1>1, MergeInductive, PTL

\* Merges, in any number and order, and payments make and lose no money, and
\* none is left on a deleted account, unless it came after the merge had seen
\* the account without any.
THEOREM MoneyIsKept == Spec => []MoneyKept
<1>1. IInv => MoneyKept
  BY DEF IInv
<1> QED
  BY <1>1, MergeInductive, PTL

\* The step that deletes the secondary of a merge that is alone is its commit.
LEMMA MergesIsFinish ==
  ASSUME IInv, [Next]_vars, NEW s \in Session, Merges(s)
  PROVE  Finish(s)
<1>1. s \in Active /\ Q(s) \in User /\ ses[s].alone /\ ~ row[Q(s)].deleted /\ row'[Q(s)].deleted
  BY TwoUsers DEF IInv, Merges
<1>2. CASE UNCHANGED row
  BY <1>1, <1>2
<1>3. ASSUME NEW x \in Payment, Credit(x) PROVE FALSE
  BY <1>1, <1>3, CreditRows DEF IInv
<1>4. ASSUME NEW r \in Session \ {s}, Finish(r) PROVE FALSE
  <2>1. /\ r \in Active /\ P(r) \in User /\ \A u \in User \ {P(r), Q(r)} : row'[u] = row[u]
    BY <1>4, FinishRows, TwoUsers DEF IInv
  <2>2. Strange(r, s)
    BY <1>1, <2>1, ApartMeans DEF IInv, AloneInv
  <2> QED BY <1>1, <2>1, <2>2 DEF Strange
<1>5. ASSUME NEW x \in Payment, ReadPayer(x) PROVE UNCHANGED row
  BY <1>5 DEF ReadPayer
<1>6. ASSUME NEW t \in Token, NEW named \in BOOLEAN, Refuse(t, named) PROVE UNCHANGED row
  BY <1>6 DEF Refuse
<1>7. ASSUME NEW r \in Session, NEW t \in Token, NEW keep \in {"primary", "secondary"},
             Load(r, t, keep)
      PROVE  UNCHANGED row
  BY <1>7 DEF Load
<1>8. ASSUME NEW r \in Session, MoveIdentity(r) \/ LockPrimary(r) \/ LockSecondary(r)
                                \/ Fail(r) \/ Die(r)
      PROVE  UNCHANGED row
  BY <1>8 DEF MoveIdentity, LockPrimary, LockSecondary, Fail, Die
<1>9. ASSUME UNCHANGED vars PROVE UNCHANGED row
  BY <1>9 DEF vars
<1> QED
  BY <1>2, <1>3, <1>4, <1>5, <1>6, <1>7, <1>8, <1>9 DEF Next

\* The commit of a merge that is alone leaves the survivor what both had.
LEMMA FinishKeeps ==
  ASSUME IInv, NEW s \in Session, Finish(s), ses[s].alone
  PROVE  Survives(s)
<1> DEFINE p == P(s)  q == Q(s)  new == {x \in Subscribed : owner'[x] = P(s)}
<1>1. /\ s \in Active /\ ses[s] \in SessionState /\ p \in User /\ q \in User /\ p # q
      /\ p # None /\ q # None
  BY FinishRows, TwoUsers DEF IInv
<1>2. Known(s) /\ PrimaryView(s) /\ Moving(s) /\ Reread(s) /\ MoneySeen(s)
  BY <1>1 DEF IInv, AloneInv
<1>3. /\ ~ row[p].deleted /\ row'[p].deleted = row[p].deleted
      /\ \A k \in Kind : row'[p].id[k] =
           IF k \in ses[s].put THEN ses[s].p.id[k] ELSE row[p].id[k]
  BY <1>2, FinishRows DEF IInv, Known
<1>4. /\ SubOf(p) = None <=> Subs(p) = {}
      /\ SubOf(q) = None <=> Subs(q) = {}
      /\ SubOf(p) # None => SubOf(p) \in Subs(p)
      /\ SubOf(q) # None => SubOf(q) \in Subs(q)
      /\ ses[s].psub = SubOf(p) /\ ses[s].qsub = SubOf(q)
  BY <1>1, <1>2, SubIsTheirs DEF Known
<1>5. /\ KeepsOwn(s) => \A x \in Subscribed : owner'[x] =
           IF x = ses[s].qsub /\ ses[s].psub # None THEN None ELSE owner[x]
      /\ ~ KeepsOwn(s) => /\ \A x \in Subscribed : owner'[x] =
                               IF x = ses[s].qsub THEN p
                               ELSE IF x = ses[s].psub THEN None ELSE owner[x]
                          /\ ses[s].qsub \in Subscribed
  BY FinishSubs DEF IInv
<1>6. ASSUME NEW k \in Usable(s)
      PROVE  SignsIn(row'[p].id, k) \/ (ses[s].moved /\ Last(s, k)) \/ InTheWay(s, k)
  <2>1. k \in Either(s) /\ k \in Kind
    BY DEF Usable, Either, SignsIn
  <2>2. row'[p].id[k] = ses[s].p.id[k]
    BY <1>2, <1>3, <2>1 DEF PrimaryView
  <2>3. ses[s].p.id[k] # None \/ (ses[s].moved /\ Last(s, k))
    <3>1. CASE ses[s].pc = "finish"
      BY <1>2, <2>1, <3>1 DEF Reread, MoneySeen
    <3>2. CASE ses[s].pc = "move" /\ Movable(s) = {}
      BY <1>2, <2>1, <3>2, NothingLeft
    <3> QED BY <3>1, <3>2 DEF Finish, Ready
  <2>4. CASE k \in ses[s].put
    BY <1>2, <2>2, <2>4 DEF PrimaryView, Usable, SignsIn
  <2>5. CASE k \notin ses[s].put
    BY <1>2, <2>1, <2>2, <2>3, <2>5 DEF PrimaryView, SignsIn, InTheWay
  <2> QED BY <2>4, <2>5
<1> HIDE DEF p, q
<1>7. (Subs(p) \cup Subs(q) # {} => new # {}) /\ (AtMostOne(Subs(p)) => AtMostOne(new))
  <2>1. new = {x \in Subscribed : owner'[x] = p}
    BY DEF p
  <2> HIDE DEF new
  <2>2. CASE KeepsOwn(s)
    <3>1. ses[s].qsub = None \/ ses[s].psub # None
      BY <2>2 DEF KeepsOwn
    <3>2. new = Subs(p)
      BY <1>1, <1>4, <1>5, <2>1, <2>2, UserAssumption DEF Subs
    <3> QED BY <1>4, <3>1, <3>2
  <2>3. CASE ~ KeepsOwn(s)
    <3>1. ses[s].qsub \in new
      BY <1>5, <2>1, <2>3
    <3>2. ASSUME AtMostOne(Subs(p)), NEW x \in new PROVE x = ses[s].qsub
      <4>1. x \in Subscribed /\ owner'[x] = p
        BY <2>1
      <4>2. CASE x # ses[s].qsub
        <5>1. x # ses[s].psub /\ owner[x] = p
          BY <1>1, <1>5, <2>3, <4>1, <4>2
        <5>2. x \in Subs(p)
          BY <4>1, <5>1 DEF Subs
        <5> QED BY <1>4, <3>2, <5>1, <5>2 DEF AtMostOne
      <4> QED BY <4>2
    <3> QED BY <3>1, <3>2 DEF AtMostOne
  <2> QED BY <2>2, <2>3
<1> QED
  BY <1>3, <1>6, <1>7 DEF Survives, p, q

\* The account that survives a merge that was alone lives, has a subscription
\* and every way to sign in that one of the two had, but for what was moved last
\* together with money and a password whose e-mail finds another in its place.
THEOREM MergeKeepsAccess == Spec => AccessKept
<1>1. IInv /\ [Next]_vars => \A s \in Session : Merges(s) => Survives(s)
  <2> SUFFICES ASSUME IInv, [Next]_vars, NEW s \in Session, Merges(s) PROVE Survives(s)
    OBVIOUS
  <2> QED BY MergesIsFinish, FinishKeeps DEF Merges
<1>2. IInv /\ [Next]_vars => [\A s \in Session : Merges(s) => Survives(s)]_vars
  BY <1>1
<1> QED
  BY <1>2, MergeInductive, PTL DEF Spec, AccessKept
=============================================================================
