----------------------------- MODULE FiniteSums -----------------------------
(***************************************************************************)
(* Sums of integers over finite sets, as MapThenSumSet computes them: what  *)
(* the sum is, and how it changes with one summand.                         *)
(*                                                                          *)
(* The sum is a recursive function on the subsets of the set.  Whatever is  *)
(* said of it for every subset is shown by looking at a smallest subset for *)
(* which it fails.                                                          *)
(***************************************************************************)
EXTENDS Integers, FiniteSets, FiniteSetsExt, FiniteSetTheorems, WellFoundedInduction, TLAPS

SumOver(f, S) == MapThenSumSet(LAMBDA x : f[x], S)

Some(s) == CHOOSE x \in s : TRUE
\* One step of the sum over s, given the sums g over its subsets.
Adding(f, g, s) == IF s = {} THEN 0 ELSE f[Some(s)] + g[s \ {Some(s)}]
\* g is the sum over every subset of S.
IsSum(f, g, S) == g = [s \in SUBSET S |-> Adding(f, g, s)]
SumFcn(f, S) == CHOOSE g : IsSum(f, g, S)

LEMMA SumIsFcn == \A f, S : SumOver(f, S) = SumFcn(f, S)[S]
BY Zenon DEF SumOver, MapThenSumSet, MapThenFoldSet, SumFcn, IsSum, Adding, Some

\* Of finite sets there is one with the fewest elements.
LEMMA SmallestSet ==
  ASSUME NEW T, T # {}, \A s \in T : IsFiniteSet(s)
  PROVE  \E s \in T : \A r \in T : ~ (Cardinality(r) < Cardinality(s))
<1> DEFINE N == {Cardinality(s) : s \in T}
<1>1. N \subseteq Nat /\ N # {}
  BY FS_CardinalityType
<1>2. PICK n \in N : \A m \in N : ~ (<<m, n>> \in OpToRel(<, Nat))
  BY <1>1, NatLessThanWellFounded, WFMin, Zenon
<1>3. \A m \in N : ~ (m < n)
  BY <1>1, <1>2 DEF OpToRel
<1> QED
  BY <1>3

\* What a set has one element of, that element taken away, is smaller.
LEMMA Smaller ==
  ASSUME NEW S, IsFiniteSet(S), NEW s \in SUBSET S, s # {}
  PROVE  /\ Some(s) \in s /\ Some(s) \in S
         /\ s \ {Some(s)} \in SUBSET S /\ IsFiniteSet(s \ {Some(s)}) /\ IsFiniteSet(s)
         /\ s \ {Some(s)} \in SUBSET s
         /\ Cardinality(s \ {Some(s)}) < Cardinality(s)
<1>1. Some(s) \in s
  BY DEF Some
<1>2. IsFiniteSet(s)
  BY FS_Subset
<1>3. Cardinality(s \ {Some(s)}) = Cardinality(s) - 1 /\ Cardinality(s) \in Nat
      /\ IsFiniteSet(s \ {Some(s)})
  BY <1>1, <1>2, FS_RemoveElement, FS_CardinalityType
<1> QED
  BY <1>1, <1>2, <1>3

LEMMA SumAt ==
  ASSUME NEW f, NEW g, NEW S, IsSum(f, g, S), NEW s \in SUBSET S
  PROVE  g[s] = Adding(f, g, s)
BY DEF IsSum

\* A sum over a set and a sum over another one agree where both are defined.
LEMMA SumsAgree ==
  ASSUME NEW f, NEW g, NEW h, NEW t, NEW r, IsFiniteSet(t),
         IsSum(f, g, t), IsSum(f, h, r), NEW s0 \in SUBSET t, s0 \in SUBSET r
  PROVE  g[s0] = h[s0]
<1> DEFINE T == {s \in SUBSET t : s \in SUBSET r /\ g[s] # h[s]}
<1> SUFFICES ASSUME T # {} PROVE FALSE
  OBVIOUS
<1>1. \A s \in T : IsFiniteSet(s)
  BY FS_Subset
<1>2. PICK s \in T : \A q \in T : ~ (Cardinality(q) < Cardinality(s))
  <2> HIDE DEF T
  <2> QED BY <1>1, SmallestSet
<1>3. s \in SUBSET t /\ s \in SUBSET r /\ g[s] # h[s]
  OBVIOUS
<1>4. g[s] = Adding(f, g, s) /\ h[s] = Adding(f, h, s)
  BY <1>3, SumAt
<1>5. s # {}
  BY <1>3, <1>4 DEF Adding
<1>6. /\ s \ {Some(s)} \in SUBSET t /\ s \ {Some(s)} \in SUBSET r
      /\ s \ {Some(s)} \notin T
  BY <1>2, <1>5, Smaller
<1> QED
  BY <1>3, <1>4, <1>5, <1>6 DEF Adding

\* There is a sum over every finite set.
LEMMA SumExists ==
  ASSUME NEW f, NEW S, IsFiniteSet(S)
  PROVE  \E g : IsSum(f, g, S)
<1> DEFINE T == {t \in SUBSET S : ~ \E g : IsSum(f, g, t)}
<1> SUFFICES ASSUME T # {} PROVE FALSE
  OBVIOUS
<1>1. \A t \in T : IsFiniteSet(t)
  BY FS_Subset
<1>2. PICK t \in T : \A q \in T : ~ (Cardinality(q) < Cardinality(t))
  <2> HIDE DEF T
  <2> QED BY <1>1, SmallestSet
<1> DEFINE Of(r) == CHOOSE k : IsSum(f, k, r)
           G == [r \in SUBSET t |-> Of(r)[r]]
           g == [s \in SUBSET t |-> Adding(f, G, s)]
<1>3. ASSUME NEW s \in SUBSET t, s # {} PROVE IsSum(f, Of(s \ {Some(s)}), s \ {Some(s)})
  <2>1. s \ {Some(s)} \in SUBSET S
    OBVIOUS
  <2>2. Cardinality(s \ {Some(s)}) < Cardinality(t)
    <3>1. IsFiniteSet(t)
      BY <1>1
    <3>2. /\ Cardinality(s \ {Some(s)}) < Cardinality(s) /\ Cardinality(s) <= Cardinality(t)
          /\ IsFiniteSet(s \ {Some(s)}) /\ IsFiniteSet(s)
      BY <1>3, <3>1, Smaller, FS_Subset
    <3> QED BY <3>1, <3>2, FS_CardinalityType
  <2>3. s \ {Some(s)} \notin T
    BY <1>2, <2>2
  <2>4. \E k : IsSum(f, k, s \ {Some(s)})
    BY <2>1, <2>3
  <2> QED BY <2>4
<1>4. ASSUME NEW s \in SUBSET t, s # {} PROVE g[s \ {Some(s)}] = G[s \ {Some(s)}]
  <2> DEFINE r == s \ {Some(s)}  k == Of(r)
  <2>1. IsSum(f, k, r) /\ r \in SUBSET t /\ IsFiniteSet(r) /\ Some(s) \in s
    BY <1>1, <1>3, <1>4, FS_Subset, Smaller
  <2>2. k[r] = Adding(f, k, r) /\ G[r] = k[r] /\ g[r] = Adding(f, G, r)
    BY <2>1, SumAt
  <2> SUFFICES g[r] = G[r]
    OBVIOUS
  <2> HIDE DEF g, G, k, r
  <2>3. CASE r = {}
    BY <2>2, <2>3 DEF Adding
  <2>4. CASE r # {}
    <3>1. /\ IsSum(f, Of(r \ {Some(r)}), r \ {Some(r)}) /\ r \ {Some(r)} \in SUBSET t
          /\ G[r \ {Some(r)}] = Of(r \ {Some(r)})[r \ {Some(r)}]
      BY <1>3, <2>1, <2>4 DEF G
    <3>2. k[r \ {Some(r)}] = Of(r \ {Some(r)})[r \ {Some(r)}]
      <4>1. r \ {Some(r)} \in SUBSET r
        OBVIOUS
      <4> HIDE DEF Of
      <4> QED BY <2>1, <3>1, <4>1, SumsAgree
    <3> QED BY <2>2, <2>4, <3>1, <3>2 DEF Adding
  <2> QED BY <2>3, <2>4
<1>5. IsSum(f, g, t)
  <2>1. \A s \in SUBSET t : Adding(f, G, s) = Adding(f, g, s)
    <3> HIDE DEF g, G
    <3> QED BY <1>4 DEF Adding
  <2>2. g = [s \in SUBSET t |-> Adding(f, G, s)]
    OBVIOUS
  <2> HIDE DEF g, G
  <2> QED BY <2>1, <2>2 DEF IsSum
<1> QED
  BY <1>2, <1>5

\* What MapThenSumSet computes: nothing for no elements, and otherwise some
\* element's summand and the sum of the rest.
LEMMA SumStep ==
  ASSUME NEW f, NEW S, IsFiniteSet(S)
  PROVE  /\ S = {} => SumOver(f, S) = 0
         /\ S # {} => SumOver(f, S) = f[Some(S)] + SumOver(f, S \ {Some(S)})
<1>1. IsSum(f, SumFcn(f, S), S)
  BY SumExists, Zenon DEF SumFcn
<1>2. SumOver(f, S) = Adding(f, SumFcn(f, S), S)
  <2>1. SumFcn(f, S)[S] = Adding(f, SumFcn(f, S), S)
    BY <1>1, SumAt
  <2> QED BY <2>1, SumIsFcn
<1>3. CASE S = {}
  BY <1>2, <1>3 DEF Adding
<1>4. CASE S # {}
  <2> DEFINE R == S \ {Some(S)}
  <2>1. IsFiniteSet(R) /\ R \in SUBSET S
    BY <1>4, Smaller
  <2>2. IsSum(f, SumFcn(f, R), R)
    BY <2>1, SumExists, Zenon DEF SumFcn
  <2>3. SumFcn(f, S)[R] = SumFcn(f, R)[R]
    <3> HIDE DEF R
    <3> QED BY <1>1, <2>1, <2>2, SumsAgree
  <2> QED BY <1>2, <1>4, <2>3, SumIsFcn DEF Adding
<1> QED
  BY <1>3, <1>4

-----------------------------------------------------------------------------
(* Sums of integers.                                                        *)

\* A sum of integers is an integer.
THEOREM SumType ==
  ASSUME NEW f, NEW S, IsFiniteSet(S), \A x \in S : f[x] \in Int
  PROVE  SumOver(f, S) \in Int
<1> DEFINE T == {s \in SUBSET S : SumOver(f, s) \notin Int}
<1> SUFFICES ASSUME T # {} PROVE FALSE
  OBVIOUS
<1>1. \A s \in T : IsFiniteSet(s)
  BY FS_Subset
<1>2. PICK s \in T : \A q \in T : ~ (Cardinality(q) < Cardinality(s))
  <2> HIDE DEF T
  <2> QED BY <1>1, SmallestSet
<1>3. s # {} /\ SumOver(f, s) = f[Some(s)] + SumOver(f, s \ {Some(s)})
  <2>1. SumOver(f, s) \notin Int /\ IsFiniteSet(s)
    BY <1>1
  <2>2. /\ s = {} => SumOver(f, s) = 0
        /\ s # {} => SumOver(f, s) = f[Some(s)] + SumOver(f, s \ {Some(s)})
    BY <2>1, SumStep, Zenon
  <2> QED BY <2>1, <2>2
<1>4. Some(s) \in S /\ s \ {Some(s)} \in SUBSET S /\ s \ {Some(s)} \notin T
  BY <1>2, <1>3, Smaller
<1> QED
  BY <1>3, <1>4

\* The sum over a set is any element's summand and the sum of the rest: the
\* order of the summands does not matter.
THEOREM SumRemove ==
  ASSUME NEW f, NEW S, IsFiniteSet(S), \A y \in S : f[y] \in Int, NEW x \in S
  PROVE  SumOver(f, S) = f[x] + SumOver(f, S \ {x})
<1> DEFINE T == {s \in SUBSET S : \E z \in s : SumOver(f, s) # f[z] + SumOver(f, s \ {z})}
<1> SUFFICES ASSUME T # {} PROVE FALSE
  OBVIOUS
<1>1. \A s \in T : IsFiniteSet(s)
  BY FS_Subset
<1>2. PICK s \in T : \A q \in T : ~ (Cardinality(q) < Cardinality(s))
  <2> HIDE DEF T
  <2> QED BY <1>1, SmallestSet
<1>3. PICK z \in s : SumOver(f, s) # f[z] + SumOver(f, s \ {z})
  OBVIOUS
<1> DEFINE y == Some(s)
<1>4. s \in SUBSET S /\ s # {} /\ y \in s /\ IsFiniteSet(s)
  BY <1>1, <1>3, Smaller
<1>5. SumOver(f, s) = f[y] + SumOver(f, s \ {y})
  BY <1>4, SumStep
<1>6. z # y
  BY <1>3, <1>5
<1>7. ASSUME NEW a \in s, NEW b \in s \ {a}
      PROVE  SumOver(f, s \ {a}) = f[b] + SumOver(f, (s \ {a}) \ {b})
  <2>1. Cardinality(s \ {a}) < Cardinality(s)
    <3>1. Cardinality(s \ {a}) = Cardinality(s) - 1 /\ Cardinality(s) \in Nat
      BY <1>4, FS_RemoveElement, FS_CardinalityType
    <3> QED BY <3>1
  <2>2. s \ {a} \in SUBSET S /\ s \ {a} \notin T
    BY <1>2, <1>4, <2>1
  <2> QED BY <2>2
<1> HIDE DEF T, y
<1>8. SumOver(f, s \ {y}) = f[z] + SumOver(f, (s \ {y}) \ {z})
      /\ SumOver(f, s \ {z}) = f[y] + SumOver(f, (s \ {z}) \ {y})
  BY <1>4, <1>6, <1>7
<1>9. (s \ {y}) \ {z} = (s \ {z}) \ {y}
  OBVIOUS
<1>10. f[y] \in Int /\ f[z] \in Int /\ SumOver(f, (s \ {z}) \ {y}) \in Int
  <2>1. IsFiniteSet((s \ {z}) \ {y}) /\ (s \ {z}) \ {y} \in SUBSET S
    BY <1>4, FS_Subset
  <2>2. \A a \in (s \ {z}) \ {y} : f[a] \in Int
    BY <2>1
  <2> QED BY <1>4, <2>1, <2>2, SumType
<1> DEFINE A == SumOver(f, (s \ {z}) \ {y})
<1>11. SumOver(f, s) = f[y] + (f[z] + A) /\ SumOver(f, s \ {z}) = f[y] + A
  BY <1>5, <1>8, <1>9, Zenon
<1>12. f[y] \in Int /\ f[z] \in Int /\ A \in Int
  BY <1>10
<1> HIDE DEF A
<1> QED
  BY <1>3, <1>11, <1>12

\* Equal summands have equal sums.
THEOREM SumSame ==
  ASSUME NEW f, NEW h, NEW S, IsFiniteSet(S), \A x \in S : f[x] = h[x]
  PROVE  SumOver(f, S) = SumOver(h, S)
<1> DEFINE T == {s \in SUBSET S : SumOver(f, s) # SumOver(h, s)}
<1> SUFFICES ASSUME T # {} PROVE FALSE
  OBVIOUS
<1>1. \A s \in T : IsFiniteSet(s)
  BY FS_Subset
<1>2. PICK s \in T : \A q \in T : ~ (Cardinality(q) < Cardinality(s))
  <2> HIDE DEF T
  <2> QED BY <1>1, SmallestSet
<1>3. /\ s = {} => SumOver(f, s) = 0 /\ SumOver(h, s) = 0
      /\ s # {} => /\ SumOver(f, s) = f[Some(s)] + SumOver(f, s \ {Some(s)})
                   /\ SumOver(h, s) = h[Some(s)] + SumOver(h, s \ {Some(s)})
  BY <1>1, SumStep
<1>4. s # {}
  BY <1>3
<1>5. Some(s) \in S /\ s \ {Some(s)} \in SUBSET S /\ s \ {Some(s)} \notin T
  BY <1>2, <1>4, Smaller
<1> QED
  BY <1>3, <1>4, <1>5

\* A sum changes by as much as one of its summands does.
THEOREM SumChange ==
  ASSUME NEW f, NEW h, NEW S, IsFiniteSet(S), NEW x \in S,
         \A y \in S : f[y] \in Int /\ h[y] \in Int, \A y \in S \ {x} : h[y] = f[y]
  PROVE  SumOver(h, S) = SumOver(f, S) + h[x] - f[x]
<1> DEFINE R == S \ {x}
<1>1. IsFiniteSet(R)
  BY FS_Subset
<1>2. SumOver(f, S) = f[x] + SumOver(f, R) /\ SumOver(h, S) = h[x] + SumOver(h, R)
  BY SumRemove
<1>3. SumOver(f, R) = SumOver(h, R)
  BY <1>1, SumSame
<1>4. SumOver(f, R) \in Int
  BY <1>1, SumType
<1> HIDE DEF R
<1> QED
  BY <1>2, <1>3, <1>4

\* Whatever satisfies the equations of the sum over S has its value at S.
THEOREM SumUnique ==
  ASSUME NEW f, NEW S, IsFiniteSet(S), NEW g, IsSum(f, g, S)
  PROVE  g[S] = SumOver(f, S)
<1>1. IsSum(f, SumFcn(f, S), S)
  BY SumExists, Zenon DEF SumFcn
<1>2. g[S] = SumFcn(f, S)[S]
  BY <1>1, SumsAgree
<1> QED
  BY <1>2, SumIsFcn

=============================================================================
