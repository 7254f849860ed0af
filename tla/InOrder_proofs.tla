--------------------------- MODULE InOrder_proofs ---------------------------
(***************************************************************************)
(* What selecting in order preserves: how many elements there are, which   *)
(* ones, how often each, and that selecting from two pieces is selecting   *)
(* from the whole.                                                         *)
(***************************************************************************)
EXTENDS InOrder, FunctionTheorems, FiniteSetTheorems, SequenceTheorems, TLAPS

StrictOrder(R, S) ==
    /\ \A x \in S : <<x, x>> \notin R
    /\ \A x, y \in S : x # y => <<x, y>> \in R \/ <<y, x>> \in R
    /\ \A x, y, z \in S : <<x, y>> \in R /\ <<y, z>> \in R => <<x, z>> \in R

\* A function on 1..n is a sequence of length n.
LEMMA FunctionIsSequence ==
    ASSUME NEW V, NEW n \in Nat, NEW s \in [1..n -> V]
    PROVE  s \in Seq(V) /\ Len(s) = n /\ DOMAIN s = 1..n
  OBVIOUS

\* Every member has its own place, and every place its member.
LEMMA RankedBijection ==
    ASSUME NEW S, IsFiniteSet(S), NEW R, StrictOrder(R, S)
    PROVE  /\ Ranked(S, R) \in Bijection(1..Cardinality(S), S)
           /\ \A i, j \in 1..Cardinality(S) :
                i < j => <<Ranked(S, R)[i], Ranked(S, R)[j]>> \in R
           /\ \A k \in 1..Cardinality(S), x \in S :
                Cardinality({y \in S : <<y, x>> \in R}) = k - 1 => Ranked(S, R)[k] = x
  <1> DEFINE n == Cardinality(S)
             Before(x) == {y \in S : <<y, x>> \in R}
             place == [x \in S |-> Cardinality(Before(x))]
             nth == Ranked(S, R)
  <1>1. n \in Nat
    BY FS_CardinalityType
  <1>2. ASSUME NEW x \in S
        PROVE  IsFiniteSet(Before(x)) /\ Cardinality(Before(x)) \in 0..(n - 1)
    <2>1. /\ IsFiniteSet(Before(x)) /\ Cardinality(Before(x)) <= n
          /\ n = Cardinality(Before(x)) => S = Before(x)
      BY FS_Subset
    <2>2. Cardinality(Before(x)) \in Nat
      BY <2>1, FS_CardinalityType
    <2>3. x \notin Before(x)
      BY DEF StrictOrder
    <2> QED BY <1>1, <2>1, <2>2, <2>3
  <1>3. ASSUME NEW x \in S, NEW y \in S, <<x, y>> \in R
        PROVE  Cardinality(Before(x)) < Cardinality(Before(y))
    <2>1. Before(x) \in SUBSET Before(y)
      BY <1>3 DEF StrictOrder
    <2>2. x \in Before(y) /\ x \notin Before(x)
      BY <1>3 DEF StrictOrder
    <2>3. IsFiniteSet(Before(y))
      BY <1>2
    <2>4. /\ Cardinality(Before(x)) <= Cardinality(Before(y))
          /\ Cardinality(Before(y)) = Cardinality(Before(x)) => Before(y) = Before(x)
      BY <2>1, <2>3, FS_Subset
    <2>5. Cardinality(Before(x)) \in Nat /\ Cardinality(Before(y)) \in Nat
      BY <1>2
    <2> QED BY <2>2, <2>4, <2>5
  <1>4. place \in [S -> 0..(n - 1)]
    BY <1>2
  <1>5. \A x, y \in S : place[x] = place[y] => x = y
    <2> SUFFICES ASSUME NEW x \in S, NEW y \in S, place[x] = place[y], x # y
                 PROVE  FALSE
      OBVIOUS
    <2>1. <<x, y>> \in R \/ <<y, x>> \in R
      BY DEF StrictOrder
    <2>2. place[x] < place[y] \/ place[y] < place[x]
      BY <1>3, <2>1
    <2> QED BY <1>2, <2>2
  <1>6. place \in Injection(S, 0..(n - 1))
    BY <1>4, <1>5, Fun_IsInj
  <1>7. IsFiniteSet(0..(n - 1)) /\ Cardinality(0..(n - 1)) = n
    BY <1>1, FS_Interval
  <1>8. place \in Surjection(S, 0..(n - 1))
    BY <1>6, <1>7, FS_Injection
  <1> HIDE DEF place
  <1>9. ASSUME NEW k \in 1..n
        PROVE  nth[k] \in S /\ place[nth[k]] = k - 1
    <2>1. k - 1 \in 0..(n - 1)
      BY <1>1
    <2>2. \E x \in S : place[x] = k - 1
      BY <1>8, <2>1 DEF Surjection
    <2>3. \E x \in S : Cardinality({y \in S : <<y, x>> \in R}) = k - 1
      BY <2>2 DEF place
    <2>4. nth[k] = CHOOSE x \in S : Cardinality({y \in S : <<y, x>> \in R}) = k - 1
      BY DEF Ranked
    <2>5. nth[k] \in S /\ Cardinality({y \in S : <<y, nth[k]>> \in R}) = k - 1
      BY <2>3, <2>4
    <2> QED BY <2>5 DEF place
  <1>10. nth \in [1..n -> S]
    BY <1>9 DEF Ranked
  <1> HIDE DEF nth
  <1>11. \A i, j \in 1..n : nth[i] = nth[j] => i = j
    BY <1>1, <1>9
  <1>12. \A x \in S : \E k \in 1..n : nth[k] = x
    <2> TAKE x \in S
    <2>1. place[x] \in 0..(n - 1)
      BY <1>4
    <2>0. place[x] + 1 \in 1..n
      BY <1>1, <2>1
    <2> WITNESS place[x] + 1 \in 1..n
    <2>2. place[nth[place[x] + 1]] = place[x] /\ nth[place[x] + 1] \in S
      BY <1>1, <1>9, <2>1
    <2> QED BY <1>5, <2>2
  <1>13. \A i, j \in 1..n : i < j => <<nth[i], nth[j]>> \in R
    <2> SUFFICES ASSUME NEW i \in 1..n, NEW j \in 1..n, i < j, <<nth[i], nth[j]>> \notin R
                 PROVE  FALSE
      OBVIOUS
    <2>1. nth[i] \in S /\ nth[j] \in S /\ place[nth[i]] = i - 1 /\ place[nth[j]] = j - 1
      BY <1>9
    <2>2. nth[i] # nth[j]
      BY <1>1, <2>1
    <2>3. <<nth[j], nth[i]>> \in R
      BY <2>1, <2>2 DEF StrictOrder
    <2>4. place[nth[j]] < place[nth[i]]
      BY <1>3, <2>1, <2>3 DEF place
    <2> QED BY <1>1, <2>1, <2>4
  <1>14. nth \in Bijection(1..n, S)
    BY <1>10, <1>11, <1>12, Fun_IsBij
  <1>15. \A k \in 1..n, x \in S : Cardinality(Before(x)) = k - 1 => nth[k] = x
    BY <1>5, <1>9 DEF place
  <1> QED BY <1>13, <1>14, <1>15 DEF nth
\* The natural order of a set of integers is strict and total.
LEMMA AscendingOrder ==
    ASSUME NEW S \in SUBSET Int
    PROVE  StrictOrder(Ascending(S), S)
  <1>1. \A x, y \in S : <<x, y>> \in Ascending(S) <=> x < y
    BY DEF Ascending
  <1> QED BY <1>1 DEF StrictOrder

\* The members of a preimage under a bijection are as many as its image has.
Preimage(f, A, P) == {a \in A : f[a] \in P}

\* A bijection from A to B maps as many elements of A into P as B has in P.
LEMMA CountThrough ==
    ASSUME NEW A, NEW B, NEW f \in Bijection(A, B), IsFiniteSet(A), NEW P
    PROVE  Cardinality(Preimage(f, A, P)) = Cardinality(B \cap P)
  <1> DEFINE Q == Preimage(f, A, P)
             g == [a \in Q |-> f[a]]
  <1>1. IsFiniteSet(Q)
    <2>1. Q \in SUBSET A
      BY DEF Preimage
    <2> QED BY <2>1, FS_Subset
  <1>2. g \in [Q -> B \cap P]
    BY Fun_BijectionProperties DEF Preimage
  <1>3. \A a, b \in Q : g[a] = g[b] => a = b
    BY Fun_BijectionProperties DEF Preimage
  <1>4. \A t \in B \cap P : \E a \in Q : g[a] = t
    BY Fun_BijectionProperties DEF Preimage
  <1>5. g \in Bijection(Q, B \cap P)
    BY <1>2, <1>3, <1>4, Fun_IsBij
  <1>6. ExistsBijection(Q, B \cap P)
    BY <1>5 DEF ExistsBijection
  <1> QED BY <1>1, <1>6, FS_Bijection

\* e lists S from the lowest to the highest, n members in all.
Lists(e, n, S) ==
    /\ n \in Nat
    /\ e \in [1..n -> S]
    /\ \A i, j \in 1..n : i < j => e[i] < e[j]
    /\ \A x \in S : \E k \in 1..n : e[k] = x

Through(s, e, n) == [k \in 1..n |-> s[e[k]]]

\* An enumeration of S is a bijection, so S is finite and as large as its index set.
LEMMA ListsBijection ==
    ASSUME NEW S \in SUBSET Int, NEW n, NEW e, Lists(e, n, S)
    PROVE  /\ e \in Bijection(1..n, S)
           /\ IsFiniteSet(1..n) /\ Cardinality(1..n) = n
           /\ IsFiniteSet(S) /\ Cardinality(S) = n
  <1> USE DEF Lists
  <1>1. \A i, j \in 1..n : e[i] = e[j] => i = j
    <2> SUFFICES ASSUME NEW i \in 1..n, NEW j \in 1..n, e[i] = e[j], i # j
                 PROVE  FALSE
      OBVIOUS
    <2>1. e[i] \in Int /\ e[j] \in Int
      OBVIOUS
    <2>2. e[i] < e[j] \/ e[j] < e[i]
      OBVIOUS
    <2> QED BY <2>1, <2>2
  <1>2. e \in Bijection(1..n, S)
    BY <1>1, Fun_IsBij
  <1>3. IsFiniteSet(1..n) /\ Cardinality(1..n) = n
    BY FS_Interval
  <1>4. ExistsBijection(1..n, S)
    BY <1>2 DEF ExistsBijection
  <1> QED BY <1>2, <1>3, <1>4, FS_Bijection

\* An enumeration of S meets P as often as S has elements in P.
LEMMA CountListed ==
    ASSUME NEW S \in SUBSET Int, NEW n, NEW e, Lists(e, n, S), NEW P
    PROVE  Cardinality(Preimage(e, 1..n, P)) = Cardinality(S \cap P)
  <1> DEFINE D == 1..n
  <1>1. e \in Bijection(D, S) /\ IsFiniteSet(D)
    BY ListsBijection
  <1> HIDE DEF D
  <1>2. Cardinality(Preimage(e, D, P)) = Cardinality(S \cap P)
    BY <1>1, CountThrough
  <1> QED BY <1>2 DEF D

\* Where(s, S) goes through such a list ...
LEMMA WhereEnumerates ==
    ASSUME NEW s, NEW S \in SUBSET Int, IsFiniteSet(S)
    PROVE  \E at : /\ Lists(at, Cardinality(S), S)
                   /\ Where(s, S) = Through(s, at, Cardinality(S))
  <1> DEFINE at == Ranked(S, Ascending(S))
  <1>1. StrictOrder(Ascending(S), S)
    BY AscendingOrder
  <1>2. /\ at \in Bijection(1..Cardinality(S), S)
        /\ \A i, j \in 1..Cardinality(S) : i < j => <<at[i], at[j]>> \in Ascending(S)
    BY <1>1, RankedBijection
  <1>3. \A i, j \in 1..Cardinality(S) : i < j => at[i] < at[j]
    BY <1>2 DEF Ascending
  <1>4. /\ at \in [1..Cardinality(S) -> S]
        /\ \A i \in S : \E k \in 1..Cardinality(S) : at[k] = i
    BY <1>2 DEF Bijection, Surjection
  <1>5. Cardinality(S) \in Nat
    BY FS_CardinalityType
  <1>6. Lists(at, Cardinality(S), S)
    BY <1>3, <1>4, <1>5 DEF Lists
  <1>7. Where(s, S) = Through(s, at, Cardinality(S))
    BY DEF Where, Through
  <1> QED BY <1>6, <1>7

\* ... and there is only one.
LEMMA WhereIs ==
    ASSUME NEW s, NEW S \in SUBSET Int, NEW n, NEW e, Lists(e, n, S)
    PROVE  Where(s, S) = Through(s, e, n)
  <1>1. /\ e \in Bijection(1..n, S)
        /\ IsFiniteSet(1..n)
        /\ IsFiniteSet(S) /\ Cardinality(S) = n
    BY ListsBijection
  <1>2. ASSUME NEW k \in 1..n
        PROVE  Ranked(S, Ascending(S))[k] = e[k]
    <2> USE DEF Lists
    <2> DEFINE P == {y \in S : <<y, e[k]>> \in Ascending(S)}
    <2>1. \A i \in 1..n : e[i] < e[k] <=> i < k
      <3> TAKE i \in 1..n
      <3>1. e[i] \in Int /\ e[k] \in Int
        OBVIOUS
      <3>2. i < k => e[i] < e[k]
        OBVIOUS
      <3>3. k < i => e[k] < e[i]
        OBVIOUS
      <3>4. i = k => e[i] = e[k]
        OBVIOUS
      <3> QED BY <3>1, <3>2, <3>3, <3>4
    <2>2. \A i \in 1..n : e[i] \in P <=> i < k
      BY <2>1 DEF Ascending
    <2>3. S \cap P = P
      OBVIOUS
    <2> HIDE DEF P
    <2>4. Preimage(e, 1..n, P) = 1..(k - 1)
      BY <2>2 DEF Preimage
    <2>5. Cardinality(1..(k - 1)) = k - 1
      BY FS_Interval
    <2>6. Cardinality(P) = k - 1
      <3> HIDE DEF Lists
      <3>1. Cardinality(Preimage(e, 1..n, P)) = Cardinality(S \cap P)
        BY CountListed
      <3> QED BY <2>3, <2>4, <2>5, <3>1
    <2>7. StrictOrder(Ascending(S), S)
      BY AscendingOrder
    <2> QED BY <1>1, <2>6, <2>7, RankedBijection DEF P
  <1> QED BY <1>1, <1>2 DEF Where, Through

-----------------------------------------------------------------------------
(* The selected sequence *)

\* Its type and its length.
LEMMA WhereType ==
    ASSUME NEW V, NEW s, NEW S \in SUBSET Int, IsFiniteSet(S), \A i \in S : s[i] \in V
    PROVE  /\ Where(s, S) \in Seq(V)
           /\ Len(Where(s, S)) = Cardinality(S)
           /\ DOMAIN Where(s, S) = 1..Cardinality(S)
           /\ Cardinality(S) \in Nat
  <1>1. PICK at : /\ Lists(at, Cardinality(S), S)
                  /\ Where(s, S) = Through(s, at, Cardinality(S))
    BY WhereEnumerates
  <1>2. Where(s, S) \in [1..Cardinality(S) -> V] /\ Cardinality(S) \in Nat
    BY <1>1 DEF Lists, Through
  <1> QED BY <1>2

\* It holds exactly the elements selected.
LEMMA WhereElements ==
    ASSUME NEW s, NEW S \in SUBSET Int, IsFiniteSet(S)
    PROVE  /\ \A k \in DOMAIN Where(s, S) : \E i \in S : Where(s, S)[k] = s[i]
           /\ \A i \in S : \E k \in DOMAIN Where(s, S) : Where(s, S)[k] = s[i]
  <1>1. PICK at : /\ Lists(at, Cardinality(S), S)
                  /\ Where(s, S) = Through(s, at, Cardinality(S))
    BY WhereEnumerates
  <1>2. /\ DOMAIN Where(s, S) = 1..Cardinality(S)
        /\ \A k \in 1..Cardinality(S) : Where(s, S)[k] = s[at[k]] /\ at[k] \in S
    BY <1>1 DEF Lists, Through
  <1> QED BY <1>1, <1>2 DEF Lists

\* Nothing else than the elements selected matters.
LEMMA WhereSame ==
    ASSUME NEW s, NEW t, NEW S \in SUBSET Int, IsFiniteSet(S), \A i \in S : s[i] = t[i]
    PROVE  Where(s, S) = Where(t, S)
  <1>1. PICK at : Lists(at, Cardinality(S), S)
    BY WhereEnumerates
  <1>2. /\ Where(s, S) = Through(s, at, Cardinality(S))
        /\ Where(t, S) = Through(t, at, Cardinality(S))
    BY <1>1, WhereIs
  <1> QED BY <1>1, <1>2 DEF Lists, Through

\* Selecting no index gives the empty sequence.
LEMMA WhereNone ==
    ASSUME NEW s
    PROVE  Where(s, {}) = <<>>
  <1>1. Cardinality({}) = 0
    BY FS_EmptySet
  <1> QED BY <1>1 DEF Where

\* Selecting everything.
LEMMA WhereAll ==
    ASSUME NEW V, NEW s \in Seq(V)
    PROVE  Where(s, 1..Len(s)) = s
  <1> DEFINE e == [k \in 1..Len(s) |-> k]
  <1>1. Lists(e, Len(s), 1..Len(s))
    BY DEF Lists
  <1>2. Where(s, 1..Len(s)) = Through(s, e, Len(s))
    BY <1>1, WhereIs
  <1> QED BY <1>2 DEF Through

\* One index more, above all others: the element is appended.
LEMMA WhereAppend ==
    ASSUME NEW V, NEW s, NEW S \in SUBSET Int, IsFiniteSet(S), \A i \in S : s[i] \in V,
           NEW m \in Int, \A i \in S : i < m
    PROVE  Where(s, S \cup {m}) = Append(Where(s, S), s[m])
  <1>1. PICK n, at : Lists(at, n, S) /\ Where(s, S) = Through(s, at, n)
    BY WhereEnumerates
  <1> DEFINE e == [k \in 1..(n + 1) |-> IF k <= n THEN at[k] ELSE m]
  <1>2. n \in Nat
    BY <1>1 DEF Lists
  <1>3. \A k \in 1..n : k \in 1..(n + 1) /\ e[k] = at[k] /\ at[k] \in S
    BY <1>1 DEF Lists
  <1>4. n + 1 \in 1..(n + 1) /\ e[n + 1] = m
    BY <1>2
  <1>5. \A k \in 1..(n + 1) : k \in 1..n \/ k = n + 1
    BY <1>2
  <1>6. e \in [1..(n + 1) -> S \cup {m}]
    BY <1>3, <1>4, <1>5
  <1> HIDE DEF e
  <1>7. \A i, j \in 1..(n + 1) : i < j => e[i] < e[j]
    <2> SUFFICES ASSUME NEW i \in 1..(n + 1), NEW j \in 1..(n + 1), i < j
                 PROVE  e[i] < e[j]
      OBVIOUS
    <2>1. i \in 1..n
      BY <1>2
    <2>2. CASE j = n + 1
      BY <1>3, <1>4, <2>1, <2>2
    <2>3. CASE j \in 1..n
      BY <1>1, <1>3, <2>1, <2>3 DEF Lists
    <2> QED BY <1>5, <2>2, <2>3
  <1>8. \A x \in S \cup {m} : \E k \in 1..(n + 1) : e[k] = x
    BY <1>1, <1>3, <1>4 DEF Lists
  <1>9. Lists(e, n + 1, S \cup {m})
    BY <1>2, <1>6, <1>7, <1>8 DEF Lists
  <1>10. Where(s, S \cup {m}) = Through(s, e, n + 1)
    BY <1>9, WhereIs
  <1>11. Through(s, at, n) \in [1..n -> V]
    BY <1>1 DEF Through, Lists
  <1>12. Append(Through(s, at, n), s[m])
           = [k \in 1..(n + 1) |-> IF k = n + 1 THEN s[m] ELSE Through(s, at, n)[k]]
    BY <1>2, <1>11
  <1>13. \A k \in 1..(n + 1) :
           s[e[k]] = IF k = n + 1 THEN s[m] ELSE Through(s, at, n)[k]
    BY <1>2, <1>3, <1>4, <1>5 DEF Through
  <1> QED BY <1>1, <1>10, <1>12, <1>13 DEF Through

\* Selecting from two pieces is selecting from the whole.
Shifted(T, m) == {m + i : i \in T}

Joins(u, s, t) == u = s \o t

\* Selecting from a concatenation is concatenating the selections.
LEMMA WhereConcat ==
    ASSUME NEW V, NEW s \in Seq(V), NEW t \in Seq(V),
           NEW S \in SUBSET (1..Len(s)), NEW T \in SUBSET (1..Len(t)),
           NEW u, Joins(u, s, t), NEW W, W = S \cup Shifted(T, Len(s))
    PROVE  Joins(Where(u, W), Where(s, S), Where(t, T))
  <1> DEFINE m == Len(s)
             U == S \cup Shifted(T, m)
             ws == Where(s, S)
             wt == Where(t, T)
  <1>1. m \in Nat /\ S \in SUBSET Int /\ T \in SUBSET Int
    OBVIOUS
  <1>2. IsFiniteSet(S) /\ IsFiniteSet(T)
    <2>1. IsFiniteSet(1..Len(s)) /\ IsFiniteSet(1..Len(t))
      BY FS_Interval
    <2> QED BY <2>1, FS_Subset
  <1>3. PICK a, d : Lists(d, a, S) /\ ws = Through(s, d, a)
    BY <1>1, <1>2, WhereEnumerates
  <1>4. PICK b, f : Lists(f, b, T) /\ wt = Through(t, f, b)
    BY <1>1, <1>2, WhereEnumerates
  <1>5. a \in Nat /\ b \in Nat
    BY <1>3, <1>4 DEF Lists
  <1>6. /\ \A i \in S : s[i] \in V /\ i \in Int /\ i <= m
        /\ \A i \in T : t[i] \in V /\ i \in Int /\ m + i \in Int /\ m < m + i
    OBVIOUS
  <1>7. /\ ws \in Seq(V) /\ Len(ws) = a
        /\ wt \in Seq(V) /\ Len(wt) = b
    <2>1. Cardinality(S) = a /\ Cardinality(T) = b
      BY <1>1, <1>3, <1>4, ListsBijection
    <2> QED BY <1>1, <1>2, <1>6, <2>1, WhereType
  <1>8. /\ \A k \in 1..a : ws[k] = s[d[k]] /\ d[k] \in S
        /\ \A k \in 1..b : wt[k] = t[f[k]] /\ f[k] \in T
    BY <1>3, <1>4 DEF Lists, Through
  <1> DEFINE e == [k \in 1..(a + b) |-> IF k <= a THEN d[k] ELSE m + f[k - a]]
  <1>9. \A k \in 1..a : k \in 1..(a + b) /\ e[k] = d[k]
    BY <1>5
  <1>10. \A k \in 1..b : a + k \in 1..(a + b) /\ e[a + k] = m + f[k]
    BY <1>5
  <1>11. \A k \in 1..(a + b) : k \in 1..a \/ \E q \in 1..b : k = a + q
    <2> TAKE k \in 1..(a + b)
    <2>1. k \in 1..a \/ (k - a \in 1..b /\ k = a + (k - a))
      BY <1>5
    <2> QED BY <2>1
  <1>12. e = [k \in 1..(a + b) |-> e[k]]
    OBVIOUS
  <1> HIDE DEF m, e, ws, wt
  <1>13. e \in [1..(a + b) -> U]
    <2>1. ASSUME NEW k \in 1..(a + b) PROVE e[k] \in U
      <3>1. CASE k \in 1..a
        BY <1>8, <1>9, <3>1
      <3>2. CASE \E q \in 1..b : k = a + q
        <4>1. PICK q \in 1..b : k = a + q
          BY <3>2
        <4>2. e[k] = m + f[q] /\ f[q] \in T
          BY <1>8, <1>10, <4>1
        <4> QED BY <4>2 DEF Shifted
      <3> QED BY <1>11, <3>1, <3>2
    <2> QED BY <1>12, <2>1
  <1>14. \A i, j \in 1..(a + b) : i < j => e[i] < e[j]
    <2> SUFFICES ASSUME NEW i \in 1..(a + b), NEW j \in 1..(a + b), i < j
                 PROVE  e[i] < e[j]
      OBVIOUS
    <2>1. CASE i \in 1..a /\ j \in 1..a
      BY <1>3, <1>9, <2>1 DEF Lists
    <2>2. CASE i \in 1..a /\ \E q \in 1..b : j = a + q
      <3>1. PICK q \in 1..b : j = a + q
        BY <2>2
      <3>2. e[i] = d[i] /\ d[i] \in S /\ e[j] = m + f[q] /\ f[q] \in T
        BY <1>8, <1>9, <1>10, <2>2, <3>1
      <3>3. d[i] \in Int /\ d[i] <= m /\ m + f[q] \in Int /\ m < m + f[q]
        BY <1>6, <3>2
      <3> QED BY <1>1, <3>2, <3>3
    <2>3. CASE (\E p \in 1..b : i = a + p) /\ (\E q \in 1..b : j = a + q)
      <3>1. PICK p \in 1..b, q \in 1..b : i = a + p /\ j = a + q
        BY <2>3
      <3>2. p < q
        BY <1>5, <3>1
      <3>3. f[p] < f[q]
        BY <1>4, <3>2 DEF Lists
      <3>4. f[p] \in Int /\ f[q] \in Int /\ e[i] = m + f[p] /\ e[j] = m + f[q]
        BY <1>6, <1>8, <1>10, <3>1
      <3> QED BY <1>1, <3>3, <3>4
    <2>4. ~((\E p \in 1..b : i = a + p) /\ j \in 1..a)
      BY <1>5
    <2> QED BY <1>11, <2>1, <2>2, <2>3, <2>4
  <1>15. \A x \in U : \E k \in 1..(a + b) : e[k] = x
    <2> TAKE x \in U
    <2>1. CASE x \in S
      BY <1>3, <1>9, <2>1 DEF Lists
    <2>2. CASE x \in Shifted(T, m)
      <3>1. PICK i \in T : x = m + i
        BY <2>2 DEF Shifted
      <3>2. PICK k \in 1..b : f[k] = i
        BY <1>4 DEF Lists
      <3> QED BY <1>10, <3>1, <3>2
    <2> QED BY <2>1, <2>2
  <1>16. Lists(e, a + b, U)
    BY <1>5, <1>13, <1>14, <1>15 DEF Lists
  <1>17. U \in SUBSET Int
    BY <1>6 DEF Shifted
  <1>18. Where(s \o t, U) = Through(s \o t, e, a + b)
    BY <1>16, <1>17, WhereIs
  <1>19. \A k \in 1..(a + b) : (s \o t)[e[k]] = (ws \o wt)[k]
    <2> TAKE k \in 1..(a + b)
    <2>1. CASE k \in 1..a
      <3>1. e[k] \in 1..Len(s) /\ e[k] = d[k]
        BY <1>8, <1>9, <2>1
      <3>2. (s \o t)[e[k]] = s[d[k]]
        BY <3>1
      <3>3. (ws \o wt)[k] = ws[k]
        BY <1>5, <1>7, <2>1
      <3> QED BY <1>8, <2>1, <3>2, <3>3
    <2>2. CASE \E q \in 1..b : k = a + q
      <3>1. PICK q \in 1..b : k = a + q
        BY <2>2
      <3>2. e[k] = Len(s) + f[q] /\ f[q] \in 1..Len(t)
        BY <1>8, <1>10, <3>1 DEF m
      <3>3. (s \o t)[e[k]] = t[f[q]]
        BY <3>2
      <3>4. (ws \o wt)[k] = wt[q]
        BY <1>5, <1>7, <3>1
      <3> QED BY <1>8, <3>3, <3>4
    <2> QED BY <1>11, <2>1, <2>2
  <1>20. ws \o wt = [k \in 1..(a + b) |-> (ws \o wt)[k]]
    <2>1. ws \o wt \in Seq(V) /\ Len(ws \o wt) = a + b
      BY <1>7, ConcatProperties
    <2>2. ws \o wt \in [1..(a + b) -> V]
      BY <2>1, LenProperties
    <2> QED BY <2>2
  <1>21. Where(s \o t, U) = ws \o wt
    BY <1>18, <1>19, <1>20 DEF Through
  <1> QED BY <1>21 DEF ws, wt, m, U, Joins

\* A set of numbers that is not empty has a least one.
LEMMA LeastMember ==
    ASSUME NEW S \in SUBSET Int, IsFiniteSet(S), S # {}
    PROVE  \E k \in S : \A j \in S : k <= j
  <1>1. PICK n, e : Lists(e, n, S)
    BY WhereEnumerates
  <1>2. PICK x \in S : TRUE
    OBVIOUS
  <1>3. PICK i \in 1..n : e[i] = x
    BY <1>1 DEF Lists
  <1>4. n \in Nat /\ 1 \in 1..n /\ e[1] \in S
    BY <1>1, <1>3 DEF Lists
  <1>5. ASSUME NEW j \in S PROVE e[1] <= j
    <2>1. PICK k \in 1..n : e[k] = j
      BY <1>1 DEF Lists
    <2>2. k = 1 \/ e[1] < e[k]
      BY <1>1, <1>4 DEF Lists
    <2>3. e[1] \in Int /\ j \in Int
      BY <1>4
    <2>4. CASE k = 1
      BY <2>1, <2>3, <2>4
    <2>5. CASE e[1] < e[k]
      BY <2>1, <2>3, <2>5
    <2> QED BY <2>2, <2>4, <2>5
  <1> QED BY <1>4, <1>5

-----------------------------------------------------------------------------
(* Counting *)

\* An element occurs as often as it was selected.
LEMMA OccurrencesWhere ==
    ASSUME NEW s, NEW S \in SUBSET Int, IsFiniteSet(S), NEW x
    PROVE  Occurrences(x, Where(s, S)) = Cardinality({i \in S : s[i] = x})
  <1> DEFINE P == {i \in S : s[i] = x}
  <1>1. PICK n, e : Lists(e, n, S) /\ Where(s, S) = Through(s, e, n)
    BY WhereEnumerates
  <1>3. S \cap P = P
    OBVIOUS
  <1>4. {k \in DOMAIN Through(s, e, n) : Through(s, e, n)[k] = x} = Preimage(e, 1..n, P)
    BY <1>1 DEF Through, Preimage, Lists
  <1> HIDE DEF P
  <1>5. Cardinality(Preimage(e, 1..n, P)) = Cardinality(S \cap P)
    BY <1>1, CountListed
  <1> QED BY <1>1, <1>3, <1>4, <1>5 DEF Occurrences, P

\* Moving a set of numbers changes nothing about their number.
LEMMA CountShifted ==
    ASSUME NEW T \in SUBSET Int, IsFiniteSet(T), NEW m \in Int
    PROVE  IsFiniteSet(Shifted(T, m)) /\ Cardinality(Shifted(T, m)) = Cardinality(T)
  <1> DEFINE f == [i \in T |-> m + i]
  <1>1. f \in [T -> Shifted(T, m)]
    BY DEF Shifted
  <1>2. \A i, j \in T : f[i] = f[j] => i = j
    OBVIOUS
  <1>3. \A x \in Shifted(T, m) : \E i \in T : f[i] = x
    BY DEF Shifted
  <1>4. f \in Bijection(T, Shifted(T, m))
    BY <1>1, <1>2, <1>3, Fun_IsBij
  <1> QED BY <1>4, FS_Bijection DEF ExistsBijection

\* An element occurs in a concatenation as often as in its two parts together.
LEMMA OccurrencesConcat ==
    ASSUME NEW V, NEW s \in Seq(V), NEW t \in Seq(V), NEW x
    PROVE  /\ Occurrences(x, s \o t) = Occurrences(x, s) + Occurrences(x, t)
           /\ Occurrences(x, s) \in Nat /\ Occurrences(x, t) \in Nat
  <1> DEFINE A == {k \in 1..Len(s) : s[k] = x}
             B == {k \in 1..Len(t) : t[k] = x}
             C == {k \in 1..(Len(s) + Len(t)) : (s \o t)[k] = x}
  <1>1. C = A \cup Shifted(B, Len(s))
    <2>1. ASSUME NEW k \in C PROVE k \in A \cup Shifted(B, Len(s))
      <3>1. CASE k <= Len(s)
        BY <3>1
      <3>2. CASE ~(k <= Len(s))
        <4>1. k - Len(s) \in 1..Len(t) /\ t[k - Len(s)] = x /\ k = Len(s) + (k - Len(s))
          BY <3>2
        <4> QED BY <4>1 DEF Shifted
      <3> QED BY <3>1, <3>2
    <2>2. ASSUME NEW k \in A PROVE k \in C
      OBVIOUS
    <2>3. ASSUME NEW k \in Shifted(B, Len(s)) PROVE k \in C
      <3>1. PICK i \in B : k = Len(s) + i
        BY DEF Shifted
      <3> QED BY <3>1
    <2> QED BY <2>1, <2>2, <2>3
  <1>2. IsFiniteSet(A) /\ IsFiniteSet(B) /\ B \in SUBSET Int
    <2>1. IsFiniteSet(1..Len(s)) /\ IsFiniteSet(1..Len(t))
      BY FS_Interval
    <2> QED BY <2>1, FS_Subset
  <1>3. A \cap Shifted(B, Len(s)) = {}
    BY DEF Shifted
  <1>4. /\ DOMAIN s = 1..Len(s) /\ DOMAIN t = 1..Len(t)
        /\ DOMAIN (s \o t) = 1..(Len(s) + Len(t))
    OBVIOUS
  <1>5. Len(s) \in Int
    OBVIOUS
  <1> HIDE DEF A, B, C
  <1>6. IsFiniteSet(Shifted(B, Len(s))) /\ Cardinality(Shifted(B, Len(s))) = Cardinality(B)
    BY <1>2, <1>5, CountShifted
  <1>7. Cardinality(A) \in Nat /\ Cardinality(B) \in Nat
    BY <1>2, FS_CardinalityType
  <1>8. Cardinality(C) = Cardinality(A) + Cardinality(B)
    <2>1. Cardinality(A \cup Shifted(B, Len(s)))
            = Cardinality(A) + Cardinality(B) - Cardinality(A \cap Shifted(B, Len(s)))
      BY <1>2, <1>6, FS_Union
    <2>2. Cardinality(A \cap Shifted(B, Len(s))) = 0
      BY <1>3, FS_EmptySet
    <2> QED BY <1>1, <1>7, <2>1, <2>2
  <1> QED BY <1>4, <1>7, <1>8 DEF Occurrences, A, B, C

-----------------------------------------------------------------------------
(* Rearranging *)

\* e goes through S once, in any order.
Draws(e, n, S) ==
    /\ n \in Nat
    /\ e \in [1..n -> S]
    /\ \A i, j \in 1..n : e[i] = e[j] => i = j
    /\ \A x \in S : \E k \in 1..n : e[k] = x

\* t has the elements of s at the indices in S, in any order.
Drawn(t, s, S) == \E n, e : Draws(e, n, S) /\ t = Through(s, e, n)

\* A selection in the order of the sequence is one of the drawings.
LEMMA DrawnWhere ==
    ASSUME NEW s, NEW S \in SUBSET Int, IsFiniteSet(S)
    PROVE  Drawn(Where(s, S), s, S)
  <1>1. PICK n, e : Lists(e, n, S) /\ Where(s, S) = Through(s, e, n)
    BY WhereEnumerates
  <1>2. e \in Bijection(1..n, S)
    BY <1>1, ListsBijection
  <1>3. \A i, j \in 1..n : e[i] = e[j] => i = j
    BY <1>2 DEF Bijection, Injection, IsInjective
  <1>4. Draws(e, n, S)
    BY <1>1, <1>3 DEF Lists, Draws
  <1> QED BY <1>1, <1>4 DEF Drawn

\* A drawing has the selected elements and no others.
LEMMA DrawnElements ==
    ASSUME NEW s, NEW S, NEW t, Drawn(t, s, S)
    PROVE  /\ \A k \in DOMAIN t : \E i \in S : t[k] = s[i]
           /\ \A i \in S : \E k \in DOMAIN t : t[k] = s[i]
  <1>1. PICK n, e : Draws(e, n, S) /\ t = Through(s, e, n)
    BY DEF Drawn
  <1> QED BY <1>1 DEF Draws, Through

\* A drawing is a sequence over the type of what it is drawn from.
LEMMA DrawnType ==
    ASSUME NEW V, NEW s, NEW S, NEW t, Drawn(t, s, S), \A i \in S : s[i] \in V
    PROVE  t \in Seq(V)
  <1>1. PICK n, e : Draws(e, n, S) /\ t = Through(s, e, n)
    BY DEF Drawn
  <1>2. n \in Nat /\ t \in [1..n -> V]
    BY <1>1 DEF Draws, Through
  <1> QED BY <1>2

\* As many elements are in P as were before.
Among(s, S, P) == {i \in S : s[i] \in P}

\* A drawing has as many elements in P as the selected indices have, repetitions
\* counted.
LEMMA DrawnCount ==
    ASSUME NEW s, NEW S, NEW t, Drawn(t, s, S), NEW P
    PROVE  /\ Cardinality(Among(t, DOMAIN t, P)) = Cardinality(Among(s, S, P))
           /\ IsFiniteSet(S) /\ DOMAIN t = 1..Cardinality(S) /\ Cardinality(S) \in Nat
  <1>1. PICK n, e : Draws(e, n, S) /\ t = Through(s, e, n)
    BY DEF Drawn
  <1> DEFINE D == 1..n
             Q == Among(s, S, P)
  <1>2. e \in Bijection(D, S)
    BY <1>1, Fun_IsBij DEF Draws
  <1>3. IsFiniteSet(D) /\ Cardinality(D) = n
    BY <1>1, FS_Interval DEF Draws
  <1>4. Among(t, DOMAIN t, P) = Preimage(e, D, Q)
    BY <1>1 DEF Draws, Through, Preimage, Among
  <1>5. S \cap Q = Q /\ DOMAIN t = D /\ n \in Nat
    BY <1>1 DEF Draws, Through, Among
  <1> HIDE DEF D, Q
  <1>6. Cardinality(Preimage(e, D, Q)) = Cardinality(S \cap Q)
    BY <1>2, <1>3, CountThrough
  <1>7. IsFiniteSet(S) /\ Cardinality(S) = n
    BY <1>2, <1>3, FS_Bijection DEF ExistsBijection
  <1> QED BY <1>4, <1>5, <1>6, <1>7 DEF D, Q

\* One drawing from another.
LEMMA DrawnFrom ==
    ASSUME NEW s, NEW S, NEW u, Drawn(u, s, S), NEW t, Drawn(t, u, DOMAIN u)
    PROVE  Drawn(t, s, S)
  <1>1. PICK n, e : Draws(e, n, S) /\ u = Through(s, e, n)
    BY DEF Drawn
  <1>2. DOMAIN u = 1..n
    BY <1>1 DEF Through
  <1>3. PICK m, d : Draws(d, m, 1..n) /\ t = Through(u, d, m)
    BY <1>2 DEF Drawn
  <1> DEFINE g == [k \in 1..m |-> e[d[k]]]
  <1>4. m \in Nat /\ \A k \in 1..m : d[k] \in 1..n /\ e[d[k]] \in S /\ u[d[k]] = s[e[d[k]]]
    BY <1>1, <1>3 DEF Draws, Through
  <1>5. \A i, j \in 1..m : g[i] = g[j] => i = j
    BY <1>1, <1>3, <1>4 DEF Draws
  <1>6. \A x \in S : \E k \in 1..m : g[k] = x
    BY <1>1, <1>3 DEF Draws
  <1>7. Draws(g, m, S)
    BY <1>4, <1>5, <1>6 DEF Draws
  <1>8. t = Through(s, g, m)
    BY <1>3, <1>4 DEF Through
  <1> QED BY <1>7, <1>8 DEF Drawn

\* Two drawings that share no index, one after the other.
LEMMA DrawnConcat ==
    ASSUME NEW V, NEW s, NEW A, NEW B, A \cap B = {}, \A i \in A \cup B : s[i] \in V,
           NEW t, Drawn(t, s, A), NEW u, Drawn(u, s, B)
    PROVE  Drawn(t \o u, s, A \cup B)
  <1>1. PICK a, d : Draws(d, a, A) /\ t = Through(s, d, a)
    BY DEF Drawn
  <1>2. PICK b, f : Draws(f, b, B) /\ u = Through(s, f, b)
    BY DEF Drawn
  <1>3. a \in Nat /\ b \in Nat
    BY <1>1, <1>2 DEF Draws
  <1>4. /\ \A k \in 1..a : t[k] = s[d[k]] /\ d[k] \in A
        /\ \A k \in 1..b : u[k] = s[f[k]] /\ f[k] \in B
        /\ \A x \in A : \E k \in 1..a : d[k] = x
        /\ \A x \in B : \E k \in 1..b : f[k] = x
        /\ \A i, j \in 1..a : d[i] = d[j] => i = j
        /\ \A i, j \in 1..b : f[i] = f[j] => i = j
    BY <1>1, <1>2 DEF Draws, Through
  <1>5. /\ t \in Seq(V) /\ Len(t) = a
        /\ u \in Seq(V) /\ Len(u) = b
    <2>1. t \in [1..a -> V] /\ u \in [1..b -> V]
      BY <1>1, <1>2, <1>4 DEF Through
    <2> QED BY <1>3, <2>1
  <1> DEFINE e == [k \in 1..(a + b) |-> IF k <= a THEN d[k] ELSE f[k - a]]
  <1>6. \A k \in 1..a : k \in 1..(a + b) /\ e[k] = d[k]
    BY <1>3
  <1>7. \A k \in 1..b : a + k \in 1..(a + b) /\ e[a + k] = f[k]
    BY <1>3
  <1>8. \A k \in 1..(a + b) : k \in 1..a \/ \E q \in 1..b : k = a + q
    <2> TAKE k \in 1..(a + b)
    <2>1. k \in 1..a \/ (k - a \in 1..b /\ k = a + (k - a))
      BY <1>3
    <2> QED BY <2>1
  <1>9. e = [k \in 1..(a + b) |-> e[k]]
    OBVIOUS
  <1> HIDE DEF e
  <1>10. e \in [1..(a + b) -> A \cup B]
    <2>1. ASSUME NEW k \in 1..(a + b) PROVE e[k] \in A \cup B
      BY <1>4, <1>6, <1>7, <1>8
    <2> QED BY <1>9, <2>1
  <1>11. \A i, j \in 1..(a + b) : e[i] = e[j] => i = j
    <2> SUFFICES ASSUME NEW i \in 1..(a + b), NEW j \in 1..(a + b), e[i] = e[j] PROVE i = j
      OBVIOUS
    <2>1. CASE i \in 1..a /\ j \in 1..a
      BY <1>4, <1>6, <2>1
    <2>2. CASE i \in 1..a /\ \E q \in 1..b : j = a + q
      BY <1>4, <1>6, <1>7, <2>2
    <2>3. CASE j \in 1..a /\ \E q \in 1..b : i = a + q
      BY <1>4, <1>6, <1>7, <2>3
    <2>4. ASSUME NEW p \in 1..b, NEW q \in 1..b, i = a + p, j = a + q PROVE i = j
      <3>1. f[p] = f[q]
        BY <1>7, <2>4
      <3> QED BY <1>4, <2>4, <3>1
    <2> QED BY <1>8, <2>1, <2>2, <2>3, <2>4
  <1>12. \A x \in A \cup B : \E k \in 1..(a + b) : e[k] = x
    BY <1>4, <1>6, <1>7
  <1>13. Draws(e, a + b, A \cup B)
    BY <1>3, <1>10, <1>11, <1>12 DEF Draws
  <1>14. t \o u = Through(s, e, a + b)
    <2>1. t \o u = [k \in 1..(a + b) |-> (t \o u)[k]]
      <3>1. t \o u \in Seq(V) /\ Len(t \o u) = a + b
        BY <1>5, ConcatProperties
      <3>2. t \o u \in [1..(a + b) -> V]
        BY <3>1, LenProperties
      <3> QED BY <3>2
    <2>2. ASSUME NEW k \in 1..(a + b) PROVE s[e[k]] = (t \o u)[k]
      <3>1. CASE k \in 1..a
        <4>1. (t \o u)[k] = t[k]
          BY <1>3, <1>5, <3>1
        <4> QED BY <1>4, <1>6, <3>1, <4>1
      <3>2. ASSUME NEW q \in 1..b, k = a + q PROVE s[e[k]] = (t \o u)[k]
        <4>1. (t \o u)[k] = u[q]
          BY <1>3, <1>5, <3>2
        <4> QED BY <1>4, <1>7, <3>2, <4>1
      <3> QED BY <1>8, <3>1, <3>2
    <2> QED BY <2>1, <2>2 DEF Through
  <1> QED BY <1>13, <1>14 DEF Drawn
=============================================================================
