---------------------------- MODULE PagesProofs -----------------------------
(***************************************************************************)
(* Theorems about the figures of a company, its statements and ratios, for *)
(* any statements, keys, amounts and periods and any order of edits and    *)
(* answers, and about the pages together.                                  *)
(***************************************************************************)
EXTENDS RecordsProofs

-----------------------------------------------------------------------------
(* Sums of lists                                                           *)

\* Induction up to a number: a set that has 0, and each number whose predecessor
\* it has, has all of them.
LEMMA UpTo ==
  ASSUME NEW N \in Nat, NEW P, 0 \in P, \A k \in 1..N : k - 1 \in P => k \in P
  PROVE  \A k \in 0..N : k \in P
<1> DEFINE Bad == {n \in 0..N : n \notin P}
<1> SUFFICES ASSUME Bad # {} PROVE FALSE
  OBVIOUS
<1>1. Bad \subseteq Nat
  OBVIOUS
<1>2. PICK n \in Bad : \A m \in Bad : n <= m
  <2> HIDE DEF Bad
  <2> QED BY <1>1, NatsHaveALeast
<1>3. n \in 1..N /\ n \notin P
  BY <1>2
<1>4. n - 1 \in 0..N /\ ~ (n <= n - 1)
  BY <1>3
<1>5. n - 1 \in P
  BY <1>2, <1>4
<1> QED BY <1>3, <1>5

\* Steps that are each a function of the one before can be taken up to any
\* number.
LEMMA StepsExist ==
  ASSUME NEW S, NEW a \in S, NEW N \in Nat, NEW g \in [1..N -> [S -> S]]
  PROVE  \E f \in [0..N -> S] : f[0] = a /\ \A k \in 1..N : f[k] = g[k][f[k - 1]]
<1> DEFINE Good(n) == \E f \in [0..n -> S] : f[0] = a /\ \A k \in 1..n : f[k] = g[k][f[k - 1]]
           P == {n \in 0..N : Good(n)}
<1>1. Good(0)
  <2>1. PICK f : f = [k \in 0..0 |-> a]
    OBVIOUS
  <2>2. f \in [0..0 -> S] /\ f[0] = a /\ \A k \in 1..0 : f[k] = g[k][f[k - 1]]
    BY <2>1
  <2> QED BY <2>2
<1>2. ASSUME NEW n \in 1..N, Good(n - 1) PROVE Good(n)
  <2>1. PICK f \in [0..(n - 1) -> S] : f[0] = a /\ \A k \in 1..(n - 1) : f[k] = g[k][f[k - 1]]
    BY <1>2
  <2>2. PICK h : h = [k \in 0..n |-> IF k = n THEN g[n][f[n - 1]] ELSE f[k]]
    OBVIOUS
  <2>3. g[n] \in [S -> S] /\ f[n - 1] \in S /\ g[n][f[n - 1]] \in S
    OBVIOUS
  <2>4. ASSUME NEW k \in 0..n, k # n PROVE k \in 0..(n - 1)
    BY <2>4
  <2>5. h \in [0..n -> S]
    BY <2>2, <2>3, <2>4
  <2>6. h[0] = a
    BY <2>1, <2>2
  <2>7. ASSUME NEW k \in 1..n PROVE h[k] = g[k][h[k - 1]]
    <3>1. k - 1 \in 0..n /\ k - 1 # n /\ h[k - 1] = f[k - 1]
      BY <2>2
    <3>2. CASE k = n
      BY <2>2, <3>1, <3>2
    <3>3. CASE k # n
      <4>1. k \in 1..(n - 1) /\ h[k] = f[k]
        BY <2>2, <3>3
      <4> QED BY <2>1, <3>1, <4>1
    <3> QED BY <3>2, <3>3
  <2> QED BY <2>5, <2>6, <2>7
<1>3. N \in P
  <2> HIDE DEF Good
  <2>1. 0 \in P /\ \A n \in 1..N : n - 1 \in P => n \in P
    BY <1>1, <1>2
  <2> HIDE DEF P
  <2>2. \A n \in 0..N : n \in P
    BY <2>1, UpTo
  <2> QED BY <2>2
<1> QED BY <1>3

\* The sums of a list, one number at a time.
LEMMA SumsAre ==
  ASSUME NEW list, Len(list) \in Nat, \A k \in 1..Len(list) : list[k] \in Int
  PROVE  /\ SumUpTo(list, 0) = 0
         /\ \A k \in 1..Len(list) : SumUpTo(list, k) = SumUpTo(list, k - 1) + list[k]
         /\ \A k \in 0..Len(list) : SumUpTo(list, k) \in Int
<1> DEFINE N == Len(list)
           g == [k \in 1..N |-> [x \in Int |-> x + list[k]]]
           Is(f) == f = [k \in 0..N |-> IF k = 0 THEN 0 ELSE f[k - 1] + list[k]]
           sum == CHOOSE f : Is(f)
<1>1. g \in [1..N -> [Int -> Int]]
  OBVIOUS
<1>2. PICK f \in [0..N -> Int] : f[0] = 0 /\ \A k \in 1..N : f[k] = g[k][f[k - 1]]
  <2>1. PICK G, M, T, z : G = g /\ M = N /\ T = Int /\ z = 0
    OBVIOUS
  <2>2. M \in Nat /\ z \in T /\ G \in [1..M -> [T -> T]]
    BY <1>1, <2>1
  <2>3. \E f \in [0..M -> T] : f[0] = z /\ \A k \in 1..M : f[k] = G[k][f[k - 1]]
    BY <2>2, StepsExist
  <2> HIDE DEF g, N
  <2> QED BY <2>1, <2>3
<1>3. \A k \in 1..N : f[k] = f[k - 1] + list[k]
  <2>1. ASSUME NEW k \in 1..N PROVE f[k] = f[k - 1] + list[k]
    <3>1. f[k - 1] \in Int
      OBVIOUS
    <3>2. PICK x \in Int : x = f[k - 1]
      BY <3>1
    <3>3. g[k][x] = x + list[k]
      OBVIOUS
    <3> HIDE DEF g
    <3> QED BY <1>2, <3>2, <3>3
  <2> QED BY <2>1
<1>4. Is(f)
  <2>1. f = [k \in 0..N |-> f[k]]
    OBVIOUS
  <2>2. \A k \in 0..N : f[k] = IF k = 0 THEN 0 ELSE f[k - 1] + list[k]
    BY <1>2, <1>3
  <2> HIDE DEF N, g
  <2>3. f = [k \in 0..N |-> IF k = 0 THEN 0 ELSE f[k - 1] + list[k]]
    BY <2>1, <2>2, Zenon
  <2> QED BY <2>3
<1>5. Is(sum)
  <2> HIDE DEF Is
  <2> QED BY <1>4, Zenon
<1>6. \A n : SumUpTo(list, n) = sum[n]
  BY DEF SumUpTo
<1> HIDE DEF sum
<1>7. sum[0] = 0 /\ \A k \in 1..N : sum[k] = sum[k - 1] + list[k]
  BY <1>5
<1>8. \A k \in 0..N : sum[k] \in Int
  <2> DEFINE P == {k \in 0..N : sum[k] \in Int}
  <2>1. 0 \in P
    BY <1>7
  <2>2. ASSUME NEW k \in 1..N, k - 1 \in P PROVE k \in P
    BY <1>7, <2>2
  <2> HIDE DEF P
  <2>3. \A k \in 0..N : k \in P
    BY <2>1, <2>2, UpTo
  <2> QED BY <2>3 DEF P
<1> QED BY <1>6, <1>7, <1>8

\* Sums of numbers from 0 up only grow.
LEMMA SumsGrow ==
  ASSUME NEW list \in Seq(Nat), NEW n \in 0..Len(list)
  PROVE  \A i \in 0..n : SumUpTo(list, i) <= SumUpTo(list, n)
<1>1. Len(list) \in Nat /\ \A k \in 1..Len(list) : list[k] \in Nat
  OBVIOUS
<1>2. /\ \A k \in 1..Len(list) : SumUpTo(list, k) = SumUpTo(list, k - 1) + list[k]
      /\ \A k \in 0..Len(list) : SumUpTo(list, k) \in Int
  BY <1>1, SumsAre
<1> DEFINE P == {m \in 0..n : \A i \in 0..m : SumUpTo(list, i) <= SumUpTo(list, m)}
<1>3. 0 \in P
  BY <1>1, <1>2
<1>4. ASSUME NEW m \in 1..n, m - 1 \in P PROVE m \in P
  <2>1. PICK x, y, z : x = SumUpTo(list, m - 1) /\ y = SumUpTo(list, m) /\ z = list[m]
    OBVIOUS
  <2>2. m \in 1..Len(list) /\ m - 1 \in 0..Len(list)
    BY <1>1
  <2>3. x \in Int /\ y \in Int /\ z \in Nat /\ y = x + z
    BY <1>1, <1>2, <2>1, <2>2
  <2>4. ASSUME NEW i \in 0..m PROVE SumUpTo(list, i) <= y
    <3>1. CASE i = m
      <4>1. SumUpTo(list, i) = y
        BY <2>1, <3>1
      <4> QED BY <2>3, <4>1
    <3>2. CASE i # m
      <4>1. i \in 0..(m - 1) /\ i \in 0..Len(list)
        BY <1>1, <3>2
      <4>2. SumUpTo(list, i) <= x /\ SumUpTo(list, i) \in Int
        BY <1>2, <1>4, <2>1, <4>1
      <4> QED BY <2>3, <4>2
    <3> QED BY <3>1, <3>2
  <2> QED BY <2>1, <2>4
<1>5. n \in 0..n /\ n \in Nat
  BY <1>1
<1> HIDE DEF P
<1>6. n \in P
  BY <1>3, <1>4, <1>5, UpTo
<1> QED BY <1>6 DEF P

\* Lists that begin alike have the same sums so far.
LEMMA SumsOfStart ==
  ASSUME NEW list, NEW other, NEW n \in Nat, Len(list) \in Nat, Len(other) \in Nat,
         n <= Len(list), n <= Len(other),
         \A k \in 1..Len(list) : list[k] \in Int, \A k \in 1..Len(other) : other[k] \in Int,
         \A k \in 1..n : list[k] = other[k]
  PROVE  SumUpTo(list, n) = SumUpTo(other, n)
<1>1. /\ SumUpTo(list, 0) = 0
      /\ \A k \in 1..Len(list) : SumUpTo(list, k) = SumUpTo(list, k - 1) + list[k]
  BY SumsAre
<1>2. /\ SumUpTo(other, 0) = 0
      /\ \A k \in 1..Len(other) : SumUpTo(other, k) = SumUpTo(other, k - 1) + other[k]
  BY SumsAre
<1> DEFINE P == {k \in 0..n : SumUpTo(list, k) = SumUpTo(other, k)}
<1>3. 0 \in P
  BY <1>1, <1>2
<1>4. ASSUME NEW k \in 1..n, k - 1 \in P PROVE k \in P
  <2>1. k \in 1..Len(list) /\ k \in 1..Len(other)
    OBVIOUS
  <2> QED BY <1>1, <1>2, <1>4, <2>1
<1> HIDE DEF P
<1>5. \A k \in 0..n : k \in P
  BY <1>3, <1>4, UpTo
<1> QED BY <1>5 DEF P

\* The sum of what is left of a list is what is left of its sum.
LEMMA SumsOfRest ==
  ASSUME NEW list \in Seq(Int), NEW m \in 0..Len(list)
  PROVE  LET rest == SubSeq(list, m + 1, Len(list))
         IN SumUpTo(rest, Len(rest)) = SumUpTo(list, Len(list)) - SumUpTo(list, m)
<1>1. Len(list) \in Nat /\ m \in Nat /\ \A k \in 1..Len(list) : list[k] \in Int
  OBVIOUS
<1>2. PICK rest : rest = SubSeq(list, m + 1, Len(list))
  OBVIOUS
<1>3. PICK n : n = Len(list) - m
  OBVIOUS
<1>4. n \in Nat /\ Len(rest) = n /\ \A k \in 1..n : rest[k] = list[m + k]
  BY <1>1, <1>2, <1>3
<1>5. /\ \A k \in 1..Len(list) : SumUpTo(list, k) = SumUpTo(list, k - 1) + list[k]
      /\ \A k \in 0..Len(list) : SumUpTo(list, k) \in Int
  BY <1>1, SumsAre
<1>6. \A k \in 1..n : m + k \in 1..Len(list)
  BY <1>1, <1>3
<1>7. /\ SumUpTo(rest, 0) = 0
      /\ \A k \in 1..n : SumUpTo(rest, k) = SumUpTo(rest, k - 1) + rest[k]
  <2>1. Len(rest) \in Nat /\ \A k \in 1..Len(rest) : rest[k] \in Int
    BY <1>1, <1>4, <1>6
  <2> QED BY <1>4, <2>1, SumsAre
<1> DEFINE P == {k \in 0..n : SumUpTo(rest, k) = SumUpTo(list, m + k) - SumUpTo(list, m)}
<1>8. 0 \in P
  BY <1>1, <1>4, <1>5, <1>7
<1>9. ASSUME NEW k \in 1..n, k - 1 \in P PROVE k \in P
  <2>1. PICK j : j = m + k
    OBVIOUS
  <2>2. j \in 1..Len(list) /\ j - 1 = m + (k - 1) /\ j - 1 \in 0..Len(list) /\ m \in 0..Len(list)
    BY <1>1, <1>6, <2>1
  <2>3. SumUpTo(list, j) = SumUpTo(list, j - 1) + list[j] /\ rest[k] = list[j]
    BY <1>4, <1>5, <2>1, <2>2
  <2>4. SumUpTo(rest, k - 1) = SumUpTo(list, j - 1) - SumUpTo(list, m)
    BY <1>9, <2>2
  <2>5. PICK a, b, c, d : /\ a = SumUpTo(list, j - 1) /\ b = SumUpTo(list, m)
                          /\ c = list[j] /\ d = SumUpTo(list, j)
    OBVIOUS
  <2>6. a \in Int /\ b \in Int /\ c \in Int
    BY <1>1, <1>5, <2>2, <2>5
  <2>7. SumUpTo(rest, k) = (a - b) + c /\ d = a + c
    BY <1>7, <2>3, <2>4, <2>5
  <2>8. SumUpTo(rest, k) = d - b
    BY <2>6, <2>7
  <2> QED BY <2>1, <2>5, <2>8
<1> HIDE DEF P
<1>10. n \in P
  <2>1. \A k \in 0..n : k \in P
    BY <1>4, <1>8, <1>9, UpTo
  <2> QED BY <1>4, <2>1
<1>11. m + n = Len(list)
  BY <1>1, <1>3
<1> QED BY <1>2, <1>4, <1>10, <1>11 DEF P

-----------------------------------------------------------------------------
(* The donut of the overview                                               *)

\* The legend of a list of values lists their sum.
LEMMA LegendIsWhole ==
  ASSUME NEW list \in Seq(Nat)
  PROVE  Total(Legend(list)) = Total(list)
<1>1. Len(list) \in Nat /\ list \in Seq(Int) /\ \A k \in 1..Len(list) : list[k] \in Nat
  OBVIOUS
<1>2. CASE Len(list) <= 5
  BY <1>2 DEF Legend
<1>3. CASE ~ (Len(list) <= 5)
  <2>1. PICK start, last, both :
          /\ start = SubSeq(list, 1, 5) /\ last = Total(SubSeq(list, 6, Len(list)))
          /\ both = Append(start, last)
    OBVIOUS
  <2>2. Legend(list) = both
    BY <1>3, <2>1 DEF Legend
  <2>3. 5 \in 0..Len(list)
    BY <1>1, <1>3
  <2>4. last = SumUpTo(list, Len(list)) - SumUpTo(list, 5)
    <3>1. 5 + 1 = 6
      OBVIOUS
    <3> QED BY <1>1, <2>1, <2>3, <3>1, SumsOfRest DEF Total
  <2>5. \A k \in 0..Len(list) : SumUpTo(list, k) \in Int
    BY <1>1, SumsAre
  <2>6. last \in Int
    BY <1>1, <2>3, <2>4, <2>5
  <2>7. start \in Seq(Int) /\ Len(start) = 5 /\ \A k \in 1..5 : start[k] = list[k]
    BY <1>1, <2>1, <2>3
  <2>8. /\ both \in Seq(Int) /\ Len(both) = 6 /\ both[6] = last
        /\ \A k \in 1..5 : both[k] = list[k]
    BY <2>1, <2>6, <2>7
  <2>16. \A k \in 1..Len(both) : both[k] \in Int
    <3>1. both \in Seq(Int)
      BY <2>8
    <3> QED BY <3>1
  <2>17. \A k \in 1..Len(list) : list[k] \in Int
    BY <1>1
  <2>18. Len(both) \in Nat /\ 5 \in Nat /\ 5 <= Len(list) /\ 5 <= Len(both) /\ 6 \in 1..Len(both)
    BY <1>1, <1>3, <2>8
  <2>9. SumUpTo(both, 5) = SumUpTo(list, 5)
    BY <1>1, <2>8, <2>16, <2>17, <2>18, SumsOfStart
  <2>10. SumUpTo(both, 6) = SumUpTo(both, 6 - 1) + last
    <3>1. \A k \in 1..Len(both) : SumUpTo(both, k) = SumUpTo(both, k - 1) + both[k]
      BY <2>16, <2>18, SumsAre
    <3> QED BY <2>8, <2>18, <3>1
  <2>11. 6 - 1 = 5
    OBVIOUS
  <2>12. PICK a, b : a = SumUpTo(list, 5) /\ b = SumUpTo(list, Len(list))
    OBVIOUS
  <2>13. a \in Int /\ b \in Int
    BY <1>1, <2>3, <2>5, <2>12
  <2>14. SumUpTo(both, 6) = a + last /\ last = b - a
    BY <2>4, <2>9, <2>10, <2>11, <2>12
  <2>15. SumUpTo(both, 6) = b
    BY <2>13, <2>14
  <2> QED BY <2>2, <2>8, <2>12, <2>15 DEF Total
<1> QED BY <1>2, <1>3

LEMMA DonutSays == ChartsTypeOK => DonutIsWhole
<1> SUFFICES ASSUME ChartsTypeOK PROVE DonutIsWhole
  OBVIOUS
<1>1. slices \in Seq(Nat) /\ Len(slices) \in Nat /\ DOMAIN slices = 1..Len(slices)
  BY DEF ChartsTypeOK
<1>2. ASSUME NEW i \in DOMAIN slices
      PROVE  SliceOffset(slices, i) + slices[i] <= Total(slices)
  <2>1. i \in 1..Len(slices) /\ i \in 0..Len(slices) /\ Len(slices) \in 0..Len(slices)
    BY <1>1
  <2>2. \A k \in 1..Len(slices) : slices[k] \in Int
    BY <1>1
  <2>3. SumUpTo(slices, i) = SumUpTo(slices, i - 1) + slices[i]
    BY <1>1, <2>1, <2>2, SumsAre
  <2>4. SumUpTo(slices, i) <= SumUpTo(slices, Len(slices))
    BY <1>1, <2>1, SumsGrow
  <2> QED BY <2>3, <2>4 DEF SliceOffset, Total
<1>3. Total(Legend(slices)) = Total(slices)
  BY <1>1, LegendIsWhole
<1> QED BY <1>2, <1>3 DEF DonutIsWhole

-----------------------------------------------------------------------------
(* The statement engine                                                    *)

TermsOver(S) == Seq([key : S, sign : {-1, 1}])

LEMMA TermsAre ==
  ASSUME NEW S, NEW keys \in Seq(S), NEW sign \in {-1, 1}
  PROVE  Terms(keys, sign) \in TermsOver(S)
<1>1. DOMAIN keys = 1..Len(keys) /\ Len(keys) \in Nat /\ \A i \in 1..Len(keys) : keys[i] \in S
  OBVIOUS
<1>2. PICK T : T = [key : S, sign : {-1, 1}]
  OBVIOUS
<1>3. \A i \in 1..Len(keys) : [key |-> keys[i], sign |-> sign] \in T
  BY <1>1, <1>2
<1>4. Terms(keys, sign) = [i \in 1..Len(keys) |-> [key |-> keys[i], sign |-> sign]]
  BY <1>1 DEF Terms
<1>5. Terms(keys, sign) \in Seq(T)
  BY <1>1, <1>3, <1>4
<1> QED BY <1>2, <1>5 DEF TermsOver

\* A derivation of a kind whose terms are among some keys.
IsDerivation(d, kind, key, S) == d.kind = kind /\ d.key = key /\ d.terms \in TermsOver(S)

LEMMA DerivedPlus ==
  ASSUME NEW kind, NEW key, NEW S, NEW keys \in Seq(S)
  PROVE  IsDerivation(Derive(kind, key, Plus(keys)), kind, key, S)
<1>1. 1 \in {-1, 1}
  OBVIOUS
<1>2. Plus(keys) \in TermsOver(S)
  BY <1>1, TermsAre DEF Plus
<1> QED BY <1>2 DEF IsDerivation, Derive

LEMMA DerivedSigned ==
  ASSUME NEW kind, NEW key, NEW S, NEW plus \in Seq(S), NEW minus \in Seq(S)
  PROVE  IsDerivation(Derive(kind, key, Signed(plus, minus)), kind, key, S)
<1>1. 1 \in {-1, 1} /\ -1 \in {-1, 1}
  OBVIOUS
<1>2. PICK T, a, b : /\ T = [key : S, sign : {-1, 1}]
                    /\ a = Terms(plus, 1) /\ b = Terms(minus, -1)
  OBVIOUS
<1>3. a \in Seq(T) /\ b \in Seq(T)
  BY <1>1, <1>2, TermsAre DEF TermsOver
<1>4. a \o b \in Seq(T)
  BY <1>3
<1>5. Signed(plus, minus) \in TermsOver(S)
  BY <1>2, <1>4 DEF Signed, TermsOver
<1> QED BY <1>5 DEF IsDerivation, Derive

LEMMA KeysAmong ==
  ASSUME NEW S, NEW d, d.terms \in TermsOver(S)
  PROVE  TermKeys(d) \subseteq S
<1>1. \A i \in DOMAIN d.terms : d.terms[i].key \in S
  <2>1. PICK T, terms : T = [key : S, sign : {-1, 1}] /\ terms = d.terms /\ terms \in Seq(T)
    BY DEF TermsOver
  <2>2. terms \in Seq(T)
    BY <2>1
  <2>3. \A i \in DOMAIN terms : terms[i] \in T
    BY <2>2
  <2> QED BY <2>1, <2>3
<1> QED BY <1>1 DEF TermKeys, ToSet

LEMMA ShortLists ==
  ASSUME NEW S, NEW a \in S, NEW b \in S, NEW c \in S, NEW d \in S
  PROVE  <<a>> \in Seq(S) /\ <<a, b>> \in Seq(S) /\ <<a, b, c>> \in Seq(S) /\ <<a, b, c, d>> \in Seq(S)
OBVIOUS

LEMMA EachDerivation ==
  /\ IsDerivation(DERIVATIONS[1], "balance_sheet", "current_assets",
       {"cash_and_equivalents", "receivables", "inventory", "current_assets_other"})
  /\ IsDerivation(DERIVATIONS[2], "balance_sheet", "total_assets",
       {"current_assets", "ppe", "intangibles", "noncurrent_assets_other"})
  /\ IsDerivation(DERIVATIONS[3], "balance_sheet", "current_liabilities",
       {"payables", "short_term_debt", "current_liabilities_other"})
  /\ IsDerivation(DERIVATIONS[4], "balance_sheet", "total_liabilities",
       {"current_liabilities", "long_term_debt", "noncurrent_liabilities_other"})
  /\ IsDerivation(DERIVATIONS[5], "balance_sheet", "equity",
       {"share_capital", "retained_earnings"})
  /\ IsDerivation(DERIVATIONS[6], "income_statement", "gross_profit",
       {"revenue", "cogs"})
  /\ IsDerivation(DERIVATIONS[7], "income_statement", "operating_profit",
       {"gross_profit", "opex", "depreciation_amortization"})
  /\ IsDerivation(DERIVATIONS[8], "income_statement", "net_income",
       {"operating_profit", "interest_income", "interest_expense", "tax_expense"})
  /\ IsDerivation(DERIVATIONS[9], "cash_flow", "net_change_in_cash",
       {"cfo", "cfi", "cff"})
<1>1. IsDerivation(DERIVATIONS[1], "balance_sheet", "current_assets",
       {"cash_and_equivalents", "receivables", "inventory", "current_assets_other"})
  <2>1. PICK S : S = {"cash_and_equivalents", "receivables",
                      "inventory", "current_assets_other"}
    OBVIOUS
  <2>2. PICK keys \in Seq(S) : keys = <<"cash_and_equivalents", "receivables",
                                    "inventory", "current_assets_other">>
    BY <2>1, ShortLists
  <2>3. DERIVATIONS[1] = Derive("balance_sheet", "current_assets", Plus(keys))
    BY <2>2 DEF DERIVATIONS
  <2> QED BY <2>1, <2>3, DerivedPlus
<1>2. IsDerivation(DERIVATIONS[2], "balance_sheet", "total_assets",
       {"current_assets", "ppe", "intangibles", "noncurrent_assets_other"})
  <2>1. PICK S : S = {"current_assets", "ppe",
                      "intangibles", "noncurrent_assets_other"}
    OBVIOUS
  <2>2. PICK keys \in Seq(S) : keys = <<"current_assets", "ppe",
                                    "intangibles", "noncurrent_assets_other">>
    BY <2>1, ShortLists
  <2>3. DERIVATIONS[2] = Derive("balance_sheet", "total_assets", Plus(keys))
    BY <2>2 DEF DERIVATIONS
  <2> QED BY <2>1, <2>3, DerivedPlus
<1>3. IsDerivation(DERIVATIONS[3], "balance_sheet", "current_liabilities",
       {"payables", "short_term_debt", "current_liabilities_other"})
  <2>1. PICK S : S = {"payables", "short_term_debt", "current_liabilities_other"}
    OBVIOUS
  <2>2. PICK keys \in Seq(S) : keys = <<"payables", "short_term_debt",
                                    "current_liabilities_other">>
    BY <2>1, ShortLists
  <2>3. DERIVATIONS[3] = Derive("balance_sheet", "current_liabilities", Plus(keys))
    BY <2>2 DEF DERIVATIONS
  <2> QED BY <2>1, <2>3, DerivedPlus
<1>4. IsDerivation(DERIVATIONS[4], "balance_sheet", "total_liabilities",
       {"current_liabilities", "long_term_debt", "noncurrent_liabilities_other"})
  <2>1. PICK S : S = {"current_liabilities", "long_term_debt",
                      "noncurrent_liabilities_other"}
    OBVIOUS
  <2>2. PICK keys \in Seq(S) : keys = <<"current_liabilities", "long_term_debt",
                                    "noncurrent_liabilities_other">>
    BY <2>1, ShortLists
  <2>3. DERIVATIONS[4] = Derive("balance_sheet", "total_liabilities", Plus(keys))
    BY <2>2 DEF DERIVATIONS
  <2> QED BY <2>1, <2>3, DerivedPlus
<1>5. IsDerivation(DERIVATIONS[5], "balance_sheet", "equity",
       {"share_capital", "retained_earnings"})
  <2>1. PICK S : S = {"share_capital", "retained_earnings"}
    OBVIOUS
  <2>2. PICK keys \in Seq(S) : keys = <<"share_capital", "retained_earnings">>
    BY <2>1, ShortLists
  <2>3. DERIVATIONS[5] = Derive("balance_sheet", "equity", Plus(keys))
    BY <2>2 DEF DERIVATIONS
  <2> QED BY <2>1, <2>3, DerivedPlus
<1>6. IsDerivation(DERIVATIONS[6], "income_statement", "gross_profit",
       {"revenue", "cogs"})
  <2>1. PICK S : S = {"revenue", "cogs"}
    OBVIOUS
  <2>2. PICK plus \in Seq(S), minus \in Seq(S) :
          /\ plus = <<"revenue">>
          /\ minus = <<"cogs">>
    BY <2>1, ShortLists
  <2>3. DERIVATIONS[6] = Derive("income_statement", "gross_profit", Signed(plus, minus))
    BY <2>2 DEF DERIVATIONS
  <2> QED BY <2>1, <2>3, DerivedSigned
<1>7. IsDerivation(DERIVATIONS[7], "income_statement", "operating_profit",
       {"gross_profit", "opex", "depreciation_amortization"})
  <2>1. PICK S : S = {"gross_profit", "opex", "depreciation_amortization"}
    OBVIOUS
  <2>2. PICK plus \in Seq(S), minus \in Seq(S) :
          /\ plus = <<"gross_profit">>
          /\ minus = <<"opex", "depreciation_amortization">>
    BY <2>1, ShortLists
  <2>3. DERIVATIONS[7] = Derive("income_statement", "operating_profit", Signed(plus, minus))
    BY <2>2 DEF DERIVATIONS
  <2> QED BY <2>1, <2>3, DerivedSigned
<1>8. IsDerivation(DERIVATIONS[8], "income_statement", "net_income",
       {"operating_profit", "interest_income", "interest_expense", "tax_expense"})
  <2>1. PICK S : S = {"operating_profit", "interest_income",
                      "interest_expense", "tax_expense"}
    OBVIOUS
  <2>2. PICK plus \in Seq(S), minus \in Seq(S) :
          /\ plus = <<"operating_profit", "interest_income">>
          /\ minus = <<"interest_expense", "tax_expense">>
    BY <2>1, ShortLists
  <2>3. DERIVATIONS[8] = Derive("income_statement", "net_income", Signed(plus, minus))
    BY <2>2 DEF DERIVATIONS
  <2> QED BY <2>1, <2>3, DerivedSigned
<1>9. IsDerivation(DERIVATIONS[9], "cash_flow", "net_change_in_cash",
       {"cfo", "cfi", "cff"})
  <2>1. PICK S : S = {"cfo", "cfi", "cff"}
    OBVIOUS
  <2>2. PICK keys \in Seq(S) : keys = <<"cfo", "cfi", "cff">>
    BY <2>1, ShortLists
  <2>3. DERIVATIONS[9] = Derive("cash_flow", "net_change_in_cash", Plus(keys))
    BY <2>2 DEF DERIVATIONS
  <2> QED BY <2>1, <2>3, DerivedPlus
<1> QED BY <1>1, <1>2, <1>3, <1>4, <1>5, <1>6, <1>7, <1>8, <1>9

\* The keys in which the derivations have their totals, in their order.
TotalKeys == <<"current_assets", "total_assets", "current_liabilities",
  "total_liabilities", "equity", "gross_profit", "operating_profit",
  "net_income", "net_change_in_cash">>

\* No derivation adds up a total that it or a later one computes.
LEMMA TotalsComeAfter ==
  /\ DOMAIN DERIVATIONS = 1..9 /\ Len(DERIVATIONS) = 9
  /\ \A i \in 1..9 : DERIVATIONS[i].key = TotalKeys[i] /\ \E S : DERIVATIONS[i].terms \in TermsOver(S)
  /\ \A i \in 1..9 : \A n \in i..9 : TotalKeys[n] \notin TermKeys(DERIVATIONS[i])
  /\ \A i, n \in 1..9 : TotalKeys[i] = TotalKeys[n] => i = n
<1>1. DOMAIN DERIVATIONS = 1..9 /\ Len(DERIVATIONS) = 9
  BY DEF DERIVATIONS
<1>2. /\ TotalKeys[1] = "current_assets" /\ TotalKeys[2] = "total_assets"
      /\ TotalKeys[3] = "current_liabilities" /\ TotalKeys[4] = "total_liabilities"
      /\ TotalKeys[5] = "equity" /\ TotalKeys[6] = "gross_profit"
      /\ TotalKeys[7] = "operating_profit" /\ TotalKeys[8] = "net_income"
      /\ TotalKeys[9] = "net_change_in_cash"
  BY DEF TotalKeys
<1>3. \A i \in 1..9 : i = 1 \/ i = 2 \/ i = 3 \/ i = 4 \/ i = 5 \/ i = 6 \/ i = 7 \/ i = 8 \/ i = 9
  OBVIOUS
<1>4. \A i, n \in 1..9 : TotalKeys[i] = TotalKeys[n] => i = n
  BY <1>2, <1>3
<1>5. ASSUME NEW i \in 1..9
      PROVE  /\ DERIVATIONS[i].key = TotalKeys[i] /\ \E S : DERIVATIONS[i].terms \in TermsOver(S)
             /\ \A n \in i..9 : TotalKeys[n] \notin TermKeys(DERIVATIONS[i])
  <2>1. CASE i = 1
    <3>1. PICK S : S = {"cash_and_equivalents", "receivables",
                        "inventory", "current_assets_other"}
      OBVIOUS
    <3>2. IsDerivation(DERIVATIONS[i], "balance_sheet", "current_assets", S)
      BY <2>1, <3>1, EachDerivation
    <3>3. TermKeys(DERIVATIONS[i]) \subseteq S
      BY <3>2, KeysAmong DEF IsDerivation
    <3>4. \A n \in i..9 : n = 1 \/ n = 2 \/ n = 3 \/ n = 4 \/ n = 5 \/ n = 6 \/ n = 7 \/ n = 8 \/ n = 9
      BY <2>1
    <3> QED BY <1>2, <2>1, <3>1, <3>2, <3>3, <3>4 DEF IsDerivation
  <2>2. CASE i = 2
    <3>1. PICK S : S = {"current_assets", "ppe",
                        "intangibles", "noncurrent_assets_other"}
      OBVIOUS
    <3>2. IsDerivation(DERIVATIONS[i], "balance_sheet", "total_assets", S)
      BY <2>2, <3>1, EachDerivation
    <3>3. TermKeys(DERIVATIONS[i]) \subseteq S
      BY <3>2, KeysAmong DEF IsDerivation
    <3>4. \A n \in i..9 : n = 2 \/ n = 3 \/ n = 4 \/ n = 5 \/ n = 6 \/ n = 7 \/ n = 8 \/ n = 9
      BY <2>2
    <3> QED BY <1>2, <2>2, <3>1, <3>2, <3>3, <3>4 DEF IsDerivation
  <2>3. CASE i = 3
    <3>1. PICK S : S = {"payables", "short_term_debt", "current_liabilities_other"}
      OBVIOUS
    <3>2. IsDerivation(DERIVATIONS[i], "balance_sheet", "current_liabilities", S)
      BY <2>3, <3>1, EachDerivation
    <3>3. TermKeys(DERIVATIONS[i]) \subseteq S
      BY <3>2, KeysAmong DEF IsDerivation
    <3>4. \A n \in i..9 : n = 3 \/ n = 4 \/ n = 5 \/ n = 6 \/ n = 7 \/ n = 8 \/ n = 9
      BY <2>3
    <3> QED BY <1>2, <2>3, <3>1, <3>2, <3>3, <3>4 DEF IsDerivation
  <2>4. CASE i = 4
    <3>1. PICK S : S = {"current_liabilities", "long_term_debt",
                        "noncurrent_liabilities_other"}
      OBVIOUS
    <3>2. IsDerivation(DERIVATIONS[i], "balance_sheet", "total_liabilities", S)
      BY <2>4, <3>1, EachDerivation
    <3>3. TermKeys(DERIVATIONS[i]) \subseteq S
      BY <3>2, KeysAmong DEF IsDerivation
    <3>4. \A n \in i..9 : n = 4 \/ n = 5 \/ n = 6 \/ n = 7 \/ n = 8 \/ n = 9
      BY <2>4
    <3> QED BY <1>2, <2>4, <3>1, <3>2, <3>3, <3>4 DEF IsDerivation
  <2>5. CASE i = 5
    <3>1. PICK S : S = {"share_capital", "retained_earnings"}
      OBVIOUS
    <3>2. IsDerivation(DERIVATIONS[i], "balance_sheet", "equity", S)
      BY <2>5, <3>1, EachDerivation
    <3>3. TermKeys(DERIVATIONS[i]) \subseteq S
      BY <3>2, KeysAmong DEF IsDerivation
    <3>4. \A n \in i..9 : n = 5 \/ n = 6 \/ n = 7 \/ n = 8 \/ n = 9
      BY <2>5
    <3> QED BY <1>2, <2>5, <3>1, <3>2, <3>3, <3>4 DEF IsDerivation
  <2>6. CASE i = 6
    <3>1. PICK S : S = {"revenue", "cogs"}
      OBVIOUS
    <3>2. IsDerivation(DERIVATIONS[i], "income_statement", "gross_profit", S)
      BY <2>6, <3>1, EachDerivation
    <3>3. TermKeys(DERIVATIONS[i]) \subseteq S
      BY <3>2, KeysAmong DEF IsDerivation
    <3>4. \A n \in i..9 : n = 6 \/ n = 7 \/ n = 8 \/ n = 9
      BY <2>6
    <3> QED BY <1>2, <2>6, <3>1, <3>2, <3>3, <3>4 DEF IsDerivation
  <2>7. CASE i = 7
    <3>1. PICK S : S = {"gross_profit", "opex", "depreciation_amortization"}
      OBVIOUS
    <3>2. IsDerivation(DERIVATIONS[i], "income_statement", "operating_profit", S)
      BY <2>7, <3>1, EachDerivation
    <3>3. TermKeys(DERIVATIONS[i]) \subseteq S
      BY <3>2, KeysAmong DEF IsDerivation
    <3>4. \A n \in i..9 : n = 7 \/ n = 8 \/ n = 9
      BY <2>7
    <3> QED BY <1>2, <2>7, <3>1, <3>2, <3>3, <3>4 DEF IsDerivation
  <2>8. CASE i = 8
    <3>1. PICK S : S = {"operating_profit", "interest_income",
                        "interest_expense", "tax_expense"}
      OBVIOUS
    <3>2. IsDerivation(DERIVATIONS[i], "income_statement", "net_income", S)
      BY <2>8, <3>1, EachDerivation
    <3>3. TermKeys(DERIVATIONS[i]) \subseteq S
      BY <3>2, KeysAmong DEF IsDerivation
    <3>4. \A n \in i..9 : n = 8 \/ n = 9
      BY <2>8
    <3> QED BY <1>2, <2>8, <3>1, <3>2, <3>3, <3>4 DEF IsDerivation
  <2>9. CASE i = 9
    <3>1. PICK S : S = {"cfo", "cfi", "cff"}
      OBVIOUS
    <3>2. IsDerivation(DERIVATIONS[i], "cash_flow", "net_change_in_cash", S)
      BY <2>9, <3>1, EachDerivation
    <3>3. TermKeys(DERIVATIONS[i]) \subseteq S
      BY <3>2, KeysAmong DEF IsDerivation
    <3>4. \A n \in i..9 : n = 9
      BY <2>9
    <3> QED BY <1>2, <2>9, <3>1, <3>2, <3>3, <3>4 DEF IsDerivation
  <2> QED BY <1>3, <2>1, <2>2, <2>3, <2>4, <2>5, <2>6, <2>7, <2>8, <2>9
<1> QED BY <1>1, <1>4, <1>5

-----------------------------------------------------------------------------
(* Looking up the amount of a key                                          *)

LinesOver(K) == [key : K, amount : Int, ai : BOOLEAN, derived : BOOLEAN]

LEMMA FirstOfRows ==
  ASSUME NEW K, NEW lines \in Seq(LinesOver(K)), NEW key, Has(lines, key)
  PROVE  Min(RowOf(lines, key)) \in RowOf(lines, key)
<1>1. RowOf(lines, key) \subseteq Nat /\ RowOf(lines, key) # {}
  BY DEF RowOf, Has
<1>2. \E i \in RowOf(lines, key) : \A j \in RowOf(lines, key) : i <= j
  BY <1>1, NatsHaveALeast
<1> QED BY <1>2 DEF Min

LEMMA AmountIsInt ==
  ASSUME NEW K, NEW lines \in Seq(LinesOver(K)), NEW key
  PROVE  Amount(lines, key) \in Int
<1>1. \A i \in DOMAIN lines : lines[i].amount \in Int
  <2>1. PICK T : T = LinesOver(K) /\ lines \in Seq(T)
    OBVIOUS
  <2>2. \A i \in DOMAIN lines : lines[i] \in T
    BY <2>1
  <2> QED BY <2>1, <2>2 DEF LinesOver
<1>2. CASE Has(lines, key)
  <2>1. Min(RowOf(lines, key)) \in DOMAIN lines
    BY <1>2, FirstOfRows DEF RowOf
  <2> QED BY <1>1, <1>2, <2>1 DEF Amount
<1>3. CASE ~ Has(lines, key)
  BY <1>3 DEF Amount
<1> QED BY <1>2, <1>3

\* A row appended is found when its key had none, and hides no other row.
LEMMA LooksBehind ==
  ASSUME NEW T, NEW lines \in Seq(T), NEW item, NEW key
  PROVE  /\ key # item.key => /\ Has(Append(lines, item), key) = Has(lines, key)
                             /\ Amount(Append(lines, item), key) = Amount(lines, key)
         /\ ~ Has(lines, item.key) => /\ Has(Append(lines, item), item.key)
                                    /\ Amount(Append(lines, item), item.key) = item.amount
<1>1. PICK more, n : more = Append(lines, item) /\ n = Len(lines) + 1
  OBVIOUS
<1>2. /\ n \in Nat /\ DOMAIN lines = 1..(n - 1) /\ DOMAIN more = 1..n /\ more[n] = item
      /\ \A i \in 1..(n - 1) : more[i] = lines[i]
  BY <1>1
<1>3. ASSUME key # item.key
      PROVE  Has(more, key) = Has(lines, key) /\ Amount(more, key) = Amount(lines, key)
  <2>1. \A i \in 1..n : more[i].key = key <=> i \in 1..(n - 1) /\ lines[i].key = key
    BY <1>2, <1>3
  <2>2. RowOf(more, key) = RowOf(lines, key)
    BY <1>2, <2>1 DEF RowOf
  <2>3. Has(more, key) = Has(lines, key)
    BY <2>2 DEF Has
  <2>4. CASE Has(lines, key)
    <3>1. PICK m : m = Min(RowOf(lines, key))
      OBVIOUS
    <3>2. m \in RowOf(lines, key)
      <4>1. RowOf(lines, key) \subseteq Nat /\ RowOf(lines, key) # {}
        BY <2>4 DEF RowOf, Has
      <4>2. \E i \in RowOf(lines, key) : \A j \in RowOf(lines, key) : i <= j
        BY <4>1, NatsHaveALeast
      <4> QED BY <3>1, <4>2 DEF Min
    <3>3. more[m] = lines[m]
      BY <1>2, <3>2 DEF RowOf
    <3> QED BY <2>2, <2>3, <2>4, <3>1, <3>3 DEF Amount
  <2>5. CASE ~ Has(lines, key)
    BY <2>3, <2>5 DEF Amount
  <2> QED BY <2>3, <2>4, <2>5
<1>4. ASSUME ~ Has(lines, item.key)
      PROVE  Has(more, item.key) /\ Amount(more, item.key) = item.amount
  <2>1. \A i \in 1..(n - 1) : lines[i].key # item.key
    BY <1>2, <1>4 DEF Has, RowOf
  <2>2. \A i \in 1..n : more[i].key = item.key <=> i = n
    BY <1>2, <2>1
  <2>3. RowOf(more, item.key) = {n}
    <3>1. n \in 1..n
      BY <1>1, <1>2
    <3> QED BY <1>2, <2>2, <3>1 DEF RowOf
  <2>4. Min({n}) = n
    BY <1>2 DEF Min
  <2> QED BY <1>2, <2>3, <2>4 DEF Has, Amount
<1> QED BY <1>1, <1>3, <1>4

-----------------------------------------------------------------------------
(* Computing the totals                                                    *)

AmountsOf(lines, d) == [i \in DOMAIN d.terms |-> d.terms[i].sign * Amount(lines, d.terms[i].key)]

LEMMA ComputedIs == ASSUME NEW lines, NEW d
                    PROVE  Computed(lines, d) = SumUpTo(AmountsOf(lines, d), Len(AmountsOf(lines, d)))
BY DEF Computed, AmountsOf

LEMMA ComputedIsInt ==
  ASSUME NEW K, NEW lines \in Seq(LinesOver(K)), NEW S, NEW d, d.terms \in TermsOver(S)
  PROVE  Computed(lines, d) \in Int
<1>1. PICK T, terms, amounts : /\ T = [key : S, sign : {-1, 1}] /\ terms = d.terms
                               /\ amounts = AmountsOf(lines, d)
  OBVIOUS
<1>2. terms \in Seq(T)
  BY <1>1 DEF TermsOver
<1>3. Len(terms) \in Nat /\ DOMAIN terms = 1..Len(terms) /\ \A i \in 1..Len(terms) : terms[i] \in T
  BY <1>2
<1>4. ASSUME NEW i \in 1..Len(terms) PROVE terms[i].sign * Amount(lines, terms[i].key) \in Int
  <2>1. PICK a \in Int : a = Amount(lines, terms[i].key)
    BY AmountIsInt
  <2>2. terms[i].sign = 1 \/ terms[i].sign = -1
    BY <1>1, <1>3
  <2> QED BY <2>1, <2>2
<1>5. amounts = [i \in 1..Len(terms) |-> terms[i].sign * Amount(lines, terms[i].key)]
  BY <1>1, <1>3 DEF AmountsOf
<1>6. amounts \in [1..Len(terms) -> Int]
  BY <1>4, <1>5
<1>7. Len(amounts) = Len(terms)
  BY <1>3, <1>6
<1>8. \A k \in 0..Len(amounts) : SumUpTo(amounts, k) \in Int
  <2>1. Len(amounts) \in Nat /\ \A k \in 1..Len(amounts) : amounts[k] \in Int
    BY <1>3, <1>6, <1>7
  <2> QED BY <2>1, SumsAre
<1>9. Len(amounts) \in 0..Len(amounts)
  BY <1>3, <1>7
<1> QED BY <1>1, <1>8, <1>9, ComputedIs

\* Where the terms have the same amounts, a derivation computes the same.
LEMMA ComputesTheSame ==
  ASSUME NEW lines, NEW other, NEW d,
         \A k \in TermKeys(d) : Has(lines, k) = Has(other, k) /\ Amount(lines, k) = Amount(other, k)
  PROVE  Computes(lines, d) = Computes(other, d) /\ Computed(lines, d) = Computed(other, d)
<1>1. Computes(lines, d) = Computes(other, d)
  BY DEF Computes
<1>2. \A i \in DOMAIN d.terms : d.terms[i].key \in TermKeys(d)
  BY DEF TermKeys, ToSet
<1>3. \A i \in DOMAIN d.terms : Amount(lines, d.terms[i].key) = Amount(other, d.terms[i].key)
  BY <1>2
<1>4. AmountsOf(lines, d) = AmountsOf(other, d)
  BY <1>3, Zenon DEF AmountsOf
<1> QED BY <1>1, <1>4, ComputedIs

LEMMA NothingIsWithin == ASSUME NEW x \in Int PROVE ~ (AbsValue(x - x) > Basis(x) \div 100)
<1>1. AbsValue(x - x) = 0
  BY DEF AbsValue
<1>2. Basis(x) \in Nat
  BY DEF Basis, AbsValue
<1>3. PICK b \in Nat : b = Basis(x)
  BY <1>2
<1>4. b \div 100 \in Nat
  OBVIOUS
<1> QED BY <1>1, <1>3, <1>4

-----------------------------------------------------------------------------
(* The run of the derivations                                              *)

Progress(K) == [rows : Seq(LinesOver(K)), warned : SUBSET K]

\* What a step does: it warns of its own total, and changes no other that it
\* is not a part of.
StepIsRight(acc, d, new) ==
  /\ acc.warned \subseteq new.warned
  /\ Diverges(new.rows, d) => d.key \in new.warned
  /\ \A e : d.key # e.key /\ d.key \notin TermKeys(e) =>
           Diverges(new.rows, e) = Diverges(acc.rows, e)

LEMMA StepAppends ==
  ASSUME NEW K, NEW lines \in Seq(LinesOver(K)), NEW warned \in SUBSET K,
         NEW S, NEW d, d.terms \in TermsOver(S),
         d.key \in K, d.key \notin TermKeys(d), ~ Has(lines, d.key),
         NEW acc, acc = [rows |-> lines, warned |-> warned]
  PROVE  LET new == [rows |-> Append(lines, Item(d.key, Computed(lines, d), FALSE, TRUE)),
                     warned |-> warned]
         IN new \in Progress(K) /\ StepIsRight(acc, d, new)
<1>2. PICK amount \in Int : amount = Computed(lines, d)
  BY ComputedIsInt
<1>3. PICK item : item = Item(d.key, amount, FALSE, TRUE)
  OBVIOUS
<1>4. item \in LinesOver(K) /\ item.key = d.key /\ item.amount = amount
  BY <1>3 DEF Item, LinesOver
<1>5. PICK more : more = Append(lines, item)
  OBVIOUS
<1>6. more \in Seq(LinesOver(K))
  BY <1>4, <1>5
<1>7. PICK new : new = [rows |-> more, warned |-> warned]
  OBVIOUS
<1>8. new \in Progress(K) /\ new.rows = more /\ new.warned = warned
  BY <1>6, <1>7 DEF Progress
<1>9. \A key : key # d.key => Has(more, key) = Has(lines, key) /\ Amount(more, key) = Amount(lines, key)
  BY <1>4, <1>5, LooksBehind
<1>10. Amount(more, d.key) = amount
  BY <1>4, <1>5, LooksBehind
<1>11. Computed(more, d) = amount
  BY <1>2, <1>9, ComputesTheSame
<1>12. ~ Diverges(more, d)
  BY <1>10, <1>11, NothingIsWithin DEF Diverges
<1>13. ASSUME NEW e, d.key # e.key, d.key \notin TermKeys(e)
       PROVE  Diverges(more, e) = Diverges(lines, e)
  <2>1. \A k \in TermKeys(e) : Has(more, k) = Has(lines, k) /\ Amount(more, k) = Amount(lines, k)
    BY <1>9, <1>13
  <2>2. Computes(more, e) = Computes(lines, e) /\ Computed(more, e) = Computed(lines, e)
    BY <2>1, ComputesTheSame
  <2>3. Has(more, e.key) = Has(lines, e.key) /\ Amount(more, e.key) = Amount(lines, e.key)
    BY <1>9, <1>13
  <2> QED BY <2>2, <2>3 DEF Diverges
<1>14. StepIsRight(acc, d, new)
  BY <1>8, <1>12, <1>13 DEF StepIsRight
<1> QED BY <1>2, <1>3, <1>5, <1>7, <1>8, <1>14

LEMMA StepIs ==
  ASSUME NEW K, NEW acc \in Progress(K), NEW S, NEW d, d.terms \in TermsOver(S),
         d.key \in K, d.key \notin TermKeys(d), NEW new, new = DerivationStep(acc, d)
  PROVE  new \in Progress(K) /\ StepIsRight(acc, d, new)
<1>1. CASE ~ Computes(acc.rows, d)
  BY <1>1 DEF DerivationStep, StepIsRight, Diverges
<1>2. CASE Computes(acc.rows, d) /\ Has(acc.rows, d.key)
  <2>1. PICK more : more = IF Diverges(acc.rows, d) THEN acc.warned \cup {d.key} ELSE acc.warned
    OBVIOUS
  <2>2. new = [acc EXCEPT !.warned = more]
    BY <1>2, <2>1 DEF DerivationStep
  <2>3. /\ acc.warned \in SUBSET K /\ acc = [rows |-> acc.rows, warned |-> acc.warned]
        /\ acc.rows \in Seq(LinesOver(K))
    BY DEF Progress
  <2>4. new = [rows |-> acc.rows, warned |-> more]
    BY <2>2, <2>3
  <2>5. more \in SUBSET K /\ acc.warned \subseteq more /\ (Diverges(acc.rows, d) => d.key \in more)
    BY <2>1, <2>3
  <2>6. new \in Progress(K) /\ new.rows = acc.rows /\ new.warned = more
    BY <2>3, <2>4, <2>5 DEF Progress
  <2> QED BY <2>5, <2>6 DEF StepIsRight
<1>3. CASE Computes(acc.rows, d) /\ ~ Has(acc.rows, d.key)
  <2>1. PICK lines \in Seq(LinesOver(K)), warned \in SUBSET K : acc = [rows |-> lines, warned |-> warned]
    BY DEF Progress
  <2>2. acc.rows = lines
    BY <2>1
  <2>3. PICK item : item = Item(d.key, Computed(lines, d), FALSE, TRUE)
    OBVIOUS
  <2>4. new = [acc EXCEPT !.rows = Append(@, item)]
    BY <1>3, <2>2, <2>3 DEF DerivationStep
  <2>5. new = [rows |-> Append(lines, item), warned |-> warned]
    BY <2>1, <2>4
  <2> QED BY <1>3, <2>1, <2>2, <2>3, <2>5, StepAppends
<1> QED BY <1>1, <1>2, <1>3

\* Derivations in an order in which each total comes after what it adds up.
InOrderOfTotals(ds) ==
  /\ Len(ds) \in Nat /\ DOMAIN ds = 1..Len(ds)
  /\ \A i \in 1..Len(ds) : \E S : ds[i].terms \in TermsOver(S)
  /\ \A i \in 1..Len(ds) : \A n \in i..Len(ds) : ds[n].key \notin TermKeys(ds[i])
  /\ \A i, n \in 1..Len(ds) : ds[i].key = ds[n].key => i = n

LEMMA RunWarns ==
  ASSUME NEW ds, InOrderOfTotals(ds), NEW K, \A i \in 1..Len(ds) : ds[i].key \in K,
         NEW N \in Nat, N = Len(ds), NEW run \in [0..N -> Progress(K)],
         \A n \in 1..N : run[n] = DerivationStep(run[n - 1], ds[n])
  PROVE  \A i \in 1..N : Diverges(run[N].rows, ds[i]) => ds[i].key \in run[N].warned
<1> DEFINE P == {n \in 0..N : \A i \in 1..n : Diverges(run[n].rows, ds[i]) => ds[i].key \in run[n].warned}
<1>1. 0 \in P
  OBVIOUS
<1>2. ASSUME NEW n \in 1..N, n - 1 \in P PROVE n \in P
  <2>7. n - 1 \in 0..N /\ n \in 0..N
    OBVIOUS
  <2>8. PICK acc \in Progress(K), new \in Progress(K) : acc = run[n - 1] /\ new = run[n]
    BY <2>7
  <2>9. PICK d : d = ds[n]
    OBVIOUS
  <2>1. acc = run[n - 1] /\ new = run[n] /\ d = ds[n]
    BY <2>8, <2>9
  <2>2. PICK S : d.terms \in TermsOver(S)
    BY <2>1 DEF InOrderOfTotals
  <2>3. d.key \in K /\ d.key \notin TermKeys(d)
    <3>1. n \in n..N
      OBVIOUS
    <3> QED BY <2>1, <3>1 DEF InOrderOfTotals
  <2>4. new = DerivationStep(acc, d)
    BY <2>1
  <2>5. StepIsRight(acc, d, new)
    BY <2>2, <2>3, <2>4, StepIs
  <2>6. ASSUME NEW i \in 1..n, Diverges(new.rows, ds[i]) PROVE ds[i].key \in new.warned
    <3>1. CASE i = n
      BY <2>1, <2>5, <2>6, <3>1 DEF StepIsRight
    <3>2. CASE i # n
      <4>1. i \in 1..(n - 1) /\ n \in i..N /\ i \in 1..N
        BY <3>2
      <4>2. d.key # ds[i].key /\ d.key \notin TermKeys(ds[i])
        BY <2>1, <3>2, <4>1 DEF InOrderOfTotals
      <4>3. Diverges(acc.rows, ds[i])
        BY <2>5, <2>6, <4>2 DEF StepIsRight
      <4>4. ds[i].key \in acc.warned
        BY <1>2, <2>1, <4>1, <4>3
      <4> QED BY <2>5, <4>4 DEF StepIsRight
    <3> QED BY <3>1, <3>2
  <2> QED BY <2>1, <2>6
<1> HIDE DEF P
<1>3. \A n \in 0..N : n \in P
  BY <1>1, <1>2, UpTo
<1> QED BY <1>3 DEF P

LEMMA DerivationsInOrder ==
  ASSUME NEW kind
  PROVE  InOrderOfTotals(DerivationsOf(kind))
<1> DEFINE K == {i \in 1..9 : DERIVATIONS[i].kind = kind}
           nth == [n \in 1..Cardinality(K) |-> CHOOSE i \in K : CountUpTo(K, i) = n]
<1>1. DOMAIN DERIVATIONS = 1..9
  BY TotalsComeAfter
<1>2. DerivationsOf(kind) = AtPlaces(DERIVATIONS, K)
  BY <1>1 DEF DerivationsOf
<1>3. K \subseteq Nat /\ IsFiniteSet(K) /\ Cardinality(K) \in Nat
  <2>4. PICK m \in Nat : m = 9
    OBVIOUS
  <2>5. IsFiniteSet(1..m)
    BY FS_Interval
  <2>1. IsFiniteSet(1..9)
    BY <2>4, <2>5
  <2>3. K \subseteq 1..9
    OBVIOUS
  <2>2. IsFiniteSet(K)
    BY <2>1, <2>3, FS_Subset
  <2> QED BY <2>2, FS_CardinalityType
<1>4. /\ nth \in [1..Cardinality(K) -> K]
      /\ \A m, n \in 1..Cardinality(K) : m < n => nth[m] < nth[n]
  BY <1>3, InOrder
<1>5. PICK ds : ds = DerivationsOf(kind)
  OBVIOUS
<1>6. ds = [n \in 1..Cardinality(K) |-> DERIVATIONS[nth[n]]]
  BY <1>2, <1>5 DEF AtPlaces
<1>12. \A i \in K : i \in 1..9
  OBVIOUS
<1> HIDE DEF K, nth
<1>7. PICK N \in Nat : N = Cardinality(K)
  BY <1>3
<1>8. PICK f \in [1..N -> K] : f = nth
  BY <1>4, <1>7
<1>9. /\ Len(ds) = N /\ DOMAIN ds = 1..N
      /\ \A n \in 1..N : f[n] \in 1..9 /\ ds[n] = DERIVATIONS[f[n]]
      /\ \A m, n \in 1..N : m < n => f[m] < f[n]
  BY <1>4, <1>6, <1>7, <1>8, <1>12
<1>10. \A i \in 1..N, n \in 1..N : i <= n => f[i] <= f[n]
  BY <1>9
<1>11. \A n \in 1..N : ds[n].key = TotalKeys[f[n]] /\ \E S : ds[n].terms \in TermsOver(S)
  BY <1>9, TotalsComeAfter
<1>13. ASSUME NEW i \in 1..N, NEW n \in i..N PROVE ds[n].key \notin TermKeys(ds[i])
  <2>1. n \in 1..N /\ f[n] \in f[i]..9
    BY <1>9, <1>10
  <2>2. TotalKeys[f[n]] \notin TermKeys(DERIVATIONS[f[i]])
    BY <1>9, <2>1, TotalsComeAfter
  <2> QED BY <1>9, <1>11, <2>1, <2>2
<1>14. ASSUME NEW i \in 1..N, NEW n \in 1..N, ds[i].key = ds[n].key PROVE i = n
  <2>2. PICK a \in 1..9, b \in 1..9 : a = f[i] /\ b = f[n]
    BY <1>9
  <2>3. TotalKeys[a] = TotalKeys[b]
    BY <1>11, <1>14, <2>2
  <2>4. a = b
    BY <2>3, TotalsComeAfter
  <2>1. f[i] = f[n]
    BY <2>2, <2>4
  <2> QED BY <1>9, <2>1
<1> QED BY <1>5, <1>9, <1>11, <1>13, <1>14 DEF InOrderOfTotals

\* The lines of a statement: rows with keys and whole amounts.
AreLines(lines) == \E K : lines \in Seq(LinesOver(K))

\* The totals of a statement that are off are among its warnings.
Warned(kind, lines, warned) ==
  \A d \in ToSet(DerivationsOf(kind)) : Diverges(lines, d) => d.key \in warned

LEMMA RunIsRight ==
  ASSUME NEW kind, NEW lines, AreLines(lines)
  PROVE  LET run == RunDerivations(kind, lines)
         IN AreLines(run.rows) /\ Warned(kind, run.rows, run.warned)
<1>1. PICK ds : ds = DerivationsOf(kind)
  OBVIOUS
<1>2. InOrderOfTotals(ds)
  BY <1>1, DerivationsInOrder
<1>3. PICK N \in Nat : N = Len(ds)
  BY <1>2 DEF InOrderOfTotals
<1>4. PICK K : lines \in Seq(LinesOver(K)) /\ \A i \in 1..N : ds[i].key \in K
  <2>1. PICK J : lines \in Seq(LinesOver(J))
    BY DEF AreLines
  <2>2. PICK K : K = J \cup {ds[i].key : i \in 1..N}
    OBVIOUS
  <2>3. LinesOver(J) \subseteq LinesOver(K)
    BY <2>2 DEF LinesOver
  <2>4. PICK T, U : T = LinesOver(J) /\ U = LinesOver(K)
    OBVIOUS
  <2>5. lines \in Seq(U)
    BY <2>1, <2>3, <2>4
  <2> QED BY <2>2, <2>4, <2>5
<1> DEFINE Is(f) == f = [n \in 0..Len(DerivationsOf(kind)) |->
                           IF n = 0 THEN [rows |-> lines, warned |-> {}]
                           ELSE DerivationStep(f[n - 1], DerivationsOf(kind)[n])]
           run == CHOOSE f : Is(f)
           g == [n \in 1..N |-> [acc \in Progress(K) |-> DerivationStep(acc, ds[n])]]
<1>5. PICK start \in Progress(K) : start = [rows |-> lines, warned |-> {}]
  BY <1>4 DEF Progress
<1>6. \A n \in 1..N : \A acc \in Progress(K) : DerivationStep(acc, ds[n]) \in Progress(K)
  <2>1. ASSUME NEW n \in 1..N, NEW acc \in Progress(K) PROVE DerivationStep(acc, ds[n]) \in Progress(K)
    <3>1. PICK d, new : d = ds[n] /\ new = DerivationStep(acc, d)
      OBVIOUS
    <3>2. PICK S : d.terms \in TermsOver(S)
      BY <1>2, <1>3, <3>1 DEF InOrderOfTotals
    <3>3. n \in n..N
      OBVIOUS
    <3>4. d.key \in K /\ d.key \notin TermKeys(d)
      BY <1>2, <1>3, <1>4, <3>1, <3>3 DEF InOrderOfTotals
    <3>5. new \in Progress(K)
      BY <3>1, <3>2, <3>4, StepIs
    <3> QED BY <3>1, <3>5
  <2> QED BY <2>1
<1>7. PICK P : P = Progress(K)
  OBVIOUS
<1>8. g \in [1..N -> [P -> P]]
  BY <1>6, <1>7
<1>9. PICK f \in [0..N -> P] : f[0] = start /\ \A n \in 1..N : f[n] = g[n][f[n - 1]]
  <2>1. PICK G : G = g
    OBVIOUS
  <2>2. G \in [1..N -> [P -> P]] /\ start \in P
    BY <1>5, <1>7, <1>8, <2>1
  <2>3. \E f \in [0..N -> P] : f[0] = start /\ \A n \in 1..N : f[n] = G[n][f[n - 1]]
    BY <2>2, StepsExist
  <2> HIDE DEF g
  <2> QED BY <2>1, <2>3
<1>10. \A n \in 1..N : f[n] = DerivationStep(f[n - 1], ds[n])
  <2>1. ASSUME NEW n \in 1..N PROVE f[n] = DerivationStep(f[n - 1], ds[n])
    <3>1. n - 1 \in 0..N
      OBVIOUS
    <3>2. PICK x \in P : x = f[n - 1]
      BY <3>1
    <3>3. g[n][x] = DerivationStep(x, ds[n])
      BY <1>7
    <3> HIDE DEF g
    <3> QED BY <1>9, <3>2, <3>3
  <2> QED BY <2>1
<1>11. Is(f)
  <2>1. f = [n \in 0..N |-> f[n]]
    OBVIOUS
  <2>2. \A n \in 0..N : f[n] = IF n = 0 THEN start ELSE DerivationStep(f[n - 1], ds[n])
    BY <1>9, <1>10
  <2>3. f = [n \in 0..N |-> IF n = 0 THEN start ELSE DerivationStep(f[n - 1], ds[n])]
    BY <2>1, <2>2, Zenon
  <2> QED BY <1>1, <1>3, <1>5, <2>3, Zenon
<1>12. Is(run)
  <2> HIDE DEF Is
  <2> QED BY <1>11, Zenon
<1>13. RunDerivations(kind, lines) = run[N]
  BY <1>1, <1>3 DEF RunDerivations
<1> HIDE DEF run
<1>14. run = [n \in 0..N |-> IF n = 0 THEN start ELSE DerivationStep(run[n - 1], ds[n])]
  BY <1>1, <1>3, <1>5, <1>12, Zenon
<1> HIDE DEF Is, g
<1>15. run[0] = start /\ \A n \in 1..N : run[n] = DerivationStep(run[n - 1], ds[n])
  BY <1>14
<1>16. run \in [0..N -> P]
  <2> DEFINE Q == {n \in 0..N : run[n] \in P}
  <2>1. 0 \in Q
    BY <1>5, <1>7, <1>15
  <2>2. ASSUME NEW n \in 1..N, n - 1 \in Q PROVE n \in Q
    <3>1. PICK x \in P : x = run[n - 1]
      BY <2>2
    <3>2. DerivationStep(x, ds[n]) \in P
      BY <1>6, <1>7
    <3>3. run[n] \in P
      BY <1>15, <3>1, <3>2
    <3> QED BY <3>3
  <2> HIDE DEF Q
  <2>3. \A n \in 0..N : n \in Q
    BY <2>1, <2>2, UpTo
  <2>4. \A n \in 0..N : run[n] \in P
    BY <2>3 DEF Q
  <2>5. run = [n \in 0..N |-> run[n]]
    BY <1>14
  <2> QED BY <2>4, <2>5
<1>17. PICK r \in [0..N -> Progress(K)] : r = run
  BY <1>7, <1>16
<1>18. \A i \in 1..N : Diverges(r[N].rows, ds[i]) => ds[i].key \in r[N].warned
  BY <1>2, <1>3, <1>4, <1>15, <1>17, RunWarns
<1>19. r[N].rows \in Seq(LinesOver(K))
  <2>1. r[N] \in Progress(K)
    OBVIOUS
  <2> QED BY <2>1 DEF Progress
<1>20. \A d \in ToSet(ds) : \E i \in 1..N : d = ds[i]
  <2>1. DOMAIN ds = 1..N
    BY <1>2, <1>3 DEF InOrderOfTotals
  <2> QED BY <2>1 DEF ToSet
<1>21. Warned(kind, r[N].rows, r[N].warned)
  BY <1>1, <1>18, <1>20 DEF Warned
<1> QED BY <1>13, <1>17, <1>19, <1>21 DEF AreLines

-----------------------------------------------------------------------------
(* The statements of a company                                             *)

\* The records the server keeps.
Recorded(s) ==
  s = [kind |-> s.kind, period |-> s.period, status |-> s.status, rows |-> s.rows, by |-> s.by,
       warned |-> s.warned]

StatementsShape ==
  /\ stmts = [i \in Existing |-> stmts[i]] /\ Existing \subseteq Stmts
  /\ \A i \in Existing :
       /\ Recorded(stmts[i])
       /\ stmts[i].status \in {"processing", "staged", "confirmed", "superseded"}

\* A period has one confirmed statement at most.
OneConfirmed ==
  \A i, j \in Existing :
    /\ stmts[i].status = "confirmed" /\ stmts[j].status = "confirmed"
    /\ stmts[i].kind = stmts[j].kind /\ stmts[i].period = stmts[j].period
    => i = j

\* An answer is about statements there are, unless it is a refusal.
IsAbout(r, ids) == IF r.op = "list" THEN r.copy \subseteq ids ELSE r.ok => r.id \in ids

RepliesAreAbout(batch, ids) == \E S : batch \in Seq(S) /\ \A r \in S : IsAbout(r, ids)

PageShape ==
  /\ at \in {0} \cup Existing /\ pollFor \in {0} \cup Existing
  /\ listed \subseteq Existing /\ confirmBusy \in BOOLEAN
  /\ RepliesAreAbout(replies, Existing)

StatementsInv == StatementsShape /\ OneConfirmed /\ PageShape

\* What a step that confirms nothing does to the statements: those there are
\* keep their kind and period, and are confirmed as they were.
NoneConfirmed ==
  /\ StatementsShape' /\ Existing \subseteq Existing'
  /\ \A i \in Existing' :
       IF i \in Existing
       THEN /\ stmts'[i].kind = stmts[i].kind /\ stmts'[i].period = stmts[i].period
            /\ (stmts'[i].status = "confirmed") = (stmts[i].status = "confirmed")
       ELSE stmts'[i].status # "confirmed"

\* What holds of every step.
Replaces ==
  \A kind, period :
    ConfirmedOf(kind, period) # {} =>
      /\ Cardinality(ConfirmedOf(kind, period)') = 1
      /\ \A i \in ConfirmedOf(kind, period) \ ConfirmedOf(kind, period)' :
           stmts'[i].status = "superseded" /\ {stmts'[i].by} = ConfirmedOf(kind, period)'

LEMMA OneIsOne == ASSUME NEW x, NEW S, S = {x} PROVE Cardinality(S) = 1
BY FS_Singleton

\* A period whose confirmed statement stays keeps one.
LEMMA StaysOne ==
  ASSUME OneConfirmed, NEW kind, NEW period, ConfirmedOf(kind, period) # {},
         ConfirmedOf(kind, period)' = ConfirmedOf(kind, period)
  PROVE  Cardinality(ConfirmedOf(kind, period)') = 1
<1>1. PICK i \in ConfirmedOf(kind, period) : TRUE
  OBVIOUS
<1>2. ConfirmedOf(kind, period) = {i}
  BY <1>1 DEF OneConfirmed, ConfirmedOf, SamePeriod
<1> QED BY <1>2, OneIsOne

LEMMA KeepsConfirmed ==
  ASSUME StatementsShape, OneConfirmed, NoneConfirmed
  PROVE  OneConfirmed' /\ Replaces
<1>1. OneConfirmed'
  BY DEF OneConfirmed, NoneConfirmed, Existing
<1>2. \A kind, period : ConfirmedOf(kind, period)' = ConfirmedOf(kind, period)
  BY DEF ConfirmedOf, SamePeriod, NoneConfirmed
<1> QED BY <1>1, <1>2, StaysOne DEF Replaces

LEMMA StatementsStart == StatementPageInit => StatementsInv
<1> SUFFICES ASSUME StatementPageInit PROVE StatementsInv
  OBVIOUS
<1>1. StatementsShape /\ OneConfirmed
  <2>1. CASE stmts = <<>>
    <3>1. Existing = {} /\ stmts = [i \in Existing |-> stmts[i]]
      BY <2>1 DEF Existing
    <3> QED BY <3>1 DEF StatementsShape, OneConfirmed
  <2>2. ASSUME NEW k \in UploadedKinds, NEW p \in StatementPeriods, stmts = UploadedTwice(k, p)
        PROVE  StatementsShape /\ OneConfirmed
    <3>1. Existing = Stmts /\ stmts = [i \in Existing |-> stmts[i]]
      BY <2>2 DEF Existing, UploadedTwice
    <3>2. \A i \in Existing : Recorded(stmts[i]) /\ stmts[i].status = "staged"
      BY <2>2 DEF Existing, UploadedTwice, Recorded
    <3> QED BY <3>1, <3>2 DEF StatementsShape, OneConfirmed
  <2> QED BY <2>1, <2>2 DEF StatementPageInit
<1>2. PageShape
  <2> DEFINE r == Reply("list", TRUE, 0, Existing)
  <2>1. replies \in Seq({r}) /\ IsAbout(r, Existing)
    BY DEF StatementPageInit, Reply, IsAbout
  <2> HIDE DEF r
  <2>2. RepliesAreAbout(replies, Existing)
    BY <2>1 DEF RepliesAreAbout
  <2> QED BY <2>2 DEF StatementPageInit, PageShape
<1> QED BY <1>1, <1>2 DEF StatementsInv

-----------------------------------------------------------------------------
(* What the routes do to the statements                                    *)

LEMMA UntouchedConfirmsNone ==
  ASSUME StatementsShape, stmts' = stmts
  PROVE  NoneConfirmed
BY DEF NoneConfirmed, StatementsShape, Existing, Recorded

\* One record changes, in its rows and among the statuses that are not final.
LEMMA RowsConfirmNone ==
  ASSUME StatementsShape, NEW id \in Existing, NEW rec, Recorded(rec),
         stmts' = [stmts EXCEPT ![id] = rec],
         rec.kind = stmts[id].kind, rec.period = stmts[id].period,
         \/ rec.status = stmts[id].status
         \/ stmts[id].status = "processing" /\ rec.status = "staged"
  PROVE  NoneConfirmed
<1>1. Existing' = Existing /\ stmts' = [i \in Existing' |-> stmts'[i]]
  BY DEF Existing, StatementsShape
<1>2. \A i \in Existing : stmts'[i] = IF i = id THEN rec ELSE stmts[i]
  BY DEF Existing, StatementsShape
<1>3. StatementsShape'
  BY <1>1, <1>2 DEF StatementsShape, Recorded
<1> QED BY <1>1, <1>2, <1>3 DEF NoneConfirmed, StatementsShape

\* A record with other fields.
Record(kind, period, status, lines, by, warned) ==
  [kind |-> kind, period |-> period, status |-> status, rows |-> lines, by |-> by, warned |-> warned]

LEMMA WithRows ==
  ASSUME NEW s, Recorded(s), NEW lines
  PROVE  [s EXCEPT !.rows = lines] = Record(s.kind, s.period, s.status, lines, s.by, s.warned)
BY DEF Recorded, Record

LEMMA WithStatus ==
  ASSUME NEW s, Recorded(s), NEW status
  PROVE  [s EXCEPT !.status = status] = Record(s.kind, s.period, status, s.rows, s.by, s.warned)
BY DEF Recorded, Record

LEMMA WithStatusRows ==
  ASSUME NEW s, Recorded(s), NEW status, NEW lines
  PROVE  [s EXCEPT !.status = status, !.rows = lines] =
           Record(s.kind, s.period, status, lines, s.by, s.warned)
<1>1. [s EXCEPT !.status = status, !.rows = lines] = [[s EXCEPT !.status = status] EXCEPT !.rows = lines]
  BY Zenon
<1>2. [Record(s.kind, s.period, status, s.rows, s.by, s.warned) EXCEPT !.rows = lines] =
        Record(s.kind, s.period, status, lines, s.by, s.warned)
  BY DEF Record
<1> QED BY <1>1, <1>2, WithStatus, Zenon

LEMMA WithStatusWarned ==
  ASSUME NEW s, Recorded(s), NEW status, NEW warned
  PROVE  [s EXCEPT !.status = status, !.warned = warned] =
           Record(s.kind, s.period, status, s.rows, s.by, warned)
<1>1. [s EXCEPT !.status = status, !.warned = warned]
        = [[s EXCEPT !.status = status] EXCEPT !.warned = warned]
  BY Zenon
<1>2. [Record(s.kind, s.period, status, s.rows, s.by, s.warned) EXCEPT !.warned = warned] =
        Record(s.kind, s.period, status, s.rows, s.by, warned)
  BY DEF Record
<1> QED BY <1>1, <1>2, WithStatus, Zenon

LEMMA WithStatusBy ==
  ASSUME NEW s, Recorded(s), NEW status, NEW by
  PROVE  [s EXCEPT !.status = status, !.by = by] =
           Record(s.kind, s.period, status, s.rows, by, s.warned)
<1>1. [s EXCEPT !.status = status, !.by = by] = [[s EXCEPT !.status = status] EXCEPT !.by = by]
  BY Zenon
<1>2. [Record(s.kind, s.period, status, s.rows, s.by, s.warned) EXCEPT !.by = by] =
        Record(s.kind, s.period, status, s.rows, by, s.warned)
  BY DEF Record
<1> QED BY <1>1, <1>2, WithStatus, Zenon

LEMMA RecordIs ==
  ASSUME NEW kind, NEW period, NEW status, NEW lines, NEW by, NEW warned
  PROVE  LET rec == Record(kind, period, status, lines, by, warned)
         IN /\ Recorded(rec) /\ rec.kind = kind /\ rec.period = period /\ rec.status = status
            /\ rec.rows = lines /\ rec.by = by /\ rec.warned = warned
BY DEF Record, Recorded

LEMMA ParsingConfirmsNone ==
  ASSUME StatementsShape, NEW id, stmts' \in {stmts, Parsed(id)}
  PROVE  NoneConfirmed
<1>1. CASE stmts' = stmts
  BY <1>1, UntouchedConfirmsNone
<1>2. CASE stmts' # stmts
  <2>1. /\ stmts[id].status = "processing"
        /\ stmts' = [stmts EXCEPT ![id].status = "staged", ![id].rows = SuggestRows(stmts[id].kind)]
    BY <1>2 DEF Parsed
  <2>2. id \in Existing
    BY <1>2, <2>1 DEF Existing, StatementsShape
  <2> DEFINE rec == [stmts[id] EXCEPT !.status = "staged", !.rows = SuggestRows(stmts[id].kind)]
  <2>3. Recorded(stmts[id])
    BY <2>2 DEF StatementsShape
  <2>4. /\ Recorded(rec) /\ rec.kind = stmts[id].kind /\ rec.period = stmts[id].period
        /\ rec.status = "staged"
    <3>1. rec = Record(stmts[id].kind, stmts[id].period, "staged", SuggestRows(stmts[id].kind),
                       stmts[id].by, stmts[id].warned)
      BY <2>3, WithStatusRows
    <3> QED BY <3>1, RecordIs
  <2>5. stmts' = [stmts EXCEPT ![id] = rec]
    BY <2>1, <2>2, <2>3 DEF Existing, StatementsShape
  <2> HIDE DEF rec
  <2> QED BY <2>1, <2>2, <2>4, <2>5, RowsConfirmNone
<1> QED BY <1>1, <1>2

LEMMA CreatingConfirmsNone ==
  ASSUME StatementsShape, NEW id \in Stmts, id \notin Existing, NEW kind, NEW period,
         NEW status \in {"processing", "staged"}, NEW lines,
         stmts' = WithStatement(id, kind, period, status, lines)
  PROVE  NoneConfirmed /\ Existing' = Existing \cup {id}
<1> DEFINE rec == [kind |-> kind, period |-> period, status |-> status, rows |-> lines, by |-> 0,
                   warned |-> {}]
<1>1. stmts' = [i \in Existing \cup {id} |-> IF i = id THEN rec ELSE stmts[i]]
  BY DEF WithStatement
<1>2. Recorded(rec) /\ rec.status = status
  BY DEF Recorded
<1> HIDE DEF rec
<1>3. /\ Existing' = Existing \cup {id} /\ stmts' = [i \in Existing' |-> stmts'[i]]
      /\ \A i \in Existing' : stmts'[i] = IF i = id THEN rec ELSE stmts[i]
  BY <1>1 DEF Existing
<1>4. StatementsShape'
  BY <1>2, <1>3 DEF StatementsShape, Recorded
<1> QED BY <1>2, <1>3, <1>4 DEF NoneConfirmed

LEMMA ConfirmingReplaces ==
  ASSUME StatementsShape, OneConfirmed, NEW id \in Existing, stmts' = AfterConfirm(id).stmts
  PROVE  StatementsShape' /\ OneConfirmed' /\ Replaces /\ Existing' = Existing
<1> DEFINE s == stmts[id]
           run == RunDerivations(s.kind, s.rows)
           derived == [stmts EXCEPT ![id].rows = run.rows]
           old == ConfirmedOf(s.kind, s.period) \ {id}
           next == [i \in Existing |->
                      IF i = id THEN [derived[i] EXCEPT !.status = "confirmed", !.warned = run.warned]
                      ELSE IF old # {} /\ i = Min(old)
                      THEN [derived[i] EXCEPT !.status = "superseded", !.by = id]
                      ELSE derived[i]]
<1>1. \/ stmts' = stmts
      \/ stmts' = derived
      \/ s.status = "staged" /\ stmts' = next
  BY DEF AfterConfirm
<1>2. Recorded(s)
  BY DEF StatementsShape
<1> DEFINE rec == [s EXCEPT !.rows = run.rows]
<1>3. /\ Recorded(rec) /\ rec.kind = s.kind /\ rec.period = s.period /\ rec.status = s.status
      /\ derived = [stmts EXCEPT ![id] = rec]
  <2>1. Recorded(rec) /\ rec.kind = s.kind /\ rec.period = s.period /\ rec.status = s.status
    <3>1. rec = Record(s.kind, s.period, s.status, run.rows, s.by, s.warned)
      BY <1>2, WithRows
    <3> HIDE DEF rec
    <3> QED BY <3>1, RecordIs
  <2>2. derived = [stmts EXCEPT ![id] = rec]
    BY <1>2 DEF Existing, StatementsShape
  <2> QED BY <2>1, <2>2
<1>4. CASE stmts' = stmts
  <2>1. NoneConfirmed
    BY <1>4, UntouchedConfirmsNone
  <2> QED BY <1>4, <2>1, KeepsConfirmed DEF NoneConfirmed, Existing
<1>5. CASE stmts' = derived
  <2>1. NoneConfirmed
    BY <1>3, <1>5, RowsConfirmNone
  <2>2. Existing' = Existing
    BY <1>5 DEF Existing
  <2> QED BY <2>1, <2>2, KeepsConfirmed DEF NoneConfirmed
<1>6. CASE s.status = "staged" /\ stmts' = next
  <2> DEFINE new == [rec EXCEPT !.status = "confirmed", !.warned = run.warned]
  <2>1. /\ Recorded(new) /\ new.kind = s.kind /\ new.period = s.period /\ new.status = "confirmed"
        /\ derived[id] = rec /\ \A i \in Existing \ {id} : derived[i] = stmts[i]
    <3>1. new = Record(rec.kind, rec.period, "confirmed", rec.rows, rec.by, run.warned)
      <4> HIDE DEF rec, derived, run
      <4>1. Recorded(rec)
        BY <1>3
      <4> QED BY <4>1, WithStatusWarned
    <3>2. derived[id] = rec /\ \A i \in Existing \ {id} : derived[i] = stmts[i]
      BY <1>3 DEF Existing, StatementsShape
    <3> HIDE DEF new, rec, derived
    <3> QED BY <1>3, <3>1, <3>2, RecordIs
  <2> HIDE DEF rec, derived
  <2>2. /\ Existing' = Existing /\ stmts' = [i \in Existing' |-> stmts'[i]]
        /\ stmts'[id] = new
        /\ \A i \in Existing \ {id} :
             stmts'[i] = IF old # {} /\ i = Min(old)
                         THEN [stmts[i] EXCEPT !.status = "superseded", !.by = id] ELSE stmts[i]
    <3>1. next = [i \in Existing |-> next[i]]
      OBVIOUS
    <3>2. next[id] = new
      BY <2>1
    <3>3. \A i \in Existing \ {id} :
             next[i] = IF old # {} /\ i = Min(old)
                       THEN [stmts[i] EXCEPT !.status = "superseded", !.by = id] ELSE stmts[i]
      BY <2>1
    <3> HIDE DEF next, new, old
    <3> QED BY <1>6, <3>1, <3>2, <3>3 DEF Existing
  <2> HIDE DEF new, next
  <2>5. /\ Existing' = Existing /\ stmts' = [i \in Existing' |-> stmts'[i]] /\ stmts'[id] = new
        /\ stmts[id] = s
    BY <2>2
  <2>6. PICK k, p : k = s.kind /\ p = s.period
    OBVIOUS
  <2>7. Recorded(new) /\ new.kind = k /\ new.period = p /\ new.status = "confirmed"
    BY <2>1, <2>6
  <2>8. old = ConfirmedOf(k, p) \ {id}
    BY <2>6
  <2> HIDE DEF s, old
  <2>3. CASE old = {}
    <3>1. \A i \in Existing \ {id} : stmts'[i] = stmts[i]
      BY <2>2, <2>3
    <3>5. \A i \in Existing :
            /\ Recorded(stmts'[i])
            /\ stmts'[i].status \in {"processing", "staged", "confirmed", "superseded"}
      BY <2>5, <2>7, <3>1 DEF StatementsShape
    <3>2. StatementsShape'
      BY <2>5, <3>5 DEF StatementsShape
    <3>3. \A i \in Existing \ {id} :
            stmts[i].kind = k /\ stmts[i].period = p => stmts[i].status # "confirmed"
      BY <2>3, <2>8 DEF ConfirmedOf, SamePeriod
    <3>6. \A i \in Existing :
            /\ stmts'[i].kind = stmts[i].kind /\ stmts'[i].period = stmts[i].period
            /\ stmts'[i].status = IF i = id THEN "confirmed" ELSE stmts[i].status
      BY <2>5, <2>6, <2>7, <3>1
    <3>4. OneConfirmed'
      BY <2>5, <2>6, <3>3, <3>6 DEF OneConfirmed
    <3>7. ASSUME NEW kind, NEW period, ConfirmedOf(kind, period) # {}
          PROVE  ConfirmedOf(kind, period)' = ConfirmedOf(kind, period)
      <4>1. kind # k \/ period # p
        BY <1>6, <2>5, <3>3, <3>7 DEF ConfirmedOf, SamePeriod
      <4> QED BY <2>5, <2>6, <3>6, <4>1 DEF ConfirmedOf, SamePeriod
    <3>8. ASSUME NEW kind, NEW period, ConfirmedOf(kind, period) # {}
          PROVE  /\ Cardinality(ConfirmedOf(kind, period)') = 1
                 /\ \A i \in ConfirmedOf(kind, period) : i \in ConfirmedOf(kind, period)'
      <4>1. ConfirmedOf(kind, period)' = ConfirmedOf(kind, period)
        BY <3>7, <3>8
      <4> QED BY <3>8, <4>1, StaysOne
    <3> QED BY <2>5, <3>2, <3>4, <3>8 DEF Replaces
  <2>4. ASSUME NEW o \in old PROVE StatementsShape' /\ OneConfirmed' /\ Replaces
    <3>3. o \in Existing \ {id} /\ stmts[o].kind = k /\ stmts[o].period = p
          /\ stmts[o].status = "confirmed"
      BY <2>8 DEF ConfirmedOf, SamePeriod
    <3>10. \A i \in Existing \ {id, o} :
             stmts[i].kind = k /\ stmts[i].period = p => stmts[i].status # "confirmed"
      BY <3>3 DEF OneConfirmed
    <3>1. old = {o}
      BY <2>8, <3>10 DEF ConfirmedOf, SamePeriod
    <3>2. Min(old) = o
      <4>1. o \in Nat /\ o <= o
        BY <3>3, StatementPageAssumption DEF StatementsShape
      <4> QED BY <3>1, <4>1 DEF Min
    <3> DEFINE past == [stmts[o] EXCEPT !.status = "superseded", !.by = id]
    <3>4. /\ Recorded(past) /\ past.kind = k /\ past.period = p
          /\ past.status = "superseded" /\ past.by = id
      <4>1. Recorded(stmts[o])
        BY <3>3 DEF StatementsShape
      <4>2. past = Record(stmts[o].kind, stmts[o].period, "superseded", stmts[o].rows, id,
                          stmts[o].warned)
        BY <4>1, WithStatusBy
      <4> HIDE DEF past
      <4> QED BY <3>3, <4>2, RecordIs
    <3>5. stmts'[o] = past /\ \A i \in Existing \ {id, o} : stmts'[i] = stmts[i]
      BY <2>2, <3>1, <3>2, <3>3
    <3> HIDE DEF past
    <3>6. ASSUME NEW i \in Existing
          PROVE  /\ Recorded(stmts'[i])
                 /\ stmts'[i].status \in {"processing", "staged", "confirmed", "superseded"}
                 /\ stmts'[i].kind = stmts[i].kind /\ stmts'[i].period = stmts[i].period
                 /\ stmts'[i].status = IF i = id THEN "confirmed"
                                       ELSE IF i = o THEN "superseded" ELSE stmts[i].status
      <4>1. CASE i = id
        BY <2>5, <2>6, <2>7, <4>1
      <4>2. CASE i # id /\ i = o
        BY <3>3, <3>4, <3>5, <4>2
      <4>3. CASE i # id /\ i # o
        BY <3>5, <4>3 DEF StatementsShape
      <4> QED BY <4>1, <4>2, <4>3
    <3>7. StatementsShape'
      BY <2>5, <3>6 DEF StatementsShape
    <3>11. OneConfirmed'
      BY <2>5, <2>6, <3>6, <3>10 DEF OneConfirmed
    <3>12. ConfirmedOf(k, p)' = {id}
      BY <2>5, <2>6, <3>3, <3>6, <3>10 DEF ConfirmedOf, SamePeriod
    <3>13. ConfirmedOf(k, p) = {o}
      BY <1>6, <2>5, <3>3, <3>10 DEF ConfirmedOf, SamePeriod
    <3>14. ASSUME NEW kind, NEW period, kind # k \/ period # p
           PROVE  ConfirmedOf(kind, period)' = ConfirmedOf(kind, period)
      BY <2>5, <2>6, <3>3, <3>6, <3>14 DEF ConfirmedOf, SamePeriod
    <3>15. ASSUME NEW kind, NEW period, ConfirmedOf(kind, period) # {}
           PROVE  /\ Cardinality(ConfirmedOf(kind, period)') = 1
                  /\ \A i \in ConfirmedOf(kind, period) \ ConfirmedOf(kind, period)' :
                       stmts'[i].status = "superseded" /\ {stmts'[i].by} = ConfirmedOf(kind, period)'
      <4>1. CASE kind = k /\ period = p
        <5>1. ConfirmedOf(kind, period)' = {id} /\ ConfirmedOf(kind, period) = {o}
          BY <3>12, <3>13, <4>1
        <5> QED BY <3>4, <3>5, <5>1, OneIsOne
      <4>2. CASE kind # k \/ period # p
        BY <3>14, <3>15, <4>2, StaysOne
      <4> QED BY <4>1, <4>2
    <3> QED BY <3>7, <3>11, <3>15 DEF Replaces
  <2> QED BY <2>3, <2>4, <2>5
<1> QED BY <1>1, <1>4, <1>5, <1>6

-----------------------------------------------------------------------------
(* What the pages do                                                       *)

LEMMA AboutMore ==
  ASSUME NEW batch, NEW ids, NEW more, RepliesAreAbout(batch, ids), ids \subseteq more
  PROVE  RepliesAreAbout(batch, more)
BY DEF RepliesAreAbout, IsAbout

LEMMA AppendIsAbout ==
  ASSUME NEW batch, NEW ids, NEW r, RepliesAreAbout(batch, ids), IsAbout(r, ids)
  PROVE  RepliesAreAbout(Append(batch, r), ids)
<1>1. PICK S : batch \in Seq(S) /\ \A x \in S : IsAbout(x, ids)
  BY DEF RepliesAreAbout
<1>2. Append(batch, r) \in Seq(S \cup {r})
  <2>1. batch \in Seq(S \cup {r})
    BY <1>1
  <2> QED BY <2>1
<1>3. \A x \in S \cup {r} : IsAbout(x, ids)
  BY <1>1
<1> QED BY <1>2, <1>3 DEF RepliesAreAbout

LEMMA TailIsAbout ==
  ASSUME NEW batch, NEW ids, RepliesAreAbout(batch, ids), batch # <<>>
  PROVE  RepliesAreAbout(Tail(batch), ids) /\ IsAbout(Head(batch), ids)
<1>1. PICK S : batch \in Seq(S) /\ \A x \in S : IsAbout(x, ids)
  BY DEF RepliesAreAbout
<1>2. Tail(batch) \in Seq(S) /\ Head(batch) \in S
  BY <1>1
<1> QED BY <1>1, <1>2 DEF RepliesAreAbout

LEMMA NavigatingIsAbout ==
  ASSUME NEW batch, NEW ids, RepliesAreAbout(batch, ids)
  PROVE  RepliesAreAbout(Navigating(batch), ids)
<1>1. PICK S : batch \in Seq(S) /\ \A x \in S : IsAbout(x, ids)
  BY DEF RepliesAreAbout
<1>2. Navigating(batch) \in Seq(S)
  BY <1>1, NavigatingAreSome
<1> QED BY <1>1, <1>2 DEF RepliesAreAbout

LEMMA ReplyIs ==
  ASSUME NEW op, NEW ok, NEW id, NEW copy, NEW ids,
         IF op = "list" THEN copy \subseteq ids ELSE ok => id \in ids
  PROVE  IsAbout(Reply(op, ok, id, copy), ids)
BY DEF IsAbout, Reply

\* A call is answered about the statement it names.
LEMMA Sent ==
  ASSUME NEW op, op # "list", NEW ok, NEW id, NEW copy, NEW ids, ok => id \in ids,
         RepliesAreAbout(replies, ids), SendCall(op, ok, id, copy)
  PROVE  RepliesAreAbout(replies', ids)
<1>1. PICK arrives \in StatementAnswered : replies' = Append(replies, Reply(op, ok /\ arrives, id, copy))
  BY DEF SendCall
<1>2. IsAbout(Reply(op, ok /\ arrives, id, copy), ids)
  BY ReplyIs
<1> QED BY <1>1, <1>2, AppendIsAbout

\* A statement's page opens.
LEMMA Opens ==
  ASSUME StatementsShape, NEW id \in Existing, NEW rest, RepliesAreAbout(rest, Existing),
         ShowStatement(id, rest)
  PROVE  NoneConfirmed /\ PageShape'
<1>1. /\ at' = id /\ pollFor' = 0 /\ listed' = {} /\ confirmBusy' = FALSE
      /\ stmts' \in {stmts, Parsed(id)}
  BY DEF ShowStatement
<1>2. PICK parsed, arrives : replies' = Append(rest, Reply("open", arrives, id, CopyOf(parsed, id)))
  BY DEF ShowStatement
<1>3. NoneConfirmed
  BY <1>1, ParsingConfirmsNone
<1>4. id \in Existing' /\ RepliesAreAbout(rest, Existing')
  BY <1>3, AboutMore DEF NoneConfirmed
<1>5. RepliesAreAbout(replies', Existing')
  BY <1>2, <1>4, ReplyIs, AppendIsAbout
<1> QED BY <1>1, <1>3, <1>4, <1>5 DEF PageShape

StatementsKept == StatementsInv' /\ Replaces

LEMMA NoneIsKept ==
  ASSUME StatementsInv, NoneConfirmed, PageShape'
  PROVE  StatementsKept
BY KeepsConfirmed DEF StatementsInv, NoneConfirmed, StatementsKept

LEMMA UntouchedIsKept ==
  ASSUME StatementsInv, UNCHANGED <<stmts, at, listed, pollFor, replies>>, confirmBusy' \in BOOLEAN
  PROVE  StatementsKept
<1>1. NoneConfirmed
  BY UntouchedConfirmsNone DEF StatementsInv
<1>2. Existing' = Existing
  BY DEF Existing
<1>3. PageShape'
  BY <1>2 DEF PageShape, StatementsInv, RepliesAreAbout
<1> QED BY <1>1, <1>3, NoneIsKept

\* Rows are sent.
LEMMA PatchIsKept ==
  ASSUME StatementsInv, at # 0, NEW op, op # "list", NEW lines, Patch(at, op, lines),
         UNCHANGED <<at, listed, pollFor, confirmBusy>>
  PROVE  StatementsKept
<1>1. at \in Existing
  BY DEF StatementsInv, PageShape
<1> DEFINE rec == [stmts[at] EXCEPT !.rows = lines]
<1>2. stmts' = stmts \/ stmts' = [stmts EXCEPT ![at] = rec]
  BY DEF Patch
<1>3. Recorded(stmts[at])
  BY <1>1 DEF StatementsInv, StatementsShape
<1>4. rec = Record(stmts[at].kind, stmts[at].period, stmts[at].status, lines, stmts[at].by,
                   stmts[at].warned)
  BY <1>3, WithRows
<1> HIDE DEF rec
<1>5. /\ Recorded(rec) /\ rec.kind = stmts[at].kind /\ rec.period = stmts[at].period
      /\ rec.status = stmts[at].status
  BY <1>4, RecordIs
<1>6. NoneConfirmed /\ Existing' = Existing
  <2>1. CASE stmts' = stmts
    BY <2>1, UntouchedConfirmsNone DEF StatementsInv, Existing
  <2>2. CASE stmts' = [stmts EXCEPT ![at] = rec]
    <3>1. StatementsShape
      BY DEF StatementsInv
    <3>2. NoneConfirmed
      BY <1>1, <1>5, <2>2, <3>1, RowsConfirmNone
    <3> QED BY <2>2, <3>2 DEF Existing
  <2> QED BY <1>2, <2>1, <2>2
<1>7. PICK ok, copy : SendCall(op, ok, at, copy)
  BY DEF Patch
<1>8. RepliesAreAbout(replies, Existing)
  BY DEF StatementsInv, PageShape
<1>9. RepliesAreAbout(replies', Existing)
  BY <1>1, <1>7, <1>8, Sent
<1>10. PageShape'
  BY <1>6, <1>9 DEF PageShape, StatementsInv
<1> QED BY <1>6, <1>10, NoneIsKept

LEMMA CreatingIsKept ==
  ASSUME StatementsInv, NEW id \in Stmts, id \notin Existing, NEW kind, NEW period,
         NEW status \in {"processing", "staged"}, NEW lines, NEW created \in BOOLEAN,
         NEW op, op # "list", NEW copy,
         stmts' = IF created THEN WithStatement(id, kind, period, status, lines) ELSE stmts,
         SendCall(op, created, id, copy), UNCHANGED <<at, listed, pollFor>>,
         confirmBusy' \in BOOLEAN
  PROVE  StatementsKept
<1>1. NoneConfirmed /\ (created => id \in Existing')
  <2>1. CASE created
    BY <2>1, CreatingConfirmsNone DEF StatementsInv
  <2>2. CASE ~ created
    BY <2>2, UntouchedConfirmsNone DEF StatementsInv
  <2> QED BY <2>1, <2>2
<1>2. Existing \subseteq Existing' /\ RepliesAreAbout(replies, Existing')
  BY <1>1, AboutMore DEF NoneConfirmed, StatementsInv, PageShape
<1>3. RepliesAreAbout(replies', Existing')
  BY <1>1, <1>2, Sent
<1>4. PageShape'
  BY <1>2, <1>3 DEF PageShape, StatementsInv
<1> QED BY <1>1, <1>4, NoneIsKept

LEMMA AnswersAreKept ==
  ASSUME StatementsInv, Answer
  PROVE  StatementsKept
<1> DEFINE r == Head(replies)
<1>1. replies # <<>> /\ StatementsShape /\ PageShape
  BY DEF Answer, StatementsInv
<1>2. RepliesAreAbout(Tail(replies), Existing) /\ IsAbout(r, Existing)
  BY <1>1, TailIsAbout DEF PageShape
<1>3. ASSUME r.op \in {"upload", "manual"}, r.ok, ShowStatement(r.id, Navigating(Tail(replies)))
      PROVE  StatementsKept
  <2>1. r.id \in Existing
    BY <1>2, <1>3 DEF IsAbout
  <2>2. RepliesAreAbout(Navigating(Tail(replies)), Existing)
    BY <1>2, NavigatingIsAbout
  <2>3. NoneConfirmed /\ PageShape'
    BY <1>1, <1>3, <2>1, <2>2, Opens
  <2> QED BY <2>3, NoneIsKept
<1>4. ASSUME r.op = "confirm", r.ok, AnswerConfirm(r),
             NEW arrives \in StatementAnswered,
             replies' = Append(Tail(replies), Reply("reread", arrives, r.id, CopyOf(stmts, r.id)))
      PROVE  StatementsKept
  <2>1. r.id \in Existing
    BY <1>2, <1>4 DEF IsAbout
  <2>2. RepliesAreAbout(replies', Existing)
    BY <1>2, <1>4, <2>1, ReplyIs, AppendIsAbout
  <2>3. Existing' = Existing /\ NoneConfirmed
    BY <1>1, <1>4, UntouchedConfirmsNone DEF AnswerConfirm, Existing
  <2>4. PageShape'
    BY <1>1, <1>4, <2>2, <2>3 DEF AnswerConfirm, PageShape
  <2> QED BY <2>3, <2>4, NoneIsKept
<1>5. ASSUME replies' = Tail(replies),
             \/ r.op \in {"open", "tick"} /\ AnswerRead(r)
             \/ r.op = "list" /\ AnswerList(r)
             \/ r.op \in {"patch", "add"} /\ AnswerPatch(r)
             \/ r.op = "confirm" /\ ~ r.ok /\ AnswerConfirm(r)
             \/ r.op = "reread" /\ AnswerReread(r)
             \/ r.op \in {"upload", "manual"} /\ ~ r.ok /\ FailedCreate
      PROVE  StatementsKept
  <2>1. stmts' = stmts /\ at' = at
    BY <1>5 DEF AnswerRead, AnswerList, AnswerPatch, AnswerConfirm, AnswerReread, FailedCreate
  <2>2. Existing' = Existing /\ NoneConfirmed
    BY <1>1, <2>1, UntouchedConfirmsNone DEF Existing
  <2>3. confirmBusy' \in {confirmBusy, FALSE}
    BY <1>5 DEF AnswerRead, AnswerList, AnswerPatch, AnswerConfirm, AnswerReread, FailedCreate
  <2>4. pollFor' = pollFor \/ (pollFor' = r.id /\ r.ok /\ r.op \in {"open", "tick"})
    BY <1>5 DEF AnswerRead, AnswerList, AnswerPatch, AnswerConfirm, AnswerReread, FailedCreate
  <2>5. listed' = listed \/ (listed' = r.copy /\ r.op = "list")
    BY <1>5 DEF AnswerRead, AnswerList, AnswerPatch, AnswerConfirm, AnswerReread, FailedCreate
  <2>6. pollFor' \in {0} \cup Existing /\ listed' \subseteq Existing
    BY <1>1, <1>2, <2>4, <2>5 DEF PageShape, IsAbout
  <2>7. PageShape'
    BY <1>1, <1>2, <1>5, <2>1, <2>2, <2>3, <2>6 DEF PageShape
  <2> QED BY <2>2, <2>7, NoneIsKept
<1> QED BY <1>3, <1>4, <1>5, Zenon DEF Answer

LEMMA StatementsNext ==
  ASSUME StatementsInv, [StatementPageNext]_statementPageVars
  PROVE  StatementsKept
<1>1. /\ StatementsShape /\ OneConfirmed /\ PageShape
      /\ at \in {0} \cup Existing /\ pollFor \in {0} \cup Existing /\ listed \subseteq Existing
      /\ confirmBusy \in BOOLEAN /\ RepliesAreAbout(replies, Existing)
  BY DEF StatementsInv, PageShape
<1>2. CASE UNCHANGED statementPageVars
  BY <1>1, <1>2, UntouchedIsKept DEF statementPageVars
<1>3. CASE OpenList
  <2>1. /\ stmts' = stmts /\ at' = 0 /\ pollFor' = 0 /\ listed' = {} /\ confirmBusy' = FALSE
        /\ replies' = Append(Navigating(replies), Reply("list", TRUE, 0, Existing))
    BY <1>3 DEF OpenList, ShowList
  <2>2. RepliesAreAbout(replies', Existing)
    BY <1>1, <2>1, NavigatingIsAbout, ReplyIs, AppendIsAbout
  <2>3. Existing' = Existing /\ NoneConfirmed
    BY <1>1, <2>1, UntouchedConfirmsNone DEF Existing
  <2>4. PageShape'
    BY <2>1, <2>2, <2>3 DEF PageShape
  <2> QED BY <2>3, <2>4, NoneIsKept
<1>4. ASSUME NEW id \in Stmts, OpenStatement(id) PROVE StatementsKept
  <2>1. id \in Existing /\ ShowStatement(id, Navigating(replies))
    BY <1>1, <1>4 DEF OpenStatement
  <2>2. RepliesAreAbout(Navigating(replies), Existing)
    BY <1>1, NavigatingIsAbout
  <2> QED BY <1>1, <2>1, <2>2, Opens, NoneIsKept
<1>5. ASSUME \/ \E kind \in Kinds : ChooseKind(kind)
             \/ \E open \in BOOLEAN : SetManual(open)
             \/ EditManual \/ EditAddRow
      PROVE  StatementsKept
  BY <1>1, <1>5, UntouchedIsKept DEF ChooseKind, SetManual, EditManual, EditAddRow, PageStill
<1>6. ASSUME NEW id \in Stmts, NEW period \in StatementPeriods, UploadFile(id, period) PROVE StatementsKept
  <2> DEFINE created == Creatable(form.kind, period)
  <2>1. /\ stmts' = IF created THEN WithStatement(id, form.kind, period, "processing", <<>>) ELSE stmts
        /\ SendCall("upload", created, id, <<>>) /\ id \notin Existing
        /\ UNCHANGED <<at, listed, pollFor>> /\ confirmBusy' \in BOOLEAN
    BY <1>1, <1>6 DEF UploadFile, PageStill
  <2>2. created \in BOOLEAN
    BY DEF Creatable
  <2> HIDE DEF created
  <2> QED BY <2>1, <2>2, CreatingIsKept
<1>7. ASSUME NEW id \in Stmts, NEW period \in StatementPeriods, SubmitManual(id, period) PROVE StatementsKept
  <2> DEFINE created == Creatable(form.kind, period)
             lines == [i \in DOMAIN FilledRows |->
                        Item(FilledRows[i].key, FilledRows[i].amount, FALSE, FALSE)]
  <2>1. /\ stmts' = IF created THEN WithStatement(id, form.kind, period, "staged", lines) ELSE stmts
        /\ SendCall("manual", created, id, <<>>) /\ id \notin Existing
        /\ UNCHANGED <<at, listed, pollFor>> /\ confirmBusy' \in BOOLEAN
    BY <1>7 DEF SubmitManual, PageStill
  <2>2. created \in BOOLEAN
    BY DEF Creatable
  <2> HIDE DEF created, lines
  <2> QED BY <2>1, <2>2, CreatingIsKept
<1>8. CASE PollTick
  <2>1. PICK parsed \in {stmts, Parsed(pollFor)} :
          stmts' = parsed /\ SendCall("tick", TRUE, pollFor, CopyOf(parsed, pollFor))
    BY <1>8 DEF PollTick
  <2>2. pollFor \in Existing /\ pollFor' = 0 /\ UNCHANGED <<at, listed, confirmBusy>>
    BY <1>1, <1>8 DEF PollTick
  <2>3. NoneConfirmed
    BY <1>1, <2>1, ParsingConfirmsNone
  <2>4. Existing \subseteq Existing' /\ RepliesAreAbout(replies, Existing')
    BY <1>1, <2>3, AboutMore DEF NoneConfirmed
  <2>5. RepliesAreAbout(replies', Existing')
    BY <2>1, <2>2, <2>4, Sent
  <2>6. PageShape'
    BY <1>1, <2>2, <2>4, <2>5 DEF PageShape
  <2> QED BY <2>3, <2>6, NoneIsKept
<1>9. ASSUME NEW i \in ReviewRows, NEW key, MapRow(i, key) PROVE StatementsKept
  <2>1. at # 0
    BY <1>9 DEF ReviewRows, OnReview
  <2>2. PICK lines : Patch(at, "patch", lines)
    BY <1>9 DEF MapRow
  <2> QED BY <1>9, <2>1, <2>2, PatchIsKept DEF MapRow, PageStill
<1>10. CASE StageAddedRow
  <2>1. at # 0
    BY <1>10 DEF StageAddedRow, OnReview
  <2>2. PICK lines : Patch(at, "add", lines)
    BY <1>10 DEF StageAddedRow
  <2> QED BY <1>10, <2>1, <2>2, PatchIsKept DEF StageAddedRow, PageStill
<1>11. CASE ConfirmMapping
  <2>1. /\ at \in Existing /\ stmts' = AfterConfirm(at).stmts /\ confirmBusy' = TRUE
        /\ SendCall("confirm", AfterConfirm(at).ok, at, <<>>) /\ UNCHANGED <<at, listed, pollFor>>
    BY <1>1, <1>11 DEF ConfirmMapping, OnReview, PageStill
  <2>2. StatementsShape' /\ OneConfirmed' /\ Replaces /\ Existing' = Existing
    BY <1>1, <2>1, ConfirmingReplaces
  <2>3. RepliesAreAbout(replies', Existing)
    BY <1>1, <2>1, Sent
  <2>4. PageShape'
    BY <1>1, <2>1, <2>2, <2>3 DEF PageShape
  <2> QED BY <2>2, <2>4 DEF StatementsInv, StatementsKept
<1> QED
  BY <1>2, <1>3, <1>4, <1>5, <1>6, <1>7, <1>8, <1>9, <1>10, <1>11, AnswersAreKept
     DEF StatementPageNext

\* The inductive invariant of the page of the statements holds in every state.
THEOREM StatementsInvariant == StatementPageSpec => []StatementsInv
<1>1. StatementsInv /\ [StatementPageNext]_statementPageVars => StatementsInv'
  BY StatementsNext DEF StatementsKept
<1> QED BY <1>1, StatementsStart, PTL DEF StatementPageSpec

\* OneStatementPerPeriod, for any number of statements, periods, keys, edits and
\* answers, whatever the rows: a period that has a confirmed statement keeps
\* exactly one, and the statement that leaves names the one that replaced it
\* (the mock's statements/[id]/confirm/route.ts).
THEOREM OneIsKept == StatementPageSpec => OneStatementPerPeriod
<1>1. StatementsInv /\ [StatementPageNext]_statementPageVars =>
        [\A kind \in Kinds \cup UploadedKinds, period \in StatementPeriods :
           LET now == ConfirmedOf(kind, period)
               after == {i \in DOMAIN stmts' : /\ stmts'[i].kind = kind
                                               /\ stmts'[i].period = period
                                               /\ stmts'[i].status = "confirmed"}
           IN now # {} => /\ Cardinality(after) = 1
                          /\ \A i \in now \ after :
                               stmts'[i].status = "superseded" /\ {stmts'[i].by} = after
        ]_statementPageVars
  <2> SUFFICES ASSUME StatementsInv, [StatementPageNext]_statementPageVars,
                      NEW kind \in Kinds \cup UploadedKinds, NEW period \in StatementPeriods,
                      ConfirmedOf(kind, period) # {}
               PROVE  LET now == ConfirmedOf(kind, period)
                          after == {i \in DOMAIN stmts' : /\ stmts'[i].kind = kind
                                                          /\ stmts'[i].period = period
                                                          /\ stmts'[i].status = "confirmed"}
                      IN /\ Cardinality(after) = 1
                         /\ \A i \in now \ after :
                              stmts'[i].status = "superseded" /\ {stmts'[i].by} = after
    OBVIOUS
  <2>1. Replaces
    BY StatementsNext DEF StatementsKept
  <2> DEFINE after == {i \in DOMAIN stmts' : /\ stmts'[i].kind = kind
                                             /\ stmts'[i].period = period
                                             /\ stmts'[i].status = "confirmed"}
  <2>2. ConfirmedOf(kind, period)' = after
    BY DEF ConfirmedOf, SamePeriod, Existing
  <2> HIDE DEF after
  <2>3. /\ Cardinality(ConfirmedOf(kind, period)') = 1
        /\ \A i \in ConfirmedOf(kind, period) \ ConfirmedOf(kind, period)' :
             stmts'[i].status = "superseded" /\ {stmts'[i].by} = ConfirmedOf(kind, period)'
    BY <2>1 DEF Replaces
  <2>4. Cardinality(after) = 1
    BY <2>2, <2>3
  <2>5. \A i \in ConfirmedOf(kind, period) \ after :
          stmts'[i].status = "superseded" /\ {stmts'[i].by} = after
    BY <2>2, <2>3
  <2> QED BY <2>4, <2>5 DEF after
<1> QED BY <1>1, StatementsInvariant, PTL DEF StatementPageSpec, OneStatementPerPeriod

LEMMA StatementsTyped == StatementsInv => StatementPageTypeOK
BY DEF StatementsInv, StatementsShape, PageShape, StatementPageTypeOK

-----------------------------------------------------------------------------
(* The warnings of the statements there are                                *)

ThreeKinds == {"balance_sheet", "income_statement", "cash_flow"}

\* A statement's rows are lines, and its totals that are off are warned of once
\* it is confirmed.
StatementRight(s) ==
  /\ s.kind \in ThreeKinds /\ AreLines(s.rows)
  /\ s.status \in {"confirmed", "superseded"} => Warned(s.kind, s.rows, s.warned)

AllRight == \A i \in Existing : StatementRight(stmts[i])

\* What the fields of the forms hold.
FormEntry == [key : EntryKeys \cup {"none"}, amount : Int]

FormShape ==
  /\ form \in [kind : ThreeKinds, open : BOOLEAN, rows : Seq(FormEntry)]
  /\ addRow.amount \in Int

WarnInv == AllRight /\ FormShape

LEMMA LineMore ==
  ASSUME NEW lines, AreLines(lines), NEW key, NEW amount \in Int
  PROVE  AreLines(Append(lines, Item(key, amount, FALSE, FALSE)))
<1>1. PICK J : lines \in Seq(LinesOver(J))
  BY DEF AreLines
<1>2. PICK K, item : K = J \cup {key} /\ item = Item(key, amount, FALSE, FALSE)
  OBVIOUS
<1>3. LinesOver(J) \subseteq LinesOver(K) /\ item \in LinesOver(K)
  BY <1>2 DEF LinesOver, Item
<1>4. PICK T, U : T = LinesOver(J) /\ U = LinesOver(K)
  OBVIOUS
<1>5. lines \in Seq(U) /\ item \in U
  BY <1>1, <1>3, <1>4
<1>6. Append(lines, item) \in Seq(U)
  BY <1>5
<1> QED BY <1>2, <1>4, <1>6 DEF AreLines

LEMMA LineRemapped ==
  ASSUME NEW lines, AreLines(lines), NEW i, NEW key
  PROVE  AreLines([lines EXCEPT ![i].key = key, ![i].ai = FALSE])
<1>1. PICK J : lines \in Seq(LinesOver(J))
  BY DEF AreLines
<1>2. PICK K, T, U : K = J \cup {key} /\ T = LinesOver(J) /\ U = LinesOver(K)
  OBVIOUS
<1>3. T \subseteq U
  BY <1>2 DEF LinesOver
<1>8. lines \in Seq(T)
  BY <1>1, <1>2
<1>4. lines \in Seq(T) /\ lines \in Seq(U)
  BY <1>3, <1>8
<1>5. PICK once, whole : /\ once = [lines EXCEPT ![i].key = key]
                         /\ whole = [lines EXCEPT ![i].key = key, ![i].ai = FALSE]
  OBVIOUS
<1>9. whole = [once EXCEPT ![i].ai = FALSE]
  BY <1>5, SMT
<1>6. CASE i \in DOMAIN lines
  <2>1. PICK r \in T : r = lines[i]
    BY <1>8, <1>6
  <2>2. PICK s : s = [r EXCEPT !.key = key]
    OBVIOUS
  <2>3. s \in U
    BY <1>2, <2>1, <2>2 DEF LinesOver
  <2>4. PICK t : t = [s EXCEPT !.ai = FALSE]
    OBVIOUS
  <2>5. t \in U
    BY <1>2, <2>3, <2>4 DEF LinesOver
  <2>7. once = [lines EXCEPT ![i] = s]
    BY <1>5, <2>1, <2>2, SMT
  <2>8. once \in Seq(U) /\ once[i] = s /\ i \in DOMAIN once
    BY <1>4, <1>6, <2>3, <2>7
  <2>9. whole = [once EXCEPT ![i] = t]
    BY <1>9, <2>4, <2>8, SMT
  <2>10. whole \in Seq(U)
    BY <2>5, <2>8, <2>9
  <2> QED BY <1>2, <1>5, <2>10 DEF AreLines
<1>7. CASE i \notin DOMAIN lines
  <2>1. once = lines
    BY <1>4, <1>5, <1>7, SMT
  <2>2. whole = lines
    BY <1>4, <1>7, <1>9, <2>1, SMT
  <2> QED BY <1>5, <2>2, SMT
<1> QED BY <1>6, <1>7

LEMMA FourLines ==
  ASSUME NEW K, NEW k1 \in K, NEW k2 \in K, NEW k3 \in K, NEW k4 \in K,
         NEW n1 \in Int, NEW n2 \in Int, NEW n3 \in Int, NEW n4 \in Int
  PROVE  <<Item(k1, n1, TRUE, FALSE), Item(k2, n2, TRUE, FALSE),
           Item(k3, n3, TRUE, FALSE), Item(k4, n4, TRUE, FALSE)>> \in Seq(LinesOver(K))
<1>1. \A k \in K : \A n \in Int : Item(k, n, TRUE, FALSE) \in LinesOver(K)
  BY DEF Item, LinesOver
<1>2. PICK a, b, c, d : /\ a = Item(k1, n1, TRUE, FALSE) /\ b = Item(k2, n2, TRUE, FALSE)
                        /\ c = Item(k3, n3, TRUE, FALSE) /\ d = Item(k4, n4, TRUE, FALSE)
  OBVIOUS
<1>3. PICK U : U = LinesOver(K)
  OBVIOUS
<1>4. a \in U /\ b \in U /\ c \in U /\ d \in U
  BY <1>1, <1>2, <1>3
<1> QED BY <1>2, <1>3, <1>4, ShortLists

LEMMA SuggestedAreLines ==
  ASSUME NEW kind \in ThreeKinds
  PROVE  AreLines(SuggestRows(kind))
<1>1. CASE kind = "income_statement"
  <2>1. PICK n1 \in Int, n2 \in Int, n3 \in Int, n4 \in Int :
          n1 = 74000000 /\ n2 = 36100000 /\ n3 = 24500000 /\ n4 = 1200000
    BY SMT
  <2>3. PICK K : K = {"revenue", "cogs", "opex", "none"}
    OBVIOUS
  <2>5. PICK k1 \in K, k2 \in K, k3 \in K, k4 \in K :
          /\ k1 = "revenue" /\ k2 = "cogs"
          /\ k3 = "opex" /\ k4 = "none"
    BY <2>3
  <2>2. SuggestRows(kind) = <<Item(k1, n1, TRUE, FALSE), Item(k2, n2, TRUE, FALSE),
                              Item(k3, n3, TRUE, FALSE), Item(k4, n4, TRUE, FALSE)>>
    BY <1>1, <2>1, <2>5, SMTT(30) DEF SuggestRows
  <2>4. <<Item(k1, n1, TRUE, FALSE), Item(k2, n2, TRUE, FALSE),
          Item(k3, n3, TRUE, FALSE), Item(k4, n4, TRUE, FALSE)>> \in Seq(LinesOver(K))
    BY FourLines
  <2> QED BY <2>2, <2>4 DEF AreLines
<1>2. CASE kind = "cash_flow"
  <2>1. PICK n1 \in Int, n2 \in Int, n3 \in Int, n4 \in Int :
          n1 = 9400000 /\ n2 = -3100000 /\ n3 = -1500000 /\ n4 = -2800000
    BY SMT
  <2>3. PICK K : K = {"cfo", "cfi", "cff", "capex"}
    OBVIOUS
  <2>5. PICK k1 \in K, k2 \in K, k3 \in K, k4 \in K :
          /\ k1 = "cfo" /\ k2 = "cfi"
          /\ k3 = "cff" /\ k4 = "capex"
    BY <2>3
  <2>2. SuggestRows(kind) = <<Item(k1, n1, TRUE, FALSE), Item(k2, n2, TRUE, FALSE),
                              Item(k3, n3, TRUE, FALSE), Item(k4, n4, TRUE, FALSE)>>
    BY <1>2, <2>1, <2>5, SMTT(30) DEF SuggestRows
  <2>4. <<Item(k1, n1, TRUE, FALSE), Item(k2, n2, TRUE, FALSE),
          Item(k3, n3, TRUE, FALSE), Item(k4, n4, TRUE, FALSE)>> \in Seq(LinesOver(K))
    BY FourLines
  <2> QED BY <2>2, <2>4 DEF AreLines
<1>3. CASE kind = "balance_sheet"
  <2>1. PICK n1 \in Int, n2 \in Int, n3 \in Int, n4 \in Int :
          n1 = 16800000 /\ n2 = 7100000 /\ n3 = 5900000 /\ n4 = 700000
    BY SMT
  <2>3. PICK K : K = {"cash_and_equivalents", "receivables", "payables", "none"}
    OBVIOUS
  <2>5. PICK k1 \in K, k2 \in K, k3 \in K, k4 \in K :
          /\ k1 = "cash_and_equivalents" /\ k2 = "receivables"
          /\ k3 = "payables" /\ k4 = "none"
    BY <2>3
  <2>2. SuggestRows(kind) = <<Item(k1, n1, TRUE, FALSE), Item(k2, n2, TRUE, FALSE),
                              Item(k3, n3, TRUE, FALSE), Item(k4, n4, TRUE, FALSE)>>
    BY <1>3, <2>1, <2>5, SMTT(30) DEF SuggestRows
  <2>4. <<Item(k1, n1, TRUE, FALSE), Item(k2, n2, TRUE, FALSE),
          Item(k3, n3, TRUE, FALSE), Item(k4, n4, TRUE, FALSE)>> \in Seq(LinesOver(K))
    BY FourLines
  <2> QED BY <2>2, <2>4 DEF AreLines
<1> QED BY <1>1, <1>2, <1>3 DEF ThreeKinds

\* One record is new or other; the rest are as they were.
LEMMA OneIsRight ==
  ASSUME AllRight, NEW id, \A i \in Existing' : i = id \/ (i \in Existing /\ stmts'[i] = stmts[i]),
         id \in Existing' => StatementRight(stmts'[id])
  PROVE  AllRight'
<1> SUFFICES ASSUME NEW i \in Existing' PROVE StatementRight(stmts'[i])
  BY DEF AllRight, StatementRight
<1> QED BY DEF AllRight

LEMMA StaysRight == ASSUME AllRight, stmts' = stmts PROVE AllRight'
<1>1. Existing' = Existing
  BY DEF Existing
<1> QED BY <1>1 DEF AllRight, StatementRight

LEMMA ParsingIsRight ==
  ASSUME StatementsShape, AllRight, NEW id, stmts' \in {stmts, Parsed(id)}
  PROVE  AllRight'
<1>1. CASE stmts' = stmts
  BY <1>1, StaysRight
<1>2. CASE stmts' # stmts
  <2>1. /\ stmts[id].status = "processing"
        /\ stmts' = [stmts EXCEPT ![id].status = "staged", ![id].rows = SuggestRows(stmts[id].kind)]
    BY <1>2 DEF Parsed
  <2>2. id \in Existing
    BY <1>2, <2>1 DEF Existing, StatementsShape
  <2>3. PICK s : s = stmts[id]
    OBVIOUS
  <2>4. Recorded(s) /\ s.kind \in ThreeKinds
    BY <2>2, <2>3 DEF StatementsShape, AllRight, StatementRight
  <2>5. PICK rec : rec = [s EXCEPT !.status = "staged", !.rows = SuggestRows(s.kind)]
    OBVIOUS
  <2>6. rec = Record(s.kind, s.period, "staged", SuggestRows(s.kind), s.by, s.warned)
    BY <2>4, <2>5, WithStatusRows
  <2>7. StatementRight(rec)
    BY <2>4, <2>6, RecordIs, SuggestedAreLines DEF StatementRight
  <2>8. stmts' = [stmts EXCEPT ![id] = rec]
    BY <2>1, <2>2, <2>3, <2>4, <2>5 DEF Existing, StatementsShape
  <2>9. /\ Existing' = Existing /\ stmts'[id] = rec
        /\ \A i \in Existing : i = id \/ stmts'[i] = stmts[i]
    BY <2>2, <2>8 DEF Existing
  <2> QED BY <2>7, <2>9, OneIsRight
<1> QED BY <1>1, <1>2

LEMMA CreatingIsRight ==
  ASSUME AllRight, NEW id, NEW kind \in ThreeKinds, NEW period,
         NEW status \in {"processing", "staged"}, NEW lines, AreLines(lines),
         stmts' = WithStatement(id, kind, period, status, lines)
  PROVE  AllRight'
<1>1. PICK rec : rec = Record(kind, period, status, lines, 0, {})
  OBVIOUS
<1>2. stmts' = [i \in Existing \cup {id} |-> IF i = id THEN rec ELSE stmts[i]]
  BY <1>1 DEF WithStatement, Record
<1>3. StatementRight(rec)
  BY <1>1, RecordIs DEF StatementRight
<1>4. /\ Existing' = Existing \cup {id} /\ stmts'[id] = rec
      /\ \A i \in Existing' : i = id \/ (i \in Existing /\ stmts'[i] = stmts[i])
  BY <1>2 DEF Existing
<1> QED BY <1>3, <1>4, OneIsRight

LEMMA PatchIsRight ==
  ASSUME StatementsShape, AllRight, at \in Existing, NEW op, NEW lines, AreLines(lines),
         Patch(at, op, lines)
  PROVE  AllRight'
<1>1. PICK s : s = stmts[at]
  OBVIOUS
<1>2. Recorded(s) /\ s.kind \in ThreeKinds
  BY <1>1 DEF StatementsShape, AllRight, StatementRight
<1>3. PICK rec : rec = [s EXCEPT !.rows = lines]
  OBVIOUS
<1>4. rec = Record(s.kind, s.period, s.status, lines, s.by, s.warned)
  BY <1>2, <1>3, WithRows
<1>5. stmts' = stmts \/ (s.status = "staged" /\ stmts' = [stmts EXCEPT ![at] = rec])
  BY <1>1, <1>3 DEF Patch
<1>6. CASE stmts' = stmts
  BY <1>6, StaysRight
<1>7. CASE s.status = "staged" /\ stmts' = [stmts EXCEPT ![at] = rec]
  <2>1. StatementRight(rec)
    BY <1>2, <1>4, <1>7, RecordIs DEF StatementRight
  <2>2. /\ Existing' = Existing /\ stmts'[at] = rec
        /\ \A i \in Existing : i = at \/ stmts'[i] = stmts[i]
    BY <1>7 DEF Existing
  <2> QED BY <2>1, <2>2, OneIsRight
<1> QED BY <1>5, <1>6, <1>7

LEMMA ConfirmingIsRight ==
  ASSUME StatementsShape, AllRight, NEW id \in Existing, stmts' = AfterConfirm(id).stmts
  PROVE  AllRight'
<1>1. PICK s, run : s = stmts[id] /\ run = RunDerivations(s.kind, s.rows)
  OBVIOUS
<1>2. Recorded(s) /\ s.kind \in ThreeKinds /\ AreLines(s.rows)
  BY <1>1 DEF StatementsShape, AllRight, StatementRight
<1>3. AreLines(run.rows) /\ Warned(s.kind, run.rows, run.warned)
  BY <1>1, <1>2, RunIsRight
<1>4. PICK rec : rec = [s EXCEPT !.rows = run.rows]
  OBVIOUS
<1>5. rec = Record(s.kind, s.period, s.status, run.rows, s.by, s.warned)
  BY <1>2, <1>4, WithRows
<1>6. PICK derived : derived = [stmts EXCEPT ![id] = rec]
  OBVIOUS
<1>7. derived = [stmts EXCEPT ![id].rows = run.rows]
  BY <1>1, <1>2, <1>4, <1>6 DEF Existing, StatementsShape
<1>8. PICK old : old = ConfirmedOf(s.kind, s.period) \ {id}
  OBVIOUS
<1> DEFINE after(r, d, o) == [i \in Existing |->
                      IF i = id THEN [d[i] EXCEPT !.status = "confirmed", !.warned = r.warned]
                      ELSE IF o # {} /\ i = Min(o)
                      THEN [d[i] EXCEPT !.status = "superseded", !.by = id]
                      ELSE d[i]]
           next == after(run, derived, old)
<1>14. LET s0 == stmts[id]
           r0 == RunDerivations(s0.kind, s0.rows)
           d0 == [stmts EXCEPT ![id].rows = r0.rows]
       IN \/ stmts' = stmts
          \/ s0.status = "staged" /\ stmts' = d0
          \/ stmts' = after(r0, d0, ConfirmedOf(s0.kind, s0.period) \ {id})
  BY DEF AfterConfirm
<1>9. \/ stmts' = stmts
      \/ s.status = "staged" /\ stmts' = derived
      \/ stmts' = next
  <2> HIDE DEF after
  <2> QED BY <1>1, <1>7, <1>8, <1>14
<1>10. derived[id] = rec /\ DOMAIN derived = Existing /\ \A i \in Existing \ {id} : derived[i] = stmts[i]
  BY <1>6 DEF Existing, StatementsShape
<1>11. CASE stmts' = stmts
  BY <1>11, StaysRight
<1>12. CASE s.status = "staged" /\ stmts' = derived
  <2>1. StatementRight(rec)
    BY <1>2, <1>3, <1>5, <1>12, RecordIs DEF StatementRight
  <2>2. Existing' = Existing
    BY <1>10, <1>12 DEF Existing
  <2> QED BY <1>10, <1>12, <2>1, <2>2, OneIsRight
<1>13. CASE stmts' = next
  <2>1. Existing' = Existing /\ \A i \in Existing : stmts'[i] = next[i]
    BY <1>13 DEF Existing
  <2>2. ASSUME NEW i \in Existing PROVE StatementRight(next[i])
    <3>1. CASE i = id
      <4>1. next[i] = [rec EXCEPT !.status = "confirmed", !.warned = run.warned]
        BY <1>10, <3>1
      <4>2. next[i] = Record(s.kind, s.period, "confirmed", run.rows, s.by, run.warned)
        <5>1. Recorded(rec) /\ rec.kind = s.kind /\ rec.period = s.period
              /\ rec.rows = run.rows /\ rec.by = s.by
          BY <1>5, RecordIs
        <5> HIDE DEF next
        <5>3. PICK w, new : w = run.warned /\ new = next[i]
          OBVIOUS
        <5>4. new = [rec EXCEPT !.status = "confirmed", !.warned = w]
          BY <4>1, <5>3
        <5>5. new = Record(rec.kind, rec.period, "confirmed", rec.rows, rec.by, w)
          BY <5>1, <5>4, WithStatusWarned
        <5>2. next[i] = Record(rec.kind, rec.period, "confirmed", rec.rows, rec.by, run.warned)
          BY <5>3, <5>5
        <5> QED BY <5>1, <5>2
      <4> HIDE DEF next
      <4> QED BY <1>2, <1>3, <4>2, RecordIs DEF StatementRight
    <3>2. CASE i # id /\ old # {} /\ i = Min(old)
      <4>1. i \in old
        <5>1. old \subseteq Nat
          BY <1>8, StatementPageAssumption DEF ConfirmedOf, SamePeriod, StatementsShape
        <5>2. \E m \in old : \A n \in old : m <= n
          BY <3>2, <5>1, NatsHaveALeast
        <5> QED BY <3>2, <5>2 DEF Min
      <4>2. PICK o : o = stmts[i]
        OBVIOUS
      <4>3. Recorded(o) /\ o.status = "confirmed" /\ StatementRight(o)
        BY <1>8, <4>1, <4>2 DEF ConfirmedOf, SamePeriod, StatementsShape, AllRight
      <4>4. next[i] = [o EXCEPT !.status = "superseded", !.by = id]
        BY <1>10, <3>2, <4>2
      <4> HIDE DEF next
      <4>5. next[i] = Record(o.kind, o.period, "superseded", o.rows, id, o.warned)
        BY <4>3, <4>4, WithStatusBy
      <4> QED BY <4>3, <4>5, RecordIs DEF StatementRight
    <3>3. CASE i # id /\ ~ (old # {} /\ i = Min(old))
      <4>1. next[i] = stmts[i]
        BY <1>10, <3>3
      <4> QED BY <4>1 DEF AllRight
    <3> QED BY <3>1, <3>2, <3>3
  <2> HIDE DEF next
  <2> QED BY <2>1, <2>2 DEF AllRight, StatementRight
<1> QED BY <1>9, <1>11, <1>12, <1>13

-----------------------------------------------------------------------------
(* The forms of the statement pages                                        *)

LEMMA FreshIsShaped ==
  ASSUME form' = FreshForm, addRow' = NoRow
  PROVE  FormShape'
<1>1. BlankRow \in FormEntry
  BY DEF BlankRow, FormEntry
<1>2. <<BlankRow>> \in Seq(FormEntry)
  BY <1>1
<1>3. PICK R : R = Seq(FormEntry)
  OBVIOUS
<1>4. form' \in [kind : ThreeKinds, open : BOOLEAN, rows : R]
  BY <1>2, <1>3 DEF FreshForm, ThreeKinds
<1>5. addRow'.amount \in Int
  BY DEF NoRow
<1> QED BY <1>3, <1>4, <1>5 DEF FormShape

LEMMA SameIsShaped ==
  ASSUME FormShape, UNCHANGED <<form, addRow>>
  PROVE  FormShape'
BY DEF FormShape

LEMMA EntriesAre ==
  ASSUME NEW kind
  PROVE  RowEntries(kind) \subseteq FormEntry
<1>1. BlankRow \in FormEntry
  BY DEF BlankRow, FormEntry
<1>2. EntryAmounts \subseteq Int
  BY StatementPageAssumption
<1> QED BY <1>1, <1>2 DEF RowEntries, FormEntry

\* Whatever is edited, appended or removed.
LEMMA EditsAreEntries ==
  ASSUME NEW list \in Seq(FormEntry), NEW new \in ManualEdits(list)
  PROVE  new \in Seq(FormEntry)
<1>1. BlankRow \in FormEntry /\ RowEntries(form.kind) \subseteq FormEntry
  BY EntriesAre DEF BlankRow, FormEntry
<1>2. ASSUME NEW i \in DOMAIN list, NEW r \in RowEntries(form.kind), new = [list EXCEPT ![i] = r]
      PROVE  new \in Seq(FormEntry)
  <2>1. r \in FormEntry
    BY <1>1
  <2> QED BY <1>2, <2>1
<1>3. CASE new = Append(list, BlankRow)
  BY <1>1, <1>3
<1>4. ASSUME NEW i \in DOMAIN list, new = RemoveAt(list, i)
      PROVE  new \in Seq(FormEntry)
  <2>1. PICK n \in Nat : n = Len(list) /\ i \in 1..n
    OBVIOUS
  <2>2. PICK a, b : a = SubSeq(list, 1, i - 1) /\ b = SubSeq(list, i + 1, Len(list))
    OBVIOUS
  <2>3. a \in Seq(FormEntry)
    BY <2>1, <2>2
  <2>4. b \in Seq(FormEntry)
    BY <2>1, <2>2
  <2>5. a \o b \in Seq(FormEntry)
    BY <2>3, <2>4
  <2> QED BY <1>4, <2>2, <2>5 DEF RemoveAt
<1> QED BY <1>2, <1>3, <1>4 DEF ManualEdits

LEMMA FormsAreShaped ==
  ASSUME FormShape,
         \/ \E kind \in Kinds : ChooseKind(kind)
         \/ \E open \in BOOLEAN : SetManual(open)
         \/ EditManual \/ EditAddRow
  PROVE  FormShape'
<1>1. PICK k, o, list : /\ form = [kind |-> k, open |-> o, rows |-> list]
                        /\ k \in ThreeKinds /\ o \in BOOLEAN /\ list \in Seq(FormEntry)
  BY DEF FormShape
<1>2. PICK R : R = Seq(FormEntry)
  OBVIOUS
<1>3. ASSUME NEW kind \in Kinds, ChooseKind(kind) PROVE FormShape'
  <2>1. kind \in ThreeKinds
    BY StatementPageAssumption DEF ThreeKinds
  <2>2. form' = [kind |-> kind, open |-> o, rows |-> list] /\ addRow' = addRow
    BY <1>1, <1>3 DEF ChooseKind
  <2>3. form' \in [kind : ThreeKinds, open : BOOLEAN, rows : R]
    BY <1>1, <1>2, <2>1, <2>2
  <2> QED BY <1>2, <2>2, <2>3 DEF FormShape
<1>4. ASSUME NEW open \in BOOLEAN, SetManual(open) PROVE FormShape'
  <2>2. form' = [kind |-> k, open |-> open, rows |-> list] /\ addRow' = addRow
    BY <1>1, <1>4 DEF SetManual
  <2>3. form' \in [kind : ThreeKinds, open : BOOLEAN, rows : R]
    BY <1>1, <1>2, <2>2
  <2> QED BY <1>2, <2>2, <2>3 DEF FormShape
<1>5. CASE EditManual
  <2>1. PICK new \in ManualEdits(form.rows) : form' = [form EXCEPT !.rows = new]
    BY <1>5 DEF EditManual
  <2>4. form.rows = list
    BY <1>1
  <2>5. new \in Seq(FormEntry)
    BY <1>1, <2>4, EditsAreEntries
  <2>2. form' = [kind |-> k, open |-> o, rows |-> new] /\ addRow' = addRow
    BY <1>1, <1>5, <2>1 DEF EditManual
  <2>3. form' \in [kind : ThreeKinds, open : BOOLEAN, rows : R]
    BY <1>1, <1>2, <2>2, <2>5
  <2> QED BY <1>2, <2>2, <2>3 DEF FormShape
<1>6. CASE EditAddRow
  <2>1. form' = form /\ addRow' \in {BlankRow, NoRow} \cup RowEntries(stmts[at].kind)
    BY <1>6 DEF EditAddRow
  <2>2. addRow'.amount \in Int
    BY <2>1, EntriesAre DEF BlankRow, NoRow, FormEntry
  <2> QED BY <2>1, <2>2 DEF FormShape
<1> QED BY <1>3, <1>4, <1>5, <1>6

-----------------------------------------------------------------------------
(* Divergence is warned                                                    *)

LEMMA WarnStart == StatementPageInit => WarnInv
<1> SUFFICES ASSUME StatementPageInit PROVE WarnInv
  OBVIOUS
<1>1. FormShape
  <2>1. BlankRow \in FormEntry
    BY DEF BlankRow, FormEntry
  <2>2. <<BlankRow>> \in Seq(FormEntry)
    BY <2>1
  <2>3. PICK R : R = Seq(FormEntry)
    OBVIOUS
  <2>4. form \in [kind : ThreeKinds, open : BOOLEAN, rows : R]
    BY <2>2, <2>3 DEF StatementPageInit, FreshForm, ThreeKinds
  <2>5. addRow.amount \in Int
    BY DEF StatementPageInit, NoRow
  <2> QED BY <2>3, <2>4, <2>5 DEF FormShape
<1>2. CASE stmts = <<>>
  <2>1. Existing = {}
    BY <1>2 DEF Existing
  <2> QED BY <1>1, <2>1 DEF WarnInv, AllRight
<1>3. ASSUME NEW k \in UploadedKinds, NEW p \in StatementPeriods, stmts = UploadedTwice(k, p)
      PROVE  WarnInv
  <2>1. k \in ThreeKinds
    BY StatementPageAssumption DEF ThreeKinds
  <2>2. PICK rec : rec = Record(k, p, "staged", SuggestRows(k), 0, {})
    OBVIOUS
  <2>3. StatementRight(rec)
    BY <2>1, <2>2, RecordIs, SuggestedAreLines DEF StatementRight
  <2>4. \A i \in Existing : stmts[i] = rec
    BY <1>3, <2>2 DEF Existing, UploadedTwice, Record
  <2> QED BY <1>1, <2>3, <2>4 DEF WarnInv, AllRight
<1> QED BY <1>2, <1>3 DEF StatementPageInit

LEMMA OpensRight ==
  ASSUME StatementsShape, AllRight, NEW id, NEW rest, ShowStatement(id, rest)
  PROVE  WarnInv'
<1>1. form' = FreshForm /\ addRow' = NoRow /\ stmts' \in {stmts, Parsed(id)}
  BY DEF ShowStatement
<1> QED BY <1>1, FreshIsShaped, ParsingIsRight DEF WarnInv

LEMMA WarnNext ==
  ASSUME StatementsInv, WarnInv, [StatementPageNext]_statementPageVars
  PROVE  WarnInv'
<1>1. /\ StatementsShape /\ AllRight /\ FormShape /\ at \in {0} \cup Existing
  BY DEF StatementsInv, PageShape, WarnInv
<1>2. CASE UNCHANGED statementPageVars
  BY <1>1, <1>2, StaysRight, SameIsShaped DEF statementPageVars, WarnInv
<1>3. CASE OpenList
  <2>1. stmts' = stmts /\ form' = FreshForm /\ addRow' = NoRow
    BY <1>3 DEF OpenList, ShowList
  <2> QED BY <1>1, <2>1, StaysRight, FreshIsShaped DEF WarnInv
<1>4. ASSUME NEW id \in Stmts, OpenStatement(id) PROVE WarnInv'
  <2>1. ShowStatement(id, Navigating(replies))
    BY <1>4 DEF OpenStatement
  <2> QED BY <1>1, <2>1, OpensRight
<1>5. ASSUME \/ \E kind \in Kinds : ChooseKind(kind)
             \/ \E open \in BOOLEAN : SetManual(open)
             \/ EditManual \/ EditAddRow
      PROVE  WarnInv'
  <2>1. stmts' = stmts
    BY <1>5 DEF ChooseKind, SetManual, EditManual, EditAddRow
  <2> QED BY <1>1, <1>5, <2>1, StaysRight, FormsAreShaped DEF WarnInv
<1>6. ASSUME NEW id \in Stmts, NEW period \in StatementPeriods, UploadFile(id, period) PROVE WarnInv'
  <2>1. /\ \/ stmts' = stmts
           \/ stmts' = WithStatement(id, form.kind, period, "processing", <<>>)
        /\ UNCHANGED <<form, addRow>>
    BY <1>6 DEF UploadFile
  <2>2. form.kind \in ThreeKinds
    BY <1>1 DEF FormShape
  <2>3. AreLines(<<>>)
    BY DEF AreLines
  <2>4. AllRight'
    BY <1>1, <2>1, <2>2, <2>3, StaysRight, CreatingIsRight
  <2> QED BY <1>1, <2>1, <2>4, SameIsShaped DEF WarnInv
<1>7. ASSUME NEW id \in Stmts, NEW period \in StatementPeriods, SubmitManual(id, period) PROVE WarnInv'
  <2>1. PICK filled, lines : /\ filled = FilledRows
                             /\ lines = [i \in DOMAIN filled |->
                                          Item(filled[i].key, filled[i].amount, FALSE, FALSE)]
    OBVIOUS
  <2>2. /\ \/ stmts' = stmts
           \/ stmts' = WithStatement(id, form.kind, period, "staged", lines)
        /\ UNCHANGED <<form, addRow>>
    BY <1>7, <2>1 DEF SubmitManual
  <2>3. PICK list \in Seq(FormEntry) : list = form.rows
    BY <1>1 DEF FormShape
  <2>4. filled \in Seq(FormEntry)
    <3>1. PICK places : places = {i \in DOMAIN list : list[i] # BlankRow}
      OBVIOUS
    <3>2. places \in SUBSET DOMAIN list
      BY <3>1
    <3>3. FilledRows = AtPlaces(list, places)
      BY <2>3, <3>1 DEF FilledRows
    <3> QED BY <2>1, <3>2, <3>3, PartOfAList
  <2>5. PICK K, U : K = EntryKeys \cup {"none"} /\ U = LinesOver(K)
    OBVIOUS
  <2>6. \A r \in FormEntry : Item(r.key, r.amount, FALSE, FALSE) \in U
    BY <2>5 DEF FormEntry, Item, LinesOver
  <2>7. lines \in Seq(U)
    <3>1. DOMAIN filled = 1..Len(filled) /\ Len(filled) \in Nat /\ \A i \in 1..Len(filled) : filled[i] \in FormEntry
      BY <2>4
    <3>2. \A i \in 1..Len(filled) : Item(filled[i].key, filled[i].amount, FALSE, FALSE) \in U
      BY <2>6, <3>1
    <3>3. PICK n \in Nat : n = Len(filled)
      BY <3>1
    <3>4. lines = [i \in 1..n |-> Item(filled[i].key, filled[i].amount, FALSE, FALSE)]
      BY <2>1, <3>1, <3>3
    <3>5. \A i \in 1..n : lines[i] \in U
      BY <3>2, <3>3, <3>4
    <3>6. lines = [i \in 1..n |-> lines[i]]
      BY <3>4
    <3> QED BY <3>5, <3>6
  <2>8. AreLines(lines) /\ form.kind \in ThreeKinds
    BY <1>1, <2>5, <2>7 DEF AreLines, FormShape
  <2>9. AllRight'
    BY <1>1, <2>2, <2>8, StaysRight, CreatingIsRight
  <2> QED BY <1>1, <2>2, <2>9, SameIsShaped DEF WarnInv
<1>8. CASE PollTick
  <2>1. stmts' \in {stmts, Parsed(pollFor)} /\ UNCHANGED <<form, addRow>>
    BY <1>8 DEF PollTick
  <2> QED BY <1>1, <2>1, ParsingIsRight, SameIsShaped DEF WarnInv
<1>9. ASSUME NEW i \in ReviewRows, NEW key, MapRow(i, key) PROVE WarnInv'
  <2>1. at \in Existing
    BY <1>1, <1>9 DEF ReviewRows, OnReview
  <2>2. AreLines(stmts[at].rows)
    BY <1>1, <2>1 DEF AllRight, StatementRight
  <2>3. PICK lines : lines = [stmts[at].rows EXCEPT ![i].key = key, ![i].ai = FALSE]
    OBVIOUS
  <2>4. AreLines(lines)
    BY <2>2, <2>3, LineRemapped
  <2>5. Patch(at, "patch", lines) /\ UNCHANGED <<form, addRow>>
    BY <1>9, <2>3 DEF MapRow
  <2>6. AllRight'
    BY <1>1, <2>1, <2>4, <2>5, PatchIsRight
  <2> QED BY <1>1, <2>5, <2>6, SameIsShaped DEF WarnInv
<1>10. CASE StageAddedRow
  <2>1. at \in Existing
    BY <1>1, <1>10 DEF StageAddedRow, OnReview
  <2>2. AreLines(stmts[at].rows) /\ addRow.amount \in Int
    BY <1>1, <2>1 DEF AllRight, StatementRight, FormShape
  <2>3. PICK lines : lines = Append(stmts[at].rows, Item(addRow.key, addRow.amount, FALSE, FALSE))
    OBVIOUS
  <2>4. AreLines(lines)
    BY <2>2, <2>3, LineMore
  <2>5. Patch(at, "add", lines) /\ UNCHANGED <<form, addRow>>
    BY <1>10, <2>3 DEF StageAddedRow
  <2>6. AllRight'
    BY <1>1, <2>1, <2>4, <2>5, PatchIsRight
  <2> QED BY <1>1, <2>5, <2>6, SameIsShaped DEF WarnInv
<1>11. CASE ConfirmMapping
  <2>1. at \in Existing /\ stmts' = AfterConfirm(at).stmts /\ UNCHANGED <<form, addRow>>
    BY <1>1, <1>11 DEF ConfirmMapping, OnReview
  <2>2. AllRight'
    BY <1>1, <2>1, ConfirmingIsRight
  <2> QED BY <1>1, <2>1, <2>2, SameIsShaped DEF WarnInv
<1>12. CASE Answer
  <2>1. \/ \E id, rest : ShowStatement(id, rest)
        \/ stmts' = stmts /\ form' = form /\ addRow' \in {addRow, NoRow}
    BY <1>12
       DEF Answer, AnswerRead, AnswerList, AnswerPatch, AnswerConfirm, AnswerReread, FailedCreate
  <2>2. ASSUME stmts' = stmts, form' = form, addRow' \in {addRow, NoRow} PROVE WarnInv'
    <3>1. FormShape'
      BY <1>1, <2>2 DEF FormShape, NoRow
    <3> QED BY <1>1, <2>2, <3>1, StaysRight DEF WarnInv
  <2> QED BY <1>1, <2>1, <2>2, OpensRight
<1> QED
  BY <1>2, <1>3, <1>4, <1>5, <1>6, <1>7, <1>8, <1>9, <1>10, <1>11, <1>12 DEF StatementPageNext

LEMMA RightIsWarned == WarnInv => DivergenceIsWarned
BY DEF WarnInv, AllRight, StatementRight, Warned, DivergenceIsWarned

\* DivergenceIsWarned, for any statements, keys, amounts and order of edits and
\* answers: a total of a confirmed statement that is more than 1 % off the sum
\* of its components is among the statement's warnings (the statement engine's
\* runDerivations), because no derivation adds up a total that comes later.
THEOREM DivergenceWarned == StatementPageSpec => []DivergenceIsWarned
<1>1. StatementsInv /\ WarnInv /\ [StatementPageNext]_statementPageVars => StatementsInv' /\ WarnInv'
  BY StatementsNext, WarnNext DEF StatementsKept
<1>2. StatementPageInit => StatementsInv /\ WarnInv
  BY StatementsStart, WarnStart
<1> QED BY <1>1, <1>2, RightIsWarned, PTL DEF StatementPageSpec

-----------------------------------------------------------------------------
(* The ratio grid of a company                                             *)

LedgerVersions == [confirmed : 0..Len(Books), nets : DOMAIN LedgerNets]

NoneOrOneOf(s) == s = <<>> \/ \E v : s = <<v>>

\* A stored report was computed from no more than is confirmed now, and knows
\* every confirmed statement of its period.
ReportsStored ==
  /\ ledgerOf \in LedgerVersions
  /\ \A p \in DOMAIN ratioCache :
       /\ ratioCache[p] \in LedgerVersions
       /\ StatementsOf(p, ratioCache[p].confirmed) = StatementsOf(p, ledgerOf.confirmed)

GridShape ==
  /\ NoneOrOneOf(gridPeriod) /\ NoneOrOneOf(grid) /\ NoneOrOneOf(traced)
  /\ gridBusy \in BOOLEAN /\ gridError \in BOOLEAN /\ gridSent \in 0..MaxGridCalls
  /\ listSeen \in -1..Len(Books) /\ trend \in -1..Len(Books)
  /\ \A c \in gridCalls : c.op = "trend" => c.seen \in 0..Len(Books)

RatioInv == ReportsStored /\ GridShape

LEMMA BooksAreCounted == Len(Books) \in Nat /\ DOMAIN Books = 1..Len(Books)
BY RatioPagesAssumption

LEMMA NetsAreCounted == DOMAIN LedgerNets = 1..Len(LedgerNets) /\ Len(LedgerNets) \in Nat \ {0}
BY RatioPagesAssumption

LEMMA RatioStarts == RatioPagesInit => RatioInv
<1> SUFFICES ASSUME RatioPagesInit PROVE RatioInv
  OBVIOUS
<1>1. ReportsStored
  BY BooksAreCounted, NetsAreCounted DEF RatioPagesInit, ReportsStored, LedgerVersions
<1>3. MaxGridCalls \in Nat
  BY RatioPagesAssumption
<1>4. /\ gridBusy = FALSE /\ gridError = FALSE /\ gridCalls = {} /\ gridSent = 0
      /\ listSeen = -1 /\ trend = -1 /\ gridPeriod = <<>> /\ grid = <<>> /\ traced = <<>>
  BY DEF RatioPagesInit
<1>5. 0 \in 0..MaxGridCalls /\ -1 \in -1..Len(Books)
  BY <1>3, BooksAreCounted
<1>2. GridShape
  BY <1>4, <1>5, Zenon DEF GridShape, NoneOrOneOf
<1> QED
  BY <1>1, <1>2 DEF RatioInv

\* Storing a report computed now, or none, keeps the stored ones in order.
LEMMA StoringKeeps ==
  ASSUME RatioInv, NEW p, UNCHANGED ledgerOf,
         ratioCache' \in {ratioCache, Stored(ratioCache, p, ledgerOf)}
  PROVE  ReportsStored'
<1>1. ASSUME NEW q \in DOMAIN ratioCache'
      PROVE  /\ ratioCache'[q] \in LedgerVersions
             /\ StatementsOf(q, ratioCache'[q].confirmed) = StatementsOf(q, ledgerOf.confirmed)
  BY <1>1 DEF RatioInv, ReportsStored, Stored
<1> QED
  BY <1>1 DEF RatioInv, ReportsStored, LedgerVersions, StatementsOf

\* A confirmed statement is of its own period: no other report lacks it.
LEMMA ConfirmingKeeps == RatioInv /\ ConfirmNext => RatioInv'
<1> SUFFICES ASSUME RatioInv, ConfirmNext PROVE RatioInv'
  OBVIOUS
<1> DEFINE next == ledgerOf.confirmed + 1
           stored == ledgerOf'
<1>1. /\ ledgerOf \in LedgerVersions /\ ledgerOf.confirmed < Len(Books)
      /\ ledgerOf' = [ledgerOf EXCEPT !.confirmed = @ + 1]
  BY DEF ConfirmNext, RatioInv, ReportsStored
<1>2. /\ ledgerOf' \in LedgerVersions /\ ledgerOf'.confirmed = next /\ next \in 1..Len(Books)
      /\ ledgerOf.confirmed \in Nat /\ next = ledgerOf.confirmed + 1
  BY <1>1, BooksAreCounted DEF LedgerVersions
<1>3. ratioCache' = Stored(ratioCache, Books[next].period, ledgerOf')
  BY <1>2 DEF ConfirmNext
<1>4. \A q : q # Books[next].period => StatementsOf(q, next) = StatementsOf(q, ledgerOf.confirmed)
  BY <1>2 DEF StatementsOf
<1>5. ASSUME NEW q \in DOMAIN ratioCache'
      PROVE  /\ ratioCache'[q] \in LedgerVersions
             /\ StatementsOf(q, ratioCache'[q].confirmed) = StatementsOf(q, next)
  <2>1. CASE q = Books[next].period
    BY <1>2, <1>3, <2>1 DEF Stored
  <2>2. CASE q # Books[next].period
    <3>1. q \in DOMAIN ratioCache /\ ratioCache'[q] = ratioCache[q]
      BY <1>3, <2>2 DEF Stored
    <3> QED
      BY <1>4, <2>2, <3>1 DEF RatioInv, ReportsStored
  <2> QED
    BY <2>1, <2>2
<1>6. ReportsStored'
  BY <1>2, <1>5 DEF ReportsStored, LedgerVersions, StatementsOf
<1>7. GridShape'
  BY DEF ConfirmNext, RatioInv, GridShape
<1> QED
  BY <1>6, <1>7 DEF RatioInv

LEMMA RecordingKeeps == RatioInv /\ RecordTransactions => RatioInv'
<1> SUFFICES ASSUME RatioInv, RecordTransactions PROVE RatioInv'
  OBVIOUS
<1>1. /\ ledgerOf \in LedgerVersions /\ ledgerOf.nets < Len(LedgerNets)
      /\ ledgerOf' = [ledgerOf EXCEPT !.nets = @ + 1] /\ UNCHANGED ratioCache
  BY DEF RecordTransactions, RatioInv, ReportsStored
<1>2. ledgerOf' \in LedgerVersions /\ ledgerOf'.confirmed = ledgerOf.confirmed
  BY <1>1, NetsAreCounted DEF LedgerVersions
<1>3. ReportsStored'
  BY <1>1, <1>2 DEF RatioInv, ReportsStored, StatementsOf, LedgerVersions
<1>4. GridShape'
  BY DEF RecordTransactions, RatioInv, GridShape
<1> QED
  BY <1>3, <1>4 DEF RatioInv

\* A call stores the report of its period, if any.
LEMMA CallKeeps ==
  ASSUME RatioInv, NEW p, NEW op \in {"load", "compute"},
         NEW cache \in {AfterGet(p), AfterCompute(p)}, SendGrid(op, p, cache),
         UNCHANGED <<ledgerOf, listSeen, grid, traced, trend>>,
         gridPeriod' = <<p>> \/ UNCHANGED gridPeriod
  PROVE  RatioInv'
<1>1. ratioCache' \in {ratioCache, Stored(ratioCache, p, ledgerOf)}
  BY DEF SendGrid, AfterGet, AfterCompute
<1>2. ReportsStored'
  BY <1>1, StoringKeeps
<1>3. \A c \in gridCalls' : c.op = "trend" => c \in gridCalls
  BY DEF SendGrid
<1>4. GridShape'
  <2>1. /\ NoneOrOneOf(gridPeriod)' /\ NoneOrOneOf(grid)' /\ NoneOrOneOf(traced)'
        /\ gridBusy' \in BOOLEAN /\ gridError' \in BOOLEAN
    BY DEF RatioInv, GridShape, NoneOrOneOf, SendGrid
  <2>2. gridSent' \in 0..MaxGridCalls
    BY RatioPagesAssumption DEF RatioInv, GridShape, SendGrid
  <2>3. /\ listSeen' \in -1..Len(Books) /\ trend' \in -1..Len(Books)
        /\ \A c \in gridCalls' : c.op = "trend" => c.seen \in 0..Len(Books)
    BY <1>3 DEF RatioInv, GridShape
  <2> QED
    BY <2>1, <2>2, <2>3 DEF GridShape
<1> QED
  BY <1>2, <1>4 DEF RatioInv

LEMMA TrendIsCounted ==
  ASSUME NEW n \in 0..Len(Books)
  PROVE  (IF IncomeStatements(n) = 0 THEN -1 ELSE IncomeStatements(n)) \in -1..Len(Books)
<1> DEFINE income == {i \in 1..n : Books[i].kind = "income_statement"}
<1>1. n \in Nat /\ n <= Len(Books)
  BY BooksAreCounted
<1>2. IsFiniteSet(1..n) /\ Cardinality(1..n) = n
  BY <1>1, FS_Interval
<1>3. Cardinality(income) \in Nat /\ Cardinality(income) <= n
  BY <1>2, FS_Subset, FS_CardinalityType
<1>4. IncomeStatements(n) = Cardinality(income)
  BY DEF IncomeStatements
<1> HIDE DEF income
<1> QED
  BY <1>1, <1>3, <1>4, BooksAreCounted

\* Reads, answers and the inspector store nothing but the report they ask for.
LEMMA PageKeeps ==
  ASSUME RatioInv, ListLoads \/ TrendLoads \/ AnswerGrid \/ AnswerTrace \/ CloseTrace
  PROVE  RatioInv'
<1>1. UNCHANGED <<ledgerOf, ratioCache, gridSent, gridPeriod>>
  BY DEF ListLoads, TrendLoads, AnswerGrid, AnswerTrace, CloseTrace
<1>2. ReportsStored'
  BY <1>1, StoringKeeps
<1>3. GridShape'
  <2>1. CASE ListLoads
    <3>1. listSeen' \in 0..Len(Books)
      BY <2>1 DEF ListLoads, RatioInv, ReportsStored, LedgerVersions
    <3>2. \A c \in gridCalls' : c.op = "trend" => c.seen \in 0..Len(Books)
      BY <2>1, <3>1 DEF ListLoads, RatioInv, GridShape
    <3> QED
      BY <2>1, <3>1, <3>2, BooksAreCounted DEF ListLoads, RatioInv, GridShape
  <2>2. CASE TrendLoads
    <3>1. PICK c \in gridCalls : c.op = "trend" /\ gridCalls' = gridCalls \ {c}
            /\ trend' = IF IncomeStatements(c.seen) = 0 THEN -1 ELSE IncomeStatements(c.seen)
      BY <2>2 DEF TrendLoads
    <3>2. trend' \in -1..Len(Books)
      BY <3>1, TrendIsCounted DEF RatioInv, GridShape
    <3> QED
      BY <2>2, <3>1, <3>2 DEF TrendLoads, RatioInv, GridShape
  <2>3. CASE AnswerGrid \/ AnswerTrace \/ CloseTrace
    <3>1. NoneOrOneOf(grid)' /\ NoneOrOneOf(traced)'
      BY <2>3 DEF AnswerGrid, AnswerTrace, CloseTrace, RatioInv, GridShape, NoneOrOneOf
    <3>2. gridBusy' \in BOOLEAN /\ gridError' \in BOOLEAN /\ gridCalls' \subseteq gridCalls
          /\ UNCHANGED <<gridSent, listSeen, trend, gridPeriod>>
      BY <2>3 DEF AnswerGrid, AnswerTrace, CloseTrace, RatioInv, GridShape
    <3> QED
      BY <3>1, <3>2 DEF RatioInv, GridShape, NoneOrOneOf
  <2> QED
    BY <2>1, <2>2, <2>3
<1> QED
  BY <1>2, <1>3 DEF RatioInv

LEMMA TracingKeeps == RatioInv /\ OpenTrace => RatioInv'
<1> SUFFICES ASSUME RatioInv, OpenTrace PROVE RatioInv'
  OBVIOUS
<1>1. ReportsStored'
  BY StoringKeeps DEF OpenTrace, AfterGet
<1>2. /\ gridSent' \in 0..MaxGridCalls
      /\ \A c \in gridCalls' : c.op = "trend" => c \in gridCalls
      /\ UNCHANGED <<gridPeriod, grid, traced, gridBusy, gridError, listSeen, trend>>
  BY RatioPagesAssumption DEF OpenTrace, RatioInv, GridShape
<1>3. GridShape'
  BY <1>2 DEF RatioInv, GridShape, NoneOrOneOf
<1> QED
  BY <1>1, <1>3 DEF RatioInv

LEMMA RatioNext == RatioInv /\ [RatioPagesNext]_ratioVars => RatioInv'
<1> SUFFICES ASSUME RatioInv, [RatioPagesNext]_ratioVars PROVE RatioInv'
  OBVIOUS
<1>1. CASE DefaultPeriod
  <2>1. PICK p : gridPeriod' = <<p>> /\ SendGrid("load", p, AfterGet(p))
    BY <1>1 DEF DefaultPeriod
  <2> QED
    BY <1>1, <2>1, CallKeeps DEF DefaultPeriod
<1>2. CASE PickPeriod
  <2>1. PICK p : gridPeriod' = <<p>> /\ SendGrid("load", p, AfterGet(p))
    BY <1>2 DEF PickPeriod
  <2> QED
    BY <1>2, <2>1, CallKeeps DEF PickPeriod
<1>3. CASE Recompute
  BY <1>3, CallKeeps DEF Recompute
<1>4. CASE UNCHANGED ratioVars
  BY <1>4 DEF ratioVars, RatioInv, ReportsStored, GridShape, NoneOrOneOf, StatementsOf
<1> QED
  BY <1>1, <1>2, <1>3, <1>4, ConfirmingKeeps, RecordingKeeps, PageKeeps, TracingKeeps
  DEF RatioPagesNext

\* The inductive invariant of the ratio grid holds in every state.
THEOREM RatioInvariant == RatioPagesSpec => []RatioInv
BY RatioStarts, RatioNext, PTL DEF RatioPagesSpec

LEMMA StoredIsWhole == RatioInv => StoredHasItsPeriod
  BY DEF RatioInv, ReportsStored, StoredHasItsPeriod

\* A stored report has every confirmed statement of its period: a later
\* confirmation always replaces it (confirm/route.ts:64).
THEOREM ReportsAreComplete == RatioPagesSpec => []StoredHasItsPeriod
  BY StoredIsWhole, RatioInvariant, PTL

LEMMA RatiosTyped == RatioInv => RatioPagesTypeOK
<1>1. \A s : NoneOrOneOf(s) => Len(s) <= 1
  <2>1. Len(<<>>) <= 1 /\ \A v : Len(<<v>>) <= 1
    OBVIOUS
  <2> QED
    BY <2>1, Zenon DEF NoneOrOneOf
<1> QED
  BY <1>1 DEF RatioInv, ReportsStored, GridShape, LedgerVersions, RatioPagesTypeOK

-----------------------------------------------------------------------------
(* The pages together                                                      *)

\* A step of the pages is one of a part's, or leaves the part as it is.
LEMMA PartsSteps ==
  ASSUME [PagesNext]_pagesVars
  PROVE  /\ [SignInNext]_signInVars /\ [LedgerPageNext]_ledgerPageVars
         /\ [CategoryPagesNext]_categoryPagesVars /\ [MembersPageNext]_membersVars
         /\ [ReportPagesNext]_reportVars /\ [StatementPageNext]_statementPageVars
         /\ [RatioPagesNext]_ratioVars /\ [OrgWorkspaceNext]_orgVars
         /\ [OverviewNext]_overviewVars /\ [PickerNext]_pickerVars
<1>1. CASE UNCHANGED pagesVars
  BY <1>1 DEF pagesVars
<1>2. CASE PagesNext
  BY <1>2 DEF PagesNext, Rest
<1> QED
  BY <1>1, <1>2

LEMMA PartsStart ==
  ASSUME PagesInit
  PROVE  /\ SignInInit /\ LedgerPageInit /\ CategoryPagesInit /\ MembersPageInit
         /\ ReportPagesInit /\ StatementPageInit /\ RatioPagesInit /\ OrgWorkspaceInit
         /\ OverviewInit /\ PickerInit
  BY DEF PagesInit

\* Everything a page keeps has its shape, whatever is refused, lost or overlaps.
PagesTyped ==
  /\ SignInInv /\ LedgerTyped /\ TabInv /\ MembersTyped /\ ReportsTyped
  /\ StatementsInv /\ RatioInv /\ OrgInv /\ OverviewInv /\ PickerInv /\ FurnitureInv

LEMMA PagesTypedNext == PagesTyped /\ [PagesNext]_pagesVars => PagesTyped'
<1> SUFFICES ASSUME PagesTyped, [PagesNext]_pagesVars PROVE PagesTyped'
  OBVIOUS
<1>1. SignInInv' /\ TabInv'
  BY PartsSteps, SignInSteps, TabNext DEF PagesTyped
<1>2. LedgerTyped'
  BY PartsSteps, LedgerRestTyped, RowsKeep DEF PagesTyped, LedgerTyped, EndsTrueToo
<1>3. MembersTyped' /\ ReportsTyped'
  BY PartsSteps, MembersStep, ReportsStep DEF PagesTyped
<1>4. StatementsInv' /\ RatioInv'
  BY PartsSteps, StatementsNext, RatioNext DEF PagesTyped, StatementsKept
<1>5. OrgInv' /\ OverviewInv' /\ PickerInv'
  BY PartsSteps, OrgInductive, OverviewStep, PickerStep DEF PagesTyped
<1>6. FurnitureInv'
  BY FurnitureNext DEF PagesTyped
<1> QED
  BY <1>1, <1>2, <1>3, <1>4, <1>5, <1>6 DEF PagesTyped

LEMMA PagesTypedSays == PagesTyped => PagesTypeOK
<1> SUFFICES ASSUME PagesTyped PROVE PagesTypeOK
  OBVIOUS
<1>1. SignInTypeOK
  BY SignInTyped DEF PagesTyped
<1>2. LedgerPageTypeOK /\ CategoryPagesTypeOK /\ MembersPageTypeOK /\ ReportPagesTypeOK
  BY LedgerTypeOK, CategoriesTyped, MembersTypeOK, ReportsTypeOK DEF PagesTyped
<1>3. StatementPageTypeOK /\ RatioPagesTypeOK /\ OrgWorkspaceTypeOK
  BY StatementsTyped, RatiosTyped, OrgSays DEF PagesTyped
<1>4. OverviewTypeOK /\ PickerTypeOK
  BY PickerTyped DEF PagesTyped, OverviewInv
<1>5. ShellChromeTypeOK /\ ChartsTypeOK /\ FloatingLayersTypeOK
  BY PicturesSay, FloatingSays DEF PagesTyped, FurnitureInv, ChromeInv
<1>6. ThemeTypeOK /\ TableToolsTypeOK /\ SavedViewsTypeOK
  BY DEF PagesTyped, FurnitureInv, ThemeInv, ToolsInv, ViewsInv
<1> QED
  BY <1>1, <1>2, <1>3, <1>4, <1>5, <1>6 DEF PagesTypeOK

\* The state of every page, and of the server behind it, keeps its shape, for
\* any values of the constants.
THEOREM PagesStayTyped == PagesSpec => []PagesTypeOK
<1>1. PagesInit => PagesTyped
  BY PartsStart, SignInStart, LedgerStarts, TabStarts, MembersStart, ReportsStart,
     StatementsStart, RatioStarts, OrgStart, OverviewStart, PickerStart, FurnitureStart
     DEF PagesTyped, LedgerInv
<1> QED
  BY <1>1, PagesTypedNext, PagesTypedSays, PTL DEF PagesSpec

\* PagesShowTheRecords, for any rows, categories, members and organizations and
\* any order of calls and answers: once no answer is on its way, what a page
\* shows is what the server has, provided that no answer is lost, that the
\* members page is used after its list has landed and that reports are not
\* asked for while a list is read.
THEOREM PagesShowWhatIsKept ==
  ASSUME "lost" \notin LedgerFaults, EarlyClicks = FALSE,
         ReportOverlap = FALSE, "lost" \notin ReportFaults
  PROVE  PagesSpec => []PagesShowTheRecords
<1> DEFINE Inv == LedgerInv /\ TabInv /\ RosterInv /\ ReportsInv
<1>1. PagesInit => Inv
  BY PartsStart, LedgerStarts, TabStarts, RosterStarts, HistoryStarts
<1>2. Inv /\ [PagesNext]_pagesVars => Inv'
  <2> SUFFICES ASSUME Inv, [PagesNext]_pagesVars PROVE Inv'
    OBVIOUS
  <2>1. LedgerInv'
    BY PartsSteps, LedgerRestTyped, RowsKeep DEF LedgerInv, LedgerTyped, EndsTrueToo
  <2>2. TabInv' /\ RosterInv' /\ ReportsInv'
    BY PartsSteps, TabNext, RosterNext, HistoryNext
  <2> QED
    BY <2>1, <2>2
<1>3. Inv => PagesShowTheRecords
  <2> SUFFICES ASSUME Inv PROVE PagesShowTheRecords
    OBVIOUS
  <2>1. ShownRowsAreTrue
    BY NothingInFlight DEF LedgerInv, ShownRowsAreTrue, IsTrue
  <2>2. TabShowsItsRegistry
    BY TabSays
  <2>3. RosterIsTrue
    BY RosterSays
  <2>4. HistoryIsWhole
    BY DEF ReportsInv, HistoryEnds, HistoryIsWhole
  <2> QED
    BY <2>1, <2>2, <2>3, <2>4 DEF PagesShowTheRecords
<1> QED
  BY <1>1, <1>2, <1>3, PTL DEF PagesSpec

\* FiguresAreAccountedFor, for any statements, keys, amounts, books and slices:
\* a confirmed total that is off is warned of, a stored report has every
\* statement of its period, and a donut's slices add up to its total.
THEOREM FiguresAreKeptAccount == PagesSpec => []FiguresAreAccountedFor
<1> DEFINE Inv == StatementsInv /\ WarnInv /\ RatioInv /\ FurnitureInv
<1>1. PagesInit => Inv
  BY PartsStart, StatementsStart, WarnStart, RatioStarts, FurnitureStart
<1>2. Inv /\ [PagesNext]_pagesVars => Inv'
  BY PartsSteps, StatementsNext, WarnNext, RatioNext, FurnitureNext DEF StatementsKept
<1>3. Inv => FiguresAreAccountedFor
  BY RightIsWarned, StoredIsWhole, PicturesSay, DonutSays
     DEF FurnitureInv, FiguresAreAccountedFor
<1> QED
  BY <1>1, <1>2, <1>3, PTL DEF PagesSpec
=============================================================================
