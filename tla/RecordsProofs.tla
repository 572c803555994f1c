--------------------------- MODULE RecordsProofs ----------------------------
(***************************************************************************)
(* Proofs about the pages that keep a copy of the server's records: the    *)
(* transactions, the categories, the members and the reports.              *)
(***************************************************************************)
EXTENDS ShellProofs

-----------------------------------------------------------------------------
(* Parts of lists                                                          *)

LEMMA FiniteHasAGreatest ==
  ASSUME NEW K, K \subseteq Nat, IsFiniteSet(K), K # {}
  PROVE  \E k \in K : \A j \in K : j <= k
<1> DEFINE n == Cardinality(K)
<1>1. n \in Nat /\ ExistsBijection(1..n, K) /\ n # 0
  BY FS_CardinalityType, FS_EmptySet
<1>2. PICK f \in Bijection(1..n, K) : TRUE
  BY <1>1 DEF ExistsBijection
<1>3. f \in [1..n -> K] /\ \A j \in K : \E i \in 1..n : f[i] = j
  BY <1>2 DEF Bijection, Injection, Surjection
<1> HIDE DEF n
<1>4. f \in Seq(Int) /\ Len(f) = n /\ DOMAIN f = 1..n /\ f # <<>>
  <2>5. K \subseteq Int
    OBVIOUS
  <2>4. \A i \in 1..n : f[i] \in Int
    BY <1>3, <2>5
  <2>1. f \in [1..n -> Int]
    BY <1>3, <2>4
  <2>2. f \in Seq(Int) /\ Len(f) = n
    BY <1>1, <2>1
  <2>3. DOMAIN f = 1..n /\ f # <<>>
    BY <1>1, <2>2
  <2> QED BY <2>2, <2>3
<1>5. PICK i \in DOMAIN f : \A j \in DOMAIN f : f[j] <= f[i]
  BY <1>4, SomeIsGreatest
<1> QED BY <1>3, <1>4, <1>5

\* The n-th of some places has n of them up to it.
LEMMA SomeIsNth ==
  ASSUME NEW K, K \subseteq Nat, IsFiniteSet(K), NEW n \in 1..Cardinality(K)
  PROVE  \E i \in K : Cardinality({j \in K : j <= i}) = n
<1> DEFINE Upto(i) == {j \in K : j <= i}
           T == {i \in K : Cardinality(Upto(i)) >= n}
<1>1. \A i : IsFiniteSet(Upto(i)) /\ Cardinality(Upto(i)) \in Nat
  BY FS_Subset, FS_CardinalityType
<1>2. Cardinality(K) \in Nat /\ n \in Nat /\ n >= 1 /\ n <= Cardinality(K)
  BY FS_CardinalityType
<1>3. K # {}
  BY <1>2, FS_EmptySet
<1>4. PICK k \in K : \A j \in K : j <= k
  BY <1>3, FiniteHasAGreatest
<1>5. Upto(k) = K
  BY <1>4
<1>6. k \in T
  BY <1>2, <1>5
<1>7. T \subseteq Nat /\ T # {}
  BY <1>6
<1>8. PICK i \in T : \A j \in T : i <= j
  BY <1>7, NatsHaveALeast
<1> DEFINE before == {j \in K : j < i}
<1>9. i \in K /\ i \in Nat /\ Cardinality(Upto(i)) >= n
  BY <1>8
<1>10. Upto(i) = before \cup {i} /\ i \notin before /\ IsFiniteSet(before) /\ Cardinality(before) \in Nat
  <2>1. \A j \in K : j <= i <=> (j < i \/ j = i)
    BY <1>9
  <2>3. Upto(i) = before \cup {i}
    BY <1>9, <2>1
  <2>2. IsFiniteSet(before) /\ Cardinality(before) \in Nat
    BY FS_Subset, FS_CardinalityType
  <2>4. i \notin before
    BY <1>9
  <2> QED BY <2>2, <2>3, <2>4
<1>11. Cardinality(Upto(i)) = Cardinality(before) + 1
  BY <1>10, FS_AddElement
<1>12. Cardinality(before) < n
  <2>1. CASE before = {}
    BY <1>2, <2>1, FS_EmptySet
  <2>2. CASE before # {}
    <3>1. PICK l \in before : \A j \in before : j <= l
      BY <1>10, <2>2, FiniteHasAGreatest
    <3>5. l \in K /\ l < i /\ \A j \in K : j \in Nat
      BY <3>1
    <3>6. \A j \in K : j <= l <=> j < i
      BY <1>9, <3>1, <3>5
    <3>2. Upto(l) = before
      BY <3>6
    <3>3. l \notin T
      BY <1>8, <1>9, <3>1
    <3>4. ~ (Cardinality(before) >= n)
      BY <3>1, <3>2, <3>3
    <3> QED BY <1>2, <1>10, <3>4
  <2> QED BY <2>1, <2>2
<1>13. Cardinality(Upto(i)) = n
  <2> HIDE DEF Upto, T, before
  <2> QED BY <1>2, <1>9, <1>10, <1>11, <1>12
<1> QED BY <1>9, <1>13

\* Finitely many numbers can be put in order, and an order of them has each.
LEMMA InOrder ==
  ASSUME NEW K, K \subseteq Nat, IsFiniteSet(K)
  PROVE  LET nth == [n \in 1..Cardinality(K) |-> CHOOSE i \in K : CountUpTo(K, i) = n]
         IN /\ nth \in [1..Cardinality(K) -> K]
            /\ \A m, n \in 1..Cardinality(K) : m < n => nth[m] < nth[n]
            /\ \A n \in 1..Cardinality(K) : CountUpTo(K, nth[n]) = n
<1> DEFINE Upto(i) == {j \in K : j <= i}
           nth == [n \in 1..Cardinality(K) |-> CHOOSE i \in K : CountUpTo(K, i) = n]
<1>1. \A i : IsFiniteSet(Upto(i)) /\ Cardinality(Upto(i)) \in Nat /\ CountUpTo(K, i) = Cardinality(Upto(i))
  BY FS_Subset, FS_CardinalityType DEF CountUpTo
<1>2. ASSUME NEW n \in 1..Cardinality(K) PROVE nth[n] \in K /\ CountUpTo(K, nth[n]) = n
  <2>1. \E i \in K : CountUpTo(K, i) = n
    BY SomeIsNth DEF CountUpTo
  <2>2. nth[n] = CHOOSE i \in K : CountUpTo(K, i) = n
    OBVIOUS
  <2> QED BY <2>1, <2>2, Zenon
<1>3. ASSUME NEW m \in 1..Cardinality(K), NEW n \in 1..Cardinality(K), m < n, ~ (nth[m] < nth[n])
      PROVE  FALSE
  <2>1. PICK a \in K, b \in K : a = nth[m] /\ b = nth[n]
    BY <1>2
  <2>2. CountUpTo(K, a) = m /\ CountUpTo(K, b) = n /\ ~ (a < b)
    BY <1>2, <1>3, <2>1
  <2>3. a \in Nat /\ b \in Nat /\ \A j \in K : j \in Nat
    BY <2>1
  <2>4. b <= a
    BY <2>2, <2>3
  <2>9. \A j \in K : j <= b => j <= a
    BY <2>3, <2>4
  <2>5. Upto(b) \subseteq Upto(a)
    BY <2>9
  <2>6. Cardinality(Upto(b)) <= Cardinality(Upto(a))
    BY <1>1, <2>5, FS_Subset
  <2> HIDE DEF Upto, nth
  <2>7. Cardinality(Upto(b)) = n /\ Cardinality(Upto(a)) = m
    BY <1>1, <2>2
  <2>8. m \in Nat /\ n \in Nat
    BY <1>1, <2>7
  <2> QED BY <1>3, <2>6, <2>7, <2>8
<1>4. nth \in [1..Cardinality(K) -> K]
  BY <1>2
<1> QED BY <1>2, <1>3, <1>4

LEMMA OrderHasEach ==
  ASSUME NEW K, K \subseteq Nat, IsFiniteSet(K), NEW s \in [1..Cardinality(K) -> K],
         \A m, n \in 1..Cardinality(K) : m < n => s[m] < s[n]
  PROVE  \A i \in K : \E n \in 1..Cardinality(K) : s[n] = i
<1> DEFINE D == 1..Cardinality(K)
<1>1. Cardinality(K) \in Nat
  BY FS_CardinalityType
<1>2. \A m, n \in D : s[m] = s[n] => m = n
  <2>3. s \in [D -> K] /\ \A m, n \in D : m < n => s[m] < s[n]
    OBVIOUS
  <2>4. \A m \in D : m \in Nat
    BY <1>1
  <2> HIDE DEF D
  <2>5. \A m \in D : s[m] \in Nat
    BY <2>3
  <2> QED BY <2>3, <2>4, <2>5
<1>6. s \in [D -> K]
  OBVIOUS
<1>3. s \in Injection(D, K)
  <2> HIDE DEF D
  <2> QED BY <1>2, <1>6 DEF Injection, IsInjective
<1>4. IsFiniteSet(D) /\ Cardinality(D) = Cardinality(K)
  BY <1>1, FS_Interval
<1>5. s \in Surjection(D, K)
  BY <1>3, <1>4, FS_Injection
<1> QED BY <1>5 DEF Surjection

\* A part of a list has the list's elements at the places, in their order.
LEMMA PartOfAList ==
  ASSUME NEW S, NEW whole \in Seq(S), NEW K \in SUBSET DOMAIN whole
  PROVE  /\ AtPlaces(whole, K) \in Seq(S) /\ Len(AtPlaces(whole, K)) = Cardinality(K)
         /\ IsFiniteSet(K) /\ Cardinality(K) \in Nat
         /\ \E nth \in [1..Cardinality(K) -> K] :
              /\ \A m, n \in 1..Cardinality(K) : m < n => nth[m] < nth[n]
              /\ \A i \in K : \E n \in 1..Cardinality(K) : nth[n] = i
              /\ \A n \in 1..Cardinality(K) : AtPlaces(whole, K)[n] = whole[nth[n]]
<1>1. DOMAIN whole = 1..Len(whole) /\ Len(whole) \in Nat
  OBVIOUS
<1>2. K \subseteq Nat /\ IsFiniteSet(K) /\ Cardinality(K) \in Nat
  <2>1. IsFiniteSet(1..Len(whole))
    BY <1>1, FS_Interval
  <2>3. IsFiniteSet(K)
    BY <1>1, <2>1, FS_Subset
  <2> QED BY <1>1, <2>3, FS_CardinalityType
<1> DEFINE nth == [n \in 1..Cardinality(K) |-> CHOOSE i \in K : CountUpTo(K, i) = n]
<1>3. nth \in [1..Cardinality(K) -> K] /\ \A m, n \in 1..Cardinality(K) : m < n => nth[m] < nth[n]
  BY <1>2, InOrder
<1>4. AtPlaces(whole, K) = [n \in 1..Cardinality(K) |-> whole[nth[n]]]
  BY DEF AtPlaces
<1> HIDE DEF nth
<1>5. \A i \in K : \E n \in 1..Cardinality(K) : nth[n] = i
  BY <1>2, <1>3, OrderHasEach
<1>6. \A n \in 1..Cardinality(K) : whole[nth[n]] \in S
  <2>1. \A i \in K : whole[i] \in S
    BY <1>1
  <2> QED BY <1>3, <2>1
<1>7. AtPlaces(whole, K) \in Seq(S) /\ Len(AtPlaces(whole, K)) = Cardinality(K)
  BY <1>2, <1>4, <1>6
<1>8. \A n \in 1..Cardinality(K) : AtPlaces(whole, K)[n] = whole[nth[n]]
  BY <1>4
<1> QED BY <1>2, <1>3, <1>5, <1>7, <1>8

\* Of some answers, those that navigate are among them.
LEMMA NavigatingAreSome ==
  ASSUME NEW S, NEW batch \in Seq(S)
  PROVE  Navigating(batch) \in Seq(S)
BY PartOfAList DEF Navigating

-----------------------------------------------------------------------------
(* The category registry                                                   *)

NamesOfCats == CatNames \cup {"seed", "", "closed"}
CatRecord == [name : NamesOfCats, type : CatTypes, archived : BOOLEAN, ai : BOOLEAN]
CatRow == [id : Cats, cat : CatRecord]

CatAnswer(c) ==
  /\ c.ok \in BOOLEAN /\ c.id \in Cats \cup {0}
  /\ c.op \in {"list", "create", "update", "remove", "merge", "leave"}
  /\ c.op = "list" => c.answer \subseteq CatRow
  /\ c.op \in {"create", "update"} => c.answer \in CatRow

\* What the tab shows after each of the answers on their way; after the last it
\* is what the registry has for it.
TabReplays(list, queue, end) ==
  \E trace : /\ trace[0] = list /\ trace[Len(queue)] = end
             /\ \A n \in 1..Len(queue) : trace[n] = ListAfter(trace[n - 1], queue[n])

RegistryShape ==
  /\ Registered \subseteq Cats /\ registry \in [Registered -> CatRecord]
  /\ catList \subseteq CatRow
  /\ \E S : catCalls \in Seq(S) /\ \A c \in S : CatAnswer(c)

DialogShape ==
  /\ categoryTab \in {"active", "archive"} /\ editorBusy \in BOOLEAN /\ mergeBusy \in BOOLEAN
  /\ mergeSource \in Cats \cup {0} /\ mergeTarget \in Cats \cup {0} /\ deleting \in Cats \cup {0}
  /\ editor \in [id : Cats \cup {0}, name : NamesOfCats, type : CatTypes]
  /\ editor # NoDraft => categoryTab = "active"

TabInv == RegistryShape /\ DialogShape /\ TabReplays(catList, catCalls, CategoryList(categoryTab))

LEMMA InTab ==
  ASSUME NEW t, NEW r
  PROVE  r \in CategoryList(t) <=>
           \E i \in Registered : r = [id |-> i, cat |-> registry[i]]
                                 /\ registry[i].archived = (t = "archive")
BY DEF CategoryList

LEMMA ListedRows ==
  ASSUME NEW t, RegistryShape
  PROVE  CategoryList(t) \subseteq CatRow
BY InTab DEF RegistryShape, CatRow

\* A call that changes the registry as its answer changes the tab keeps them together.
LEMMA OneMoreAnswer ==
  ASSUME NEW list, NEW queue, NEW S, queue \in Seq(S), NEW c, NEW before, NEW after,
         TabReplays(list, queue, before), after = ListAfter(before, c)
  PROVE  TabReplays(list, Append(queue, c), after)
<1>1. PICK trace : /\ trace[0] = list /\ trace[Len(queue)] = before
                   /\ \A n \in 1..Len(queue) : trace[n] = ListAfter(trace[n - 1], queue[n])
  BY DEF TabReplays
<1> DEFINE len == Len(queue)
           longer == [n \in 0..(len + 1) |-> IF n = len + 1 THEN after ELSE trace[n]]
           q == Append(queue, c)
<1>2. len \in Nat /\ Len(q) = len + 1 /\ q[len + 1] = c /\ \A n \in 1..len : q[n] = queue[n]
  BY AppendProperties
<1>3. longer[0] = list /\ longer[Len(q)] = after /\ longer[len] = before
  BY <1>1, <1>2
<1>4. ASSUME NEW n \in 1..Len(q) PROVE longer[n] = ListAfter(longer[n - 1], q[n])
  <2>1. CASE n = len + 1
    <3>1. n - 1 = len /\ longer[n] = after
      BY <1>2, <2>1
    <3> QED BY <1>2, <1>3, <2>1, <3>1
  <2>2. CASE n # len + 1
    <3>1. n \in 1..len /\ n - 1 \in 0..len
      BY <1>2, <2>2
    <3>2. longer[n] = trace[n] /\ longer[n - 1] = trace[n - 1] /\ q[n] = queue[n]
      BY <1>2, <3>1
    <3> QED BY <1>1, <3>1, <3>2
  <2> QED BY <2>1, <2>2
<1> QED
  BY <1>3, <1>4 DEF TabReplays

LEMMA OneAnswerLess ==
  ASSUME NEW list, NEW queue, NEW S, queue \in Seq(S), queue # <<>>, NEW end,
         TabReplays(list, queue, end)
  PROVE  TabReplays(ListAfter(list, Head(queue)), Tail(queue), end)
<1>1. PICK trace : /\ trace[0] = list /\ trace[Len(queue)] = end
                   /\ \A n \in 1..Len(queue) : trace[n] = ListAfter(trace[n - 1], queue[n])
  BY DEF TabReplays
<1> DEFINE len == Len(queue)
           rest == Tail(queue)
           shorter == [n \in 0..len - 1 |-> trace[n + 1]]
<1>2. /\ len \in Nat \ {0} /\ Len(rest) = len - 1 /\ Head(queue) = queue[1]
      /\ \A n \in 1..Len(rest) : rest[n] = queue[n + 1]
  BY HeadTailProperties, EmptySeq
<1>3. shorter[Len(rest)] = end
  BY <1>1, <1>2
<1>4. shorter[0] = ListAfter(list, Head(queue))
  <2>1. shorter[0] = trace[1] /\ 1 \in 1..len /\ 1 - 1 = 0
    BY <1>2
  <2>2. trace[1] = ListAfter(trace[0], queue[1])
    BY <1>1, <2>1
  <2> QED BY <1>1, <1>2, <2>1, <2>2
<1>5. ASSUME NEW n \in 1..Len(rest) PROVE shorter[n] = ListAfter(shorter[n - 1], rest[n])
  <2>1. n + 1 \in 1..len /\ n - 1 \in 0..len - 1 /\ n \in 0..len - 1 /\ (n - 1) + 1 = n
        /\ (n + 1) - 1 = n
    BY <1>2
  <2>2. shorter[n] = trace[n + 1] /\ shorter[n - 1] = trace[n] /\ rest[n] = queue[n + 1]
    BY <1>2, <2>1
  <2>3. trace[n + 1] = ListAfter(trace[(n + 1) - 1], queue[n + 1])
    BY <1>1, <2>1
  <2> QED BY <2>1, <2>2, <2>3
<1> QED
  BY <1>3, <1>4, <1>5 DEF TabReplays

\* What each change of the registry does to a tab.
LEMMA InTabNext ==
  ASSUME NEW t, NEW r
  PROVE  r \in CategoryList(t)' <=>
           \E i \in DOMAIN registry' : r = [id |-> i, cat |-> registry'[i]]
                                       /\ registry'[i].archived = (t = "archive")
BY DEF CategoryList, Registered

LEMMA TabWithout ==
  ASSUME NEW t, NEW i, registry' = RegistryWithout(i)
  PROVE  CategoryList(t)' = {r \in CategoryList(t) : r.id # i}
<1>1. DOMAIN registry' = Registered \ {i} /\ \A j \in Registered \ {i} : registry'[j] = registry[j]
  BY DEF RegistryWithout
<1>2. ASSUME NEW r PROVE r \in CategoryList(t)' <=> r \in CategoryList(t) /\ r.id # i
  BY <1>1, InTab, InTabNext
<1> QED BY <1>2

LEMMA TabWithNew ==
  ASSUME NEW i, i \notin Registered, NEW saved, saved.archived = FALSE,
         registry' = [j \in Registered \cup {i} |-> IF j = i THEN saved ELSE registry[j]]
  PROVE  CategoryList("active")' = CategoryList("active") \cup {[id |-> i, cat |-> saved]}
<1>1. /\ DOMAIN registry' = Registered \cup {i} /\ registry'[i] = saved
      /\ \A j \in Registered : registry'[j] = registry[j]
  OBVIOUS
<1>2. saved.archived = ("active" = "archive")
  OBVIOUS
<1>3. ASSUME NEW r
      PROVE  r \in CategoryList("active")' <=> r \in CategoryList("active") \/ r = [id |-> i, cat |-> saved]
  <2>1. r \in CategoryList("active")' <=>
          \E j \in Registered \cup {i} : r = [id |-> j, cat |-> registry'[j]]
                                        /\ registry'[j].archived = ("active" = "archive")
    BY <1>1, InTabNext
  <2>2. r \in CategoryList("active") <=>
          \E j \in Registered : r = [id |-> j, cat |-> registry'[j]]
                               /\ registry'[j].archived = ("active" = "archive")
    BY <1>1, InTab
  <2> QED BY <1>1, <1>2, <2>1, <2>2, Zenon
<1> QED BY <1>3

LEMMA TabWithChanged ==
  ASSUME NEW t, NEW i \in Registered, NEW saved, saved.archived = registry[i].archived,
         registry' = [j \in Registered \cup {i} |-> IF j = i THEN saved ELSE registry[j]]
  PROVE  CategoryList(t)' =
           {IF r.id = i THEN [id |-> i, cat |-> saved] ELSE r : r \in CategoryList(t)}
<1> DEFINE new == [id |-> i, cat |-> saved]
           old == [id |-> i, cat |-> registry[i]]
<1>1. /\ DOMAIN registry' = Registered /\ registry'[i] = saved
      /\ \A j \in Registered : j # i => registry'[j] = registry[j]
  OBVIOUS
<1>2. ASSUME NEW r \in CategoryList(t)'
      PROVE  \E s \in CategoryList(t) : r = IF s.id = i THEN new ELSE s
  <2>1. PICK j \in Registered : r = [id |-> j, cat |-> registry'[j]]
                                /\ registry'[j].archived = (t = "archive")
    BY <1>1, InTabNext
  <2>2. CASE j = i
    <3>1. old \in CategoryList(t) /\ old.id = i /\ r = new
      BY <1>1, <2>1, <2>2, InTab
    <3> QED BY <3>1
  <2>3. CASE j # i
    <3>1. r \in CategoryList(t) /\ r.id # i
      BY <1>1, <2>1, <2>3, InTab
    <3> QED BY <3>1
  <2> QED BY <2>2, <2>3
<1>3. ASSUME NEW s \in CategoryList(t)
      PROVE  (IF s.id = i THEN new ELSE s) \in CategoryList(t)'
  <2>1. PICK j \in Registered : s = [id |-> j, cat |-> registry[j]]
                                /\ registry[j].archived = (t = "archive")
    BY InTab
  <2>2. CASE j = i
    <3>1. s.id = i /\ saved.archived = (t = "archive")
      BY <2>1, <2>2
    <3> QED BY <1>1, <3>1, InTabNext
  <2>3. CASE j # i
    <3>1. s.id # i /\ s = [id |-> j, cat |-> registry'[j]]
      BY <1>1, <2>1, <2>3
    <3> QED BY <1>1, <2>1, <2>3, <3>1, InTabNext
  <2> QED BY <2>2, <2>3
<1> QED BY <1>2, <1>3

LEMMA TabLeft ==
  ASSUME NEW t, NEW i \in Registered, RegistryShape,
         registry' = [registry EXCEPT ![i].archived = (t # "archive")]
  PROVE  CategoryList(t)' = {r \in CategoryList(t) : r.id # i}
<1>1. DOMAIN registry' = Registered /\ \A j \in Registered : j # i => registry'[j] = registry[j]
  BY DEF Registered
<1>2. registry'[i].archived = (t # "archive")
  <2>1. registry'[i] = [registry[i] EXCEPT !.archived = (t # "archive")]
    BY DEF Registered
  <2>2. registry[i] \in CatRecord
    BY DEF RegistryShape
  <2> QED BY <2>1, <2>2 DEF CatRecord
<1>3. ~ (registry'[i].archived = (t = "archive"))
  BY <1>2
<1>4. ASSUME NEW r PROVE r \in CategoryList(t)' <=> r \in CategoryList(t) /\ r.id # i
  BY <1>1, <1>3, InTab, InTabNext
<1> QED BY <1>4

LEMMA ListAfterIs ==
  ASSUME NEW list, NEW c
  PROVE  /\ ~ c.ok => ListAfter(list, c) = list
         /\ c.ok /\ c.op = "list" => ListAfter(list, c) = c.answer
         /\ c.ok /\ c.op = "create" => ListAfter(list, c) = list \cup {c.answer}
         /\ c.ok /\ c.op = "update" =>
              ListAfter(list, c) = {IF r.id = c.id THEN c.answer ELSE r : r \in list}
         /\ c.ok /\ c.op \in {"remove", "merge", "leave"} =>
              ListAfter(list, c) = {r \in list : r.id # c.id}
BY DEF ListAfter

\* A call that passes its checks takes effect, unless it is refused.
LEMMA FatesAre ==
  ASSUME NEW valid \in BOOLEAN, NEW ok \in CatFates(valid)
  PROVE  ok \in BOOLEAN /\ (ok => valid)
BY DEF CatFates

\* A call that is sent keeps the invariant if its answer does to the tab what
\* the call did to the registry.
LEMMA SendingKeeps ==
  ASSUME TabInv, NEW op, NEW ok, NEW id, NEW answer, SendCat(op, ok, id, answer),
         CatAnswer(CatCall(op, ok, id, answer)), UNCHANGED <<categoryTab, catList>>,
         DOMAIN registry' \subseteq Cats, registry' \in [DOMAIN registry' -> CatRecord],
         CategoryList(categoryTab)' =
           ListAfter(CategoryList(categoryTab), CatCall(op, ok, id, answer)),
         DialogShape'
  PROVE  TabInv'
<1> DEFINE c == CatCall(op, ok, id, answer)
<1>1. catCalls' = Append(catCalls, c)
  BY DEF SendCat
<1>2. PICK S : catCalls \in Seq(S) /\ \A x \in S : CatAnswer(x)
  BY DEF TabInv, RegistryShape
<1>3. CatAnswer(c)
  OBVIOUS
<1> HIDE DEF c
<1>4. catCalls' \in Seq(S \cup {c}) /\ \A x \in S \cup {c} : CatAnswer(x)
  <2>1. catCalls \in Seq(S \cup {c}) /\ c \in S \cup {c}
    BY <1>2
  <2> QED BY <1>1, <1>2, <1>3, <2>1, AppendProperties
<1>5. RegistryShape'
  BY <1>4 DEF TabInv, RegistryShape, Registered
<1>6. TabReplays(catList, Append(catCalls, c), CategoryList(categoryTab)')
  <2>1. TabReplays(catList, catCalls, CategoryList(categoryTab))
    BY DEF TabInv
  <2>2. CategoryList(categoryTab)' = ListAfter(CategoryList(categoryTab), c)
    BY DEF c
  <2> QED BY <1>2, <2>1, <2>2, OneMoreAnswer
<1>7. TabReplays(catList, catCalls, CategoryList(categoryTab))'
  BY <1>1, <1>6 DEF TabReplays
<1> QED BY <1>5, <1>7 DEF TabInv

\* The catalogue is left alone by whatever does not call.
LEMMA TabUntouched ==
  ASSUME TabInv, UNCHANGED <<registry, categoryTab, catList, catCalls>>, DialogShape'
  PROVE  TabInv'
<1>1. RegistryShape'
  BY DEF TabInv, RegistryShape, Registered
<1>2. CategoryList(categoryTab)' = CategoryList(categoryTab)
  BY DEF CategoryList, Registered
<1>3. TabReplays(catList, catCalls, CategoryList(categoryTab))'
  BY <1>2 DEF TabInv, TabReplays
<1> QED BY <1>1, <1>3 DEF TabInv

LEMMA SavingKeeps == TabInv /\ SaveCategory => TabInv'
<1> SUFFICES ASSUME TabInv, SaveCategory PROVE TabInv'
  OBVIOUS
<1> DEFINE new == editor.id = 0
           valid == IF new THEN ~ NameTaken(editor.name, editor.type) ELSE editor.id \in Registered
           saved(id) == IF new THEN [name |-> editor.name, type |-> editor.type,
                                     archived |-> FALSE, ai |-> FALSE]
                        ELSE [Current(id) EXCEPT !.name = editor.name, !.ai = FALSE]
           op == IF new THEN "create" ELSE "update"
<1>1. /\ categoryTab = "active" /\ RegistryShape /\ editor.id \in Cats \cup {0}
      /\ editor.name \in NamesOfCats /\ editor.type \in CatTypes
  BY DEF SaveCategory, TabInv, DialogShape
<1>2. PICK ok \in CatFates(valid), id \in IF new THEN Cats \ Registered ELSE {editor.id} :
        /\ registry' = IF ok THEN [i \in Registered \cup {id} |->
                                     IF i = id THEN saved(id) ELSE registry[i]]
                       ELSE registry
        /\ SendCat(op, ok, id, [id |-> id, cat |-> saved(id)])
  BY DEF SaveCategory
<1>3. ok \in BOOLEAN /\ (ok => valid)
  <2>1. valid \in BOOLEAN
    <3>1. CASE new
      BY <3>1, Zenon DEF NameTaken
    <3>2. CASE ~ new
      BY <3>2
    <3> QED BY <3>1, <3>2
  <2> HIDE DEF valid
  <2> QED BY <1>2, <2>1, FatesAre
<1>4. id \in Cats /\ (new => id \notin Registered) /\ (~ new => id = editor.id)
  BY <1>1, <1>2
<1>5. saved(id) \in CatRecord
  <2>1. CASE new
    BY <1>1, <2>1 DEF CatRecord
  <2>2. CASE ~ new
    <3>1. Current(id) \in CatRecord
      BY <1>1 DEF Current, RegistryShape, CatRecord, NamesOfCats, CatTypes
    <3>2. \A n \in NamesOfCats : [Current(id) EXCEPT !.name = n, !.ai = FALSE] \in CatRecord
      BY <3>1 DEF CatRecord
    <3> QED BY <1>1, <2>2, <3>2
  <2> QED BY <2>1, <2>2
<1> DEFINE answer == [id |-> id, cat |-> saved(id)]
           c == CatCall(op, ok, id, answer)
<1>6. answer \in CatRow
  BY <1>4, <1>5 DEF CatRow
<1>7. CatAnswer(c)
  BY <1>3, <1>4, <1>6 DEF CatAnswer, CatCall
<1>8. DOMAIN registry' \subseteq Cats /\ registry' \in [DOMAIN registry' -> CatRecord]
  <2>1. CASE ok
    BY <1>1, <1>2, <1>4, <1>5, <2>1 DEF RegistryShape
  <2>2. CASE ~ ok
    BY <1>1, <1>2, <2>2 DEF RegistryShape, Registered
  <2> QED BY <1>3, <2>1, <2>2
<1>9. DialogShape' /\ UNCHANGED <<categoryTab, catList>>
  BY DEF SaveCategory, TabInv, DialogShape
<1>10. c.ok = ok /\ c.op = op /\ c.id = id /\ c.answer = answer
  BY DEF CatCall
<1>11. CategoryList("active")' = ListAfter(CategoryList("active"), c)
  <2>1. CASE ~ ok
    <3>1. CategoryList("active")' = CategoryList("active")
      BY <1>2, <2>1 DEF CategoryList, Registered
    <3> QED BY <1>10, <2>1, <3>1, ListAfterIs
  <2>2. CASE ok /\ new
    <3>1. saved(id).archived = FALSE
      BY <2>2
    <3>2. registry' = [j \in Registered \cup {id} |-> IF j = id THEN saved(id) ELSE registry[j]]
      BY <1>2, <2>2
    <3>3. CategoryList("active")' = CategoryList("active") \cup {answer}
      BY <1>4, <2>2, <3>1, <3>2, TabWithNew
    <3>4. c.ok /\ c.op = "create" /\ c.answer = answer
      BY <1>10, <2>2
    <3> HIDE DEF c, answer
    <3> QED BY <3>3, <3>4, ListAfterIs
  <2>3. CASE ok /\ ~ new
    <3>1. id \in Registered /\ registry[id] \in CatRecord
      BY <1>1, <1>3, <1>4, <2>3 DEF RegistryShape
    <3>2. saved(id).archived = registry[id].archived
      BY <2>3, <3>1 DEF Current, CatRecord
    <3>3. registry' = [j \in Registered \cup {id} |-> IF j = id THEN saved(id) ELSE registry[j]]
      BY <1>2, <2>3
    <3>4. CategoryList("active")' =
            {IF r.id = id THEN answer ELSE r : r \in CategoryList("active")}
      <4>1. PICK s : s = saved(id)
        OBVIOUS
      <4>2. answer = [id |-> id, cat |-> s]
        BY <4>1
      <4> HIDE DEF saved, answer
      <4>3. CategoryList("active")' =
              {IF r.id = id THEN [id |-> id, cat |-> s] ELSE r : r \in CategoryList("active")}
        BY <3>1, <3>2, <3>3, <4>1, TabWithChanged
      <4> QED BY <4>2, <4>3
    <3>5. c.ok /\ c.op = "update" /\ c.answer = answer /\ c.id = id
      BY <1>10, <2>3
    <3> HIDE DEF c, answer
    <3>6. ListAfter(CategoryList("active"), c) =
            {IF r.id = c.id THEN c.answer ELSE r : r \in CategoryList("active")}
      BY <3>5, ListAfterIs
    <3> QED BY <3>4, <3>5, <3>6
  <2> QED BY <1>3, <2>1, <2>2, <2>3
<1> QED
  BY <1>1, <1>2, <1>7, <1>8, <1>9, <1>11, SendingKeeps

\* A category that leaves the tab, or the registry.
LEMMA LeavingKeeps ==
  ASSUME TabInv, NEW op \in {"remove", "merge", "leave"}, NEW ok \in BOOLEAN, NEW i \in Cats,
         NEW answer, SendCat(op, ok, i, answer), UNCHANGED <<categoryTab, catList>>, DialogShape',
         ok => /\ i \in Registered
               /\ \/ registry' = RegistryWithout(i)
                  \/ registry' = [registry EXCEPT ![i].archived = (categoryTab # "archive")],
         ~ ok => UNCHANGED registry
  PROVE  TabInv'
<1> DEFINE c == CatCall(op, ok, i, answer)
<1>1. RegistryShape
  BY DEF TabInv
<1>2. CatAnswer(c) /\ c.ok = ok /\ c.op = op /\ c.id = i
  BY DEF CatAnswer, CatCall
<1>3. DOMAIN registry' \subseteq Cats /\ registry' \in [DOMAIN registry' -> CatRecord]
  <2>1. CASE ~ ok
    BY <1>1, <2>1 DEF RegistryShape, Registered
  <2>2. CASE ok /\ registry' = RegistryWithout(i)
    BY <1>1, <2>2 DEF RegistryShape, RegistryWithout
  <2>3. CASE ok /\ registry' = [registry EXCEPT ![i].archived = (categoryTab # "archive")]
    <3>1. [registry[i] EXCEPT !.archived = (categoryTab # "archive")] \in CatRecord
      BY <1>1, <2>3 DEF RegistryShape, CatRecord
    <3> QED BY <1>1, <2>3, <3>1 DEF RegistryShape, Registered
  <2> QED BY <2>1, <2>2, <2>3
<1>4. CategoryList(categoryTab)' = ListAfter(CategoryList(categoryTab), c)
  <2>1. CASE ~ ok
    <3>1. CategoryList(categoryTab)' = CategoryList(categoryTab)
      BY <2>1 DEF CategoryList, Registered
    <3> QED BY <1>2, <2>1, <3>1, ListAfterIs
  <2>2. CASE ok
    <3>1. PICK t : t = categoryTab
      OBVIOUS
    <3>2. i \in Registered
      BY <2>2
    <3>3. CategoryList(t)' = {r \in CategoryList(t) : r.id # i}
      <4>1. CASE registry' = RegistryWithout(i)
        BY <4>1, TabWithout
      <4>2. CASE registry' = [registry EXCEPT ![i].archived = (t # "archive")]
        BY <1>1, <3>2, <4>2, TabLeft
      <4> QED BY <2>2, <3>1, <4>1, <4>2
    <3>4. CategoryList(categoryTab)' = CategoryList(t)'
      BY <3>1 DEF CategoryList
    <3>5. c.ok /\ c.op \in {"remove", "merge", "leave"} /\ c.id = i
      BY <1>2, <2>2
    <3> HIDE DEF c
    <3> QED BY <3>1, <3>3, <3>4, <3>5, ListAfterIs
  <2> QED BY <2>1, <2>2
<1> QED
  BY <1>2, <1>3, <1>4, SendingKeeps

LEMMA SwitchingKeeps ==
  ASSUME TabInv, NEW t \in {"active", "archive"}, SwitchTab(t)
  PROVE  TabInv'
<1> DEFINE c == CatCall("list", TRUE, 0, CategoryList(t))
<1>1. /\ categoryTab' = t /\ catList' = {} /\ catCalls' = <<c>> /\ UNCHANGED registry
      /\ editor' = NoDraft
  BY DEF SwitchTab, DialogsStill, NoDialog
<1>2. CatAnswer(c)
  <2>1. CategoryList(t) \subseteq CatRow
    BY ListedRows DEF TabInv
  <2> QED BY <2>1 DEF CatAnswer, CatCall
<1>3. c.ok /\ c.op = "list" /\ c.answer = CategoryList(t)
  BY DEF CatCall
<1> HIDE DEF c
<1>4. RegistryShape'
  <2>1. <<c>> \in Seq({c})
    OBVIOUS
  <2> QED BY <1>1, <1>2, <2>1 DEF TabInv, RegistryShape, Registered
<1>5. CategoryList(categoryTab)' = CategoryList(t)
  BY <1>1 DEF CategoryList, Registered
<1>6. TabReplays({}, <<c>>, CategoryList(t))
  <2> DEFINE trace == [n \in 0..1 |-> IF n = 0 THEN {} ELSE CategoryList(t)]
  <2>1. trace[0] = {} /\ Len(<<c>>) = 1 /\ trace[1] = CategoryList(t)
    OBVIOUS
  <2>2. ASSUME NEW n \in 1..Len(<<c>>) PROVE trace[n] = ListAfter(trace[n - 1], <<c>>[n])
    <3>1. n = 1 /\ n - 1 = 0 /\ <<c>>[n] = c
      OBVIOUS
    <3> HIDE DEF trace
    <3> QED BY <1>3, <2>1, <3>1, ListAfterIs
  <2> HIDE DEF trace
  <2> QED BY <2>1, <2>2 DEF TabReplays
<1>7. TabReplays(catList, catCalls, CategoryList(categoryTab))'
  BY <1>1, <1>5, <1>6 DEF TabReplays
<1>8. DialogShape'
  BY <1>1 DEF SwitchTab, DialogsStill, TabInv, DialogShape
<1> QED
  BY <1>4, <1>7, <1>8 DEF TabInv

LEMMA AnsweringKeeps == TabInv /\ AnswerCat => TabInv'
<1> SUFFICES ASSUME TabInv, AnswerCat PROVE TabInv'
  OBVIOUS
<1> DEFINE c == Head(catCalls)
<1>1. PICK S : catCalls \in Seq(S) /\ \A x \in S : CatAnswer(x)
  BY DEF TabInv, RegistryShape
<1>2. /\ catCalls # <<>> /\ catCalls' = Tail(catCalls) /\ catList' = ListAfter(catList, c)
      /\ UNCHANGED <<registry, categoryTab, deleting>>
  BY DEF AnswerCat
<1>3. c \in S /\ Tail(catCalls) \in Seq(S)
  BY <1>1, <1>2, HeadTailProperties
<1>4. CatAnswer(c)
  BY <1>1, <1>3
<1>5. /\ mergeSource' \in Cats \cup {0} /\ mergeTarget' \in Cats \cup {0}
      /\ editorBusy' \in BOOLEAN /\ mergeBusy' \in BOOLEAN
      /\ editor' \in {NoDraft, editor}
  <2>1. /\ mergeSource' \in {c.id, 0, mergeSource} /\ mergeTarget' \in {0, mergeTarget}
        /\ editor' \in {NoDraft, editor}
    BY DEF AnswerCat
  <2>2. editorBusy' \in BOOLEAN /\ mergeBusy' \in BOOLEAN
    BY Zenon DEF AnswerCat
  <2> QED BY <1>4, <2>1, <2>2 DEF CatAnswer, TabInv, DialogShape
<1>6. DialogShape'
  <2>1. NoDraft \in [id : Cats \cup {0}, name : NamesOfCats, type : CatTypes]
    BY DEF NoDraft, NamesOfCats, CatTypes
  <2> QED BY <1>2, <1>5, <2>1 DEF TabInv, DialogShape
<1>7. catList' \subseteq CatRow
  <2>1. catList \subseteq CatRow
    BY DEF TabInv, RegistryShape
  <2>2. \/ ~ c.ok
        \/ c.ok /\ c.op = "list"
        \/ c.ok /\ c.op = "create"
        \/ c.ok /\ c.op = "update"
        \/ c.ok /\ c.op \in {"remove", "merge", "leave"}
    BY <1>4 DEF CatAnswer
  <2>3. c.op = "list" => c.answer \subseteq CatRow
    BY <1>4 DEF CatAnswer
  <2>4. c.op \in {"create", "update"} => c.answer \in CatRow
    BY <1>4 DEF CatAnswer
  <2> HIDE DEF c
  <2> QED BY <1>2, <2>1, <2>2, <2>3, <2>4, ListAfterIs
<1>8. RegistryShape'
  BY <1>1, <1>2, <1>3, <1>7 DEF TabInv, RegistryShape, Registered
<1>9. CategoryList(categoryTab)' = CategoryList(categoryTab)
  BY <1>2 DEF CategoryList, Registered
<1>10. TabReplays(ListAfter(catList, c), Tail(catCalls), CategoryList(categoryTab))
  BY <1>1, <1>2, OneAnswerLess DEF TabInv
<1>11. TabReplays(catList, catCalls, CategoryList(categoryTab))'
  BY <1>2, <1>9, <1>10 DEF TabReplays
<1> QED
  BY <1>6, <1>8, <1>11 DEF TabInv

LEMMA TabStarts == CategoryPagesInit => TabInv
<1> SUFFICES ASSUME CategoryPagesInit PROVE TabInv
  OBVIOUS
<1> DEFINE c == CatCall("list", TRUE, 0, CategoryList("active"))
<1>1. Registered = SeedCats /\ registry \in [SeedCats -> CatRecord] /\ SeedCats \subseteq Cats
  BY CategoryPagesAssumption
     DEF CategoryPagesInit, SeedCat, CatRecord, CatTypes, NamesOfCats, Registered
<1>2. categoryTab = "active" /\ catList = {} /\ catCalls = <<c>>
  BY DEF CategoryPagesInit
<1>3. CatAnswer(c)
  <2>1. CategoryList("active") \subseteq CatRow
    BY <1>1, InTab DEF CatRow
  <2> QED BY <2>1 DEF CatAnswer, CatCall
<1>4. c.ok /\ c.op = "list" /\ c.answer = CategoryList("active")
  BY DEF CatCall
<1> HIDE DEF c
<1>5. RegistryShape
  <2>1. <<c>> \in Seq({c})
    OBVIOUS
  <2>2. \E S : catCalls \in Seq(S) /\ \A x \in S : CatAnswer(x)
    <3>1. \A x \in {c} : CatAnswer(x)
      BY <1>3
    <3>2. catCalls \in Seq({c})
      BY <1>2, <2>1
    <3> QED BY <3>1, <3>2
  <2>3. Registered \subseteq Cats /\ registry \in [Registered -> CatRecord] /\ catList \subseteq CatRow
    BY <1>1, <1>2
  <2> QED BY <2>2, <2>3 DEF RegistryShape
<1>6. TabReplays({}, <<c>>, CategoryList("active"))
  <2> DEFINE trace == [n \in 0..1 |-> IF n = 0 THEN {} ELSE CategoryList("active")]
  <2>1. trace[0] = {} /\ Len(<<c>>) = 1 /\ trace[1] = CategoryList("active")
    OBVIOUS
  <2>2. ASSUME NEW n \in 1..Len(<<c>>) PROVE trace[n] = ListAfter(trace[n - 1], <<c>>[n])
    <3>1. n = 1 /\ n - 1 = 0 /\ <<c>>[n] = c
      OBVIOUS
    <3> HIDE DEF trace
    <3> QED BY <1>4, <2>1, <3>1, ListAfterIs
  <2> HIDE DEF trace
  <2> QED BY <2>1, <2>2 DEF TabReplays
<1>7. DialogShape
  <2>1. NoDraft \in [id : Cats \cup {0}, name : NamesOfCats, type : CatTypes]
        /\ [NoDraft EXCEPT !.name = ""] \in [id : Cats \cup {0}, name : NamesOfCats, type : CatTypes]
    BY DEF NoDraft, NamesOfCats, CatTypes
  <2> QED BY <2>1 DEF CategoryPagesInit, DialogShape
<1> QED
  BY <1>2, <1>5, <1>6, <1>7 DEF TabInv

\* What the user does to the dialogs.
LEMMA DialogsKeep ==
  ASSUME TabInv,
         \/ OpenEditor \/ EditEditor \/ CancelDelete \/ CloseMerge
         \/ \E i \in Cats : AskDelete(i) \/ OpenMerge(i) \/ PickTarget(i)
  PROVE  TabInv'
<1>1. UNCHANGED <<registry, categoryTab, catList, catCalls, editorBusy, mergeBusy>>
  BY DEF OpenEditor, EditEditor, CancelDelete, CloseMerge, AskDelete, OpenMerge, PickTarget
<1>2. /\ deleting' \in Cats \cup {0} /\ mergeSource' \in Cats \cup {0}
      /\ mergeTarget' \in Cats \cup {0}
  BY DEF OpenEditor, EditEditor, CancelDelete, CloseMerge, AskDelete, OpenMerge, PickTarget,
         TabInv, DialogShape
<1> DEFINE Drafts == [id : Cats \cup {0}, name : NamesOfCats, type : CatTypes]
<1>3. editor' \in Drafts /\ (editor' # NoDraft => categoryTab = "active")
  <2>1. NoDraft \in Drafts /\ [NoDraft EXCEPT !.name = ""] \in Drafts
    BY DEF NoDraft, NamesOfCats, CatTypes
  <2>2. editor \in Drafts /\ (editor # NoDraft => categoryTab = "active")
    BY DEF TabInv, DialogShape
  <2>3. CASE OpenEditor
    <3>1. \A r \in catList : [id |-> r.id, name |-> r.cat.name, type |-> r.cat.type] \in Drafts
      BY DEF TabInv, RegistryShape, CatRow, CatRecord
    <3> QED BY <2>1, <2>3, <3>1 DEF OpenEditor
  <2>4. CASE EditEditor
    <3>1. \A n \in CatNames : [editor EXCEPT !.name = n] \in Drafts
      BY <2>2 DEF NamesOfCats
    <3>2. \A t \in CatTypes : [editor EXCEPT !.type = t] \in Drafts
      BY <2>2
    <3> QED BY <2>1, <2>2, <2>4, <3>1, <3>2 DEF EditEditor
  <2>5. CASE UNCHANGED editor
    BY <2>2, <2>5
  <2> QED BY <2>3, <2>4, <2>5 DEF CancelDelete, CloseMerge, AskDelete, OpenMerge, PickTarget
<1>4. DialogShape'
  BY <1>1, <1>2, <1>3 DEF TabInv, DialogShape
<1> QED
  BY <1>1, <1>4, TabUntouched

LEMMA RemovingKeeps == TabInv /\ (DeleteCategory \/ RunMerge \/ \E i \in Cats : SetArchived(i)) => TabInv'
<1> SUFFICES ASSUME TabInv, DeleteCategory \/ RunMerge \/ \E i \in Cats : SetArchived(i)
             PROVE  TabInv'
  OBVIOUS
<1>1. DialogShape /\ UNCHANGED <<categoryTab, catList>>
  BY DEF TabInv, DeleteCategory, RunMerge, SetArchived, DialogsStill
<1>2. CASE DeleteCategory
  <2> DEFINE valid == deleting \in Registered /\ ~ InUse(deleting)
             answer == IF deleting \in Registered /\ InUse(deleting) THEN {"category_in_use"} ELSE {}
  <2>1. PICK ok \in CatFates(valid) :
          /\ registry' = IF ok THEN RegistryWithout(deleting) ELSE registry
          /\ SendCat("remove", ok, deleting, answer)
    BY <1>2 DEF DeleteCategory
  <2>2. ok \in BOOLEAN /\ (ok => deleting \in Registered)
    <3>1. valid \in BOOLEAN
      OBVIOUS
    <3> QED BY <2>1, <3>1, FatesAre
  <2>3. deleting \in Cats
    BY <1>1, <1>2 DEF DeleteCategory, DialogShape
  <2>4. DialogShape'
    BY <1>1, <1>2 DEF DeleteCategory, DialogShape
  <2> HIDE DEF answer
  <2> QED BY <1>1, <2>1, <2>2, <2>3, <2>4, LeavingKeeps
<1>3. CASE RunMerge
  <2> DEFINE valid == Mergeable(mergeSource, mergeTarget)
  <2>1. PICK ok \in CatFates(valid) :
          /\ registry' = IF ok THEN RegistryWithout(mergeSource) ELSE registry
          /\ SendCat("merge", ok, mergeSource, {})
    BY <1>3 DEF RunMerge
  <2>2. ok \in BOOLEAN /\ (ok => mergeSource \in Registered)
    <3>1. valid \in BOOLEAN /\ (valid => mergeSource \in Registered)
      BY Zenon DEF Mergeable
    <3> HIDE DEF valid
    <3> QED BY <2>1, <3>1, FatesAre
  <2>3. mergeSource \in Cats
    BY <1>1, <1>3 DEF RunMerge, DialogShape
  <2>4. DialogShape'
    BY <1>1, <1>3 DEF RunMerge, DialogShape
  <2> QED BY <1>1, <2>1, <2>2, <2>3, <2>4, LeavingKeeps
<1>4. ASSUME NEW i \in Cats, SetArchived(i) PROVE TabInv'
  <2>1. PICK ok \in CatFates(i \in Registered) :
          /\ registry' = IF ok THEN [registry EXCEPT ![i].archived = (categoryTab = "active")]
                         ELSE registry
          /\ SendCat("leave", ok, i, {})
    BY <1>4 DEF SetArchived
  <2>2. ok \in BOOLEAN /\ (ok => i \in Registered)
    <3>1. (i \in Registered) \in BOOLEAN
      OBVIOUS
    <3> QED BY <2>1, <3>1, FatesAre
  <2>3. (categoryTab = "active") = (categoryTab # "archive")
    BY <1>1 DEF DialogShape
  <2>4. DialogShape'
    BY <1>1, <1>4 DEF SetArchived, DialogsStill, DialogShape
  <2>5. registry' = IF ok THEN [registry EXCEPT ![i].archived = (categoryTab # "archive")]
                    ELSE registry
    BY <2>1, <2>3, Zenon
  <2> QED BY <1>1, <2>1, <2>2, <2>4, <2>5, LeavingKeeps
<1> QED
  BY <1>2, <1>3, <1>4

LEMMA TabNext == TabInv /\ [CategoryPagesNext]_categoryPagesVars => TabInv'
<1> SUFFICES ASSUME TabInv, [CategoryPagesNext]_categoryPagesVars PROVE TabInv'
  OBVIOUS
<1>1. CASE UNCHANGED categoryPagesVars
  <2>1. DialogShape'
    BY <1>1 DEF categoryPagesVars, TabInv, DialogShape
  <2> QED BY <1>1, <2>1, TabUntouched DEF categoryPagesVars
<1> QED
  BY <1>1, SwitchingKeeps, DialogsKeep, SavingKeeps, RemovingKeeps, AnsweringKeeps
  DEF CategoryPagesNext

\* The inductive invariant of the category registry holds in every state.
THEOREM TabInvariant == CategoryPagesSpec => []TabInv
BY TabStarts, TabNext, PTL DEF CategoryPagesSpec

LEMMA TabSays == TabInv => TabShowsItsRegistry
  BY DEF TabInv, TabReplays, TabShowsItsRegistry

\* Once every call is answered a tab lists what the registry has for it.
THEOREM TabIsTrue == CategoryPagesSpec => []TabShowsItsRegistry
  BY TabSays, TabInvariant, PTL

LEMMA CategoriesTyped == TabInv => CategoryPagesTypeOK
BY DEF TabInv, RegistryShape, DialogShape, CatRow, ShownCats, CategoryPagesTypeOK

-----------------------------------------------------------------------------
(* The ledger page                                                         *)

Entry == [dir : Directions, cat : Directions, flagged : BOOLEAN, amount : 1..2]
LedgerRow == [id : Rows, dir : Directions, cat : Directions, flagged : BOOLEAN, amount : 1..2]
PickedCats == Directions \cup {"none"}

LedgerAnswer(c) ==
  /\ c.ok \in BOOLEAN /\ c.id \in Rows \cup {0}
  /\ c.op \in {"list", "more", "create", "update", "remove"}
  /\ c.op \in {"list", "more"} => c.answer.rows \subseteq LedgerRow
  /\ c.op \in {"create", "update"} /\ c.ok => c.answer \in LedgerRow
  /\ c.then = "split" => c.op = "update"

\* What the page shows after each of the answers.
RowsReplay(list, queue, end) ==
  \E trace : /\ trace[0] = list /\ trace[Len(queue)] = end
             /\ \A n \in 1..Len(queue) : trace[n] = ShownAfter(trace[n - 1], queue[n])

IsTrue(r) == r.id \in DOMAIN entries /\ r = RowCopy(r.id, entries[r.id])

\* After the last answer every row is as the ledger has it.
EndsTrue(list, queue) == \E end : RowsReplay(list, queue, end) /\ \A r \in end : IsTrue(r)

LedgerShape ==
  /\ DOMAIN entries \subseteq Rows /\ entries \in [DOMAIN entries -> Entry]
  /\ shown \subseteq LedgerRow
  /\ \E S : calls \in Seq(S) /\ \A c \in S : LedgerAnswer(c)

LedgerRest ==
  /\ filters \in TxnFilters /\ selected \subseteq Rows
  /\ bulk \in [kind : {"none", "pick", "delete"}, waiting : SUBSET Rows]
  /\ bulkPick \in PickedCats /\ saving \in BOOLEAN
  /\ rowDraft \in [dir : Directions, cat : PickedCats]

LedgerTyped == LedgerShape /\ LedgerRest
LedgerInv == LedgerTyped /\ EndsTrue(shown, calls)

-----------------------------------------------------------------------------

LEMMA ShownAfterIs ==
  ASSUME NEW list, NEW c
  PROVE  /\ ~ c.ok => ShownAfter(list, c) = list
         /\ c.ok /\ c.op = "list" => ShownAfter(list, c) = c.answer.rows
         /\ c.ok /\ c.op = "more" => ShownAfter(list, c) = list \cup c.answer.rows
         /\ c.ok /\ c.op = "create" => ShownAfter(list, c) = {c.answer} \cup list
         /\ c.ok /\ c.op = "update" =>
              ShownAfter(list, c) = {IF r.id = c.id THEN c.answer ELSE r : r \in list}
         /\ c.ok /\ c.op = "remove" => ShownAfter(list, c) = {r \in list : r.id # c.id}
BY DEF ShownAfter

LEMMA ReplayOne ==
  ASSUME NEW list, NEW c
  PROVE  RowsReplay(list, <<c>>, ShownAfter(list, c))
<1> DEFINE trace == [n \in 0..1 |-> IF n = 0 THEN list ELSE ShownAfter(list, c)]
<1>1. trace[0] = list /\ Len(<<c>>) = 1 /\ trace[1] = ShownAfter(list, c)
  OBVIOUS
<1>2. ASSUME NEW n \in 1..Len(<<c>>) PROVE trace[n] = ShownAfter(trace[n - 1], <<c>>[n])
  <2>1. n = 1 /\ n - 1 = 0 /\ <<c>>[n] = c
    OBVIOUS
  <2> HIDE DEF trace
  <2> QED BY <1>1, <2>1
<1> HIDE DEF trace
<1> QED BY <1>1, <1>2 DEF RowsReplay

LEMMA ReplayNone ==
  ASSUME NEW list
  PROVE  RowsReplay(list, <<>>, list)
<1> DEFINE trace == [n \in 0..0 |-> list]
<1>1. trace[0] = list /\ Len(<<>>) = 0
  OBVIOUS
<1> HIDE DEF trace
<1> QED BY <1>1 DEF RowsReplay

LEMMA ReplayBoth ==
  ASSUME NEW list, NEW middle, NEW end, NEW S, NEW first \in Seq(S), NEW second \in Seq(S),
         RowsReplay(list, first, middle), RowsReplay(middle, second, end)
  PROVE  RowsReplay(list, first \o second, end)
<1>1. PICK f : /\ f[0] = list /\ f[Len(first)] = middle
               /\ \A n \in 1..Len(first) : f[n] = ShownAfter(f[n - 1], first[n])
  BY DEF RowsReplay
<1>2. PICK g : /\ g[0] = middle /\ g[Len(second)] = end
               /\ \A n \in 1..Len(second) : g[n] = ShownAfter(g[n - 1], second[n])
  BY DEF RowsReplay
<1> DEFINE m == Len(first)
           k == Len(second)
           q == first \o second
           trace == [n \in 0..(m + k) |-> IF n <= m THEN f[n] ELSE g[n - m]]
<1>3. /\ m \in Nat /\ k \in Nat /\ Len(q) = m + k
      /\ \A n \in 1..m + k : q[n] = IF n <= m THEN first[n] ELSE second[n - m]
  BY ConcatProperties
<1>4. \A n \in 0..m : trace[n] = f[n]
  BY <1>3
<1>5. \A n \in 0..k : trace[m + n] = g[n]
  <2>1. ASSUME NEW n \in 0..k PROVE trace[m + n] = g[n]
    <3>1. m + n \in 0..(m + k) /\ (m + n) - m = n
      BY <1>3
    <3>2. CASE n = 0
      BY <1>1, <1>2, <1>3, <3>1, <3>2
    <3>3. CASE n # 0
      BY <1>3, <3>1, <3>3
    <3> QED BY <3>2, <3>3
  <2> QED BY <2>1
<1> HIDE DEF trace, q
<1>6. trace[0] = list
  BY <1>1, <1>3, <1>4
<1>7. trace[Len(q)] = end
  BY <1>2, <1>3, <1>5
<1>8. ASSUME NEW n \in 1..Len(q) PROVE trace[n] = ShownAfter(trace[n - 1], q[n])
  <2>1. CASE n <= m
    <3>1. n \in 1..m /\ n \in 0..m /\ n - 1 \in 0..m /\ q[n] = first[n]
      BY <1>3, <2>1
    <3> QED BY <1>1, <1>4, <3>1
  <2>2. CASE ~ (n <= m)
    <3>1. PICK j \in 1..k : n = m + j
      BY <1>3, <2>2
    <3>2. j \in 0..k /\ j - 1 \in 0..k /\ n - 1 = m + (j - 1)
      BY <1>3, <3>1
    <3>3. trace[n] = g[j] /\ trace[n - 1] = g[j - 1]
      BY <1>5, <3>1, <3>2
    <3>4. n - m = j
      BY <1>3, <3>1
    <3>5. q[n] = second[j]
      BY <1>3, <2>2, <3>4
    <3> QED BY <1>2, <3>1, <3>3, <3>5
  <2> QED BY <2>1, <2>2
<1> QED BY <1>6, <1>7, <1>8 DEF RowsReplay, q

LEMMA ReplayRest ==
  ASSUME NEW list, NEW end, NEW S, NEW queue \in Seq(S), queue # <<>>, RowsReplay(list, queue, end)
  PROVE  RowsReplay(ShownAfter(list, Head(queue)), Tail(queue), end)
<1>1. PICK f : /\ f[0] = list /\ f[Len(queue)] = end
               /\ \A n \in 1..Len(queue) : f[n] = ShownAfter(f[n - 1], queue[n])
  BY DEF RowsReplay
<1> DEFINE len == Len(queue)
           rest == Tail(queue)
           shorter == [n \in 0..len - 1 |-> f[n + 1]]
<1>2. /\ len \in Nat \ {0} /\ Len(rest) = len - 1 /\ Head(queue) = queue[1]
      /\ \A n \in 1..Len(rest) : rest[n] = queue[n + 1]
  BY HeadTailProperties, EmptySeq
<1>3. shorter[Len(rest)] = end
  BY <1>1, <1>2
<1>4. shorter[0] = ShownAfter(list, Head(queue))
  <2>1. shorter[0] = f[1] /\ 1 \in 1..len /\ 1 - 1 = 0
    BY <1>2
  <2>2. f[1] = ShownAfter(f[0], queue[1])
    BY <1>1, <2>1
  <2> QED BY <1>1, <1>2, <2>1, <2>2
<1>5. ASSUME NEW n \in 1..Len(rest) PROVE shorter[n] = ShownAfter(shorter[n - 1], rest[n])
  <2>1. n + 1 \in 1..len /\ n - 1 \in 0..len - 1 /\ n \in 0..len - 1 /\ (n - 1) + 1 = n
        /\ (n + 1) - 1 = n
    BY <1>2
  <2>2. shorter[n] = f[n + 1] /\ shorter[n - 1] = f[n] /\ rest[n] = queue[n + 1]
    BY <1>2, <2>1
  <2>3. f[n + 1] = ShownAfter(f[(n + 1) - 1], queue[n + 1])
    BY <1>1, <2>1
  <2> QED BY <2>1, <2>2, <2>3
<1> QED
  BY <1>3, <1>4, <1>5 DEF RowsReplay

-----------------------------------------------------------------------------
(* One call                                                                *)

\* Calls that are sent keep the page on its way to the ledger, if their answers
\* turn what is true before them into what is true after.
LEMMA SentEndsTrue ==
  ASSUME NEW S, calls \in Seq(S), EndsTrue(shown, calls), NEW T, NEW new \in Seq(T),
         calls' = calls \o new, UNCHANGED shown,
         ASSUME NEW before, \A r \in before : IsTrue(r)
         PROVE  \E after : RowsReplay(before, new, after) /\ \A r \in after : IsTrue(r)'
  PROVE  EndsTrue(shown, calls)'
<1>1. PICK before : RowsReplay(shown, calls, before) /\ \A r \in before : IsTrue(r)
  BY DEF EndsTrue
<1>2. PICK after : RowsReplay(before, new, after) /\ \A r \in after : IsTrue(r)'
  BY <1>1
<1>3. calls \in Seq(S \cup T) /\ new \in Seq(S \cup T)
  BY SeqMonotonic
<1>4. RowsReplay(shown, calls \o new, after)
  BY <1>1, <1>2, <1>3, ReplayBoth
<1>5. RowsReplay(shown, calls, after)'
  BY <1>4 DEF RowsReplay
<1> QED BY <1>2, <1>5 DEF EndsTrue

LEMMA SentTyped ==
  ASSUME NEW T, NEW new \in Seq(T), \A c \in T : LedgerAnswer(c), calls' = calls \o new,
         \E S : calls \in Seq(S) /\ \A c \in S : LedgerAnswer(c)
  PROVE  \E S : calls' \in Seq(S) /\ \A c \in S : LedgerAnswer(c)
<1>1. PICK S : calls \in Seq(S) /\ \A c \in S : LedgerAnswer(c)
  OBVIOUS
<1>2. calls \in Seq(S \cup T) /\ new \in Seq(S \cup T)
  BY <1>1, SeqMonotonic
<1>3. calls' \in Seq(S \cup T)
  BY <1>2, ConcatProperties
<1> QED BY <1>1, <1>3

\* A write that takes effect changes one entry, as its answer says.
LEMMA WrittenIsTrue ==
  ASSUME NEW id \in Rows, NEW e, NEW op \in {"create", "update"}, NEW done \in {"ok", "refused"},
         NEW then, entries' = Written(id, e, done), op = "create" => id \notin DOMAIN entries,
         NEW before, \A r \in before : IsTrue(r)
  PROVE  \A r \in ShownAfter(before, LedgerCall(op, done, then, id, RowCopy(id, e))) : IsTrue(r)'
<1> DEFINE c == LedgerCall(op, done, then, id, RowCopy(id, e))
<1>1. c.op = op /\ c.ok = (done = "ok") /\ c.id = id /\ c.answer = RowCopy(id, e)
  BY DEF LedgerCall
<1> HIDE DEF c
<1>2. CASE done = "refused"
  <2>1. entries' = entries /\ ~ c.ok
    BY <1>1, <1>2 DEF Written
  <2>2. ShownAfter(before, c) = before
    BY <2>1, ShownAfterIs
  <2> QED BY <2>1, <2>2 DEF IsTrue, RowCopy, c
<1>3. CASE done = "ok"
  <2>1. /\ DOMAIN entries' = DOMAIN entries \cup {id} /\ entries'[id] = e /\ c.ok
        /\ \A i \in DOMAIN entries : i # id => entries'[i] = entries[i]
    BY <1>1, <1>3 DEF Written
  <2>2. RowCopy(id, e).id = id
    BY DEF RowCopy
  <2>3. IsTrue(RowCopy(id, e))'
    BY <2>1, <2>2 DEF IsTrue, RowCopy
  <2>4. ASSUME NEW r \in before, r.id # id PROVE IsTrue(r)'
    BY <2>1, <2>4 DEF IsTrue, RowCopy
  <2>5. CASE op = "create"
    <3>1. ShownAfter(before, c) = {RowCopy(id, e)} \cup before
      BY <1>1, <2>1, <2>5, ShownAfterIs
    <3>2. \A r \in before : r.id # id
      BY <2>5 DEF IsTrue
    <3> QED BY <2>3, <2>4, <3>1, <3>2 DEF c
  <2>6. CASE op = "update"
    <3>1. ShownAfter(before, c) = {IF r.id = c.id THEN c.answer ELSE r : r \in before}
      BY <1>1, <2>1, <2>6, ShownAfterIs
    <3>2. ASSUME NEW s \in ShownAfter(before, c) PROVE s = RowCopy(id, e) \/ (s \in before /\ s.id # id)
      BY <1>1, <3>1
    <3> QED BY <2>3, <2>4, <3>2 DEF c
  <2> QED BY <2>5, <2>6
<1> QED BY <1>2, <1>3

LEMMA RemovedIsTrue ==
  ASSUME NEW id, NEW done \in {"ok", "refused"}, NEW then, NEW answer,
         entries' = IF done = "refused" THEN entries ELSE EntriesWithout({id}),
         NEW before, \A r \in before : IsTrue(r)
  PROVE  \A r \in ShownAfter(before, LedgerCall("remove", done, then, id, answer)) : IsTrue(r)'
<1> DEFINE c == LedgerCall("remove", done, then, id, answer)
<1>1. c.op = "remove" /\ c.ok = (done = "ok") /\ c.id = id
  BY DEF LedgerCall
<1> HIDE DEF c
<1>2. CASE done = "refused"
  <2>1. entries' = entries /\ ~ c.ok
    BY <1>1, <1>2
  <2>2. ShownAfter(before, c) = before
    BY <2>1, ShownAfterIs
  <2> QED BY <2>1, <2>2 DEF IsTrue, RowCopy, c
<1>3. CASE done = "ok"
  <2>1. /\ DOMAIN entries' = DOMAIN entries \ {id} /\ c.ok
        /\ \A i \in DOMAIN entries \ {id} : entries'[i] = entries[i]
    BY <1>1, <1>3 DEF EntriesWithout
  <2>2. ShownAfter(before, c) = {r \in before : r.id # id}
    BY <1>1, <2>1, ShownAfterIs
  <2> QED BY <2>1, <2>2 DEF IsTrue, RowCopy, c
<1> QED BY <1>2, <1>3

LEMMA CopyTyped ==
  ASSUME NEW id \in Rows, NEW e \in Entry
  PROVE  RowCopy(id, e) \in LedgerRow
BY DEF RowCopy, Entry, LedgerRow

LEMMA PageHasCopies ==
  ASSUME NEW f, NEW cursor
  PROVE  \A r \in TxnPage(f, cursor).rows : \E id \in Matching(f) : r = RowCopy(id, entries[id])
<1> DEFINE rest == {id \in Matching(f) : id > cursor}
           page == {id \in rest : Cardinality({i \in rest : i < id}) < PageLimit}
<1>1. TxnPage(f, cursor).rows = {RowCopy(id, entries[id]) : id \in page}
  BY DEF TxnPage
<1>2. page \subseteq Matching(f)
  OBVIOUS
<1> HIDE DEF page
<1> QED BY <1>1, <1>2

LEMMA PageIsTrue ==
  ASSUME NEW f, NEW cursor
  PROVE  \A r \in TxnPage(f, cursor).rows : IsTrue(r)
<1>1. ASSUME NEW r \in TxnPage(f, cursor).rows PROVE IsTrue(r)
  <2>1. \E id \in Matching(f) : r = RowCopy(id, entries[id])
    BY PageHasCopies
  <2>2. PICK id \in Matching(f) : r = RowCopy(id, entries[id])
    BY <2>1
  <2>3. id \in DOMAIN entries /\ r.id = id
    BY <2>2 DEF Matching, RowCopy
  <2> QED BY <2>2, <2>3 DEF IsTrue
<1> QED BY <1>1

LEMMA PageIsTyped ==
  ASSUME LedgerShape, NEW f, NEW cursor
  PROVE  TxnPage(f, cursor).rows \subseteq LedgerRow
<1>1. ASSUME NEW r \in TxnPage(f, cursor).rows PROVE r \in LedgerRow
  <2>1. PICK id \in Matching(f) : r = RowCopy(id, entries[id])
    BY PageHasCopies
  <2>2. id \in Rows /\ entries[id] \in Entry
    BY <2>1 DEF Matching, LedgerShape
  <2> QED BY <2>1, <2>2 DEF RowCopy, LedgerRow, Entry
<1> QED BY <1>1

LEMMA FatesOfCalls == LedgerFates \subseteq {"ok", "refused", "lost"}
BY LedgerPageAssumption DEF LedgerFates

\* The four kinds of calls.
LEMMA ListTyped ==
  ASSUME LedgerShape, NEW f, NEW cursor, SendList(f, cursor), UNCHANGED <<entries, shown>>
  PROVE  LedgerShape'
<1>1. PICK outcome \in LedgerFates :
        calls' = calls \o <<LedgerCall(IF cursor = 0 THEN "list" ELSE "more",
                     IF TxnPage(f, cursor).ok THEN outcome ELSE "refused", "none", 0,
                     TxnPage(f, cursor))>>
  BY DEF SendList, SendCalls
<1> DEFINE c == LedgerCall(IF cursor = 0 THEN "list" ELSE "more",
                  IF TxnPage(f, cursor).ok THEN outcome ELSE "refused", "none", 0,
                  TxnPage(f, cursor))
<1>2. LedgerAnswer(c)
  BY PageIsTyped DEF LedgerAnswer, LedgerCall
<1> HIDE DEF c
<1>3. <<c>> \in Seq({c}) /\ \A x \in {c} : LedgerAnswer(x)
  BY <1>2
<1>4. calls' = calls \o <<c>>
  BY <1>1 DEF c
<1>5. \E S : calls' \in Seq(S) /\ \A x \in S : LedgerAnswer(x)
  BY <1>3, <1>4, SentTyped DEF LedgerShape
<1> QED BY <1>5 DEF LedgerShape

LEMMA ListEndsTrue ==
  ASSUME LedgerShape, EndsTrue(shown, calls), NEW f, NEW cursor, SendList(f, cursor),
         UNCHANGED <<entries, shown>>
  PROVE  EndsTrue(shown, calls)'
<1>1. PICK outcome \in LedgerFates :
        calls' = calls \o <<LedgerCall(IF cursor = 0 THEN "list" ELSE "more",
                     IF TxnPage(f, cursor).ok THEN outcome ELSE "refused", "none", 0,
                     TxnPage(f, cursor))>>
  BY DEF SendList, SendCalls
<1> DEFINE c == LedgerCall(IF cursor = 0 THEN "list" ELSE "more",
                  IF TxnPage(f, cursor).ok THEN outcome ELSE "refused", "none", 0,
                  TxnPage(f, cursor))
<1>2. c.op \in {"list", "more"} /\ \A r \in c.answer.rows : IsTrue(r)
  BY PageIsTrue DEF LedgerCall
<1>6. c.ok \in BOOLEAN
  BY DEF LedgerCall
<1> HIDE DEF c
<1>3. <<c>> \in Seq({c}) /\ calls' = calls \o <<c>>
  BY <1>1 DEF c
<1>4. ASSUME NEW before, \A r \in before : IsTrue(r)
      PROVE  \E after : RowsReplay(before, <<c>>, after) /\ \A r \in after : IsTrue(r)'
  <2>1. ShownAfter(before, c) \in {before, c.answer.rows, before \cup c.answer.rows}
    BY <1>2, <1>6, ShownAfterIs
  <2>2. \A r \in ShownAfter(before, c) : IsTrue(r)'
    BY <1>2, <1>4, <2>1 DEF IsTrue, RowCopy
  <2> QED BY <2>2, ReplayOne
<1>5. PICK S : calls \in Seq(S)
  BY DEF LedgerShape
<1> QED BY <1>3, <1>4, <1>5, SentEndsTrue

LEMMA WriteTyped ==
  ASSUME LedgerShape, NEW op \in {"create", "update"}, NEW id \in Rows, NEW e \in Entry,
         NEW then, then = "split" => op = "update", SendWrite(op, id, e, then), UNCHANGED shown
  PROVE  LedgerShape'
<1>1. PICK done : /\ entries' = Written(id, e, done)
                  /\ calls' = calls \o <<LedgerCall(op, done, then, id, RowCopy(id, e))>>
  BY DEF SendWrite, SendCalls
<1> DEFINE c == LedgerCall(op, done, then, id, RowCopy(id, e))
<1>2. LedgerAnswer(c)
  BY DEF LedgerAnswer, LedgerCall, RowCopy, Entry, LedgerRow
<1> HIDE DEF c
<1>3. <<c>> \in Seq({c}) /\ (\A x \in {c} : LedgerAnswer(x)) /\ calls' = calls \o <<c>>
  BY <1>1, <1>2 DEF c
<1>5. \E S : calls' \in Seq(S) /\ \A x \in S : LedgerAnswer(x)
  BY <1>3, SentTyped DEF LedgerShape
<1>6. DOMAIN entries' \subseteq Rows /\ entries' \in [DOMAIN entries' -> Entry]
  <2>1. CASE done = "refused"
    BY <1>1, <2>1 DEF Written, LedgerShape
  <2>2. CASE done # "refused"
    BY <1>1, <2>2 DEF Written, LedgerShape
  <2> QED BY <2>1, <2>2
<1> QED BY <1>5, <1>6 DEF LedgerShape

LEMMA WriteEndsTrue ==
  ASSUME LedgerShape, EndsTrue(shown, calls), "lost" \notin LedgerFaults,
         NEW op \in {"create", "update"}, NEW id \in Rows, NEW e,
         NEW then, op = "create" => id \notin DOMAIN entries,
         SendWrite(op, id, e, then), UNCHANGED shown
  PROVE  EndsTrue(shown, calls)'
<1>1. PICK done \in {"ok", "refused"} :
        /\ entries' = Written(id, e, done)
        /\ calls' = calls \o <<LedgerCall(op, done, then, id, RowCopy(id, e))>>
  <2>1. LedgerFates \subseteq {"ok", "refused"}
    BY LedgerPageAssumption DEF LedgerFates
  <2> QED BY <2>1 DEF SendWrite, SendCalls
<1> DEFINE c == LedgerCall(op, done, then, id, RowCopy(id, e))
<1>2. ASSUME NEW before, \A r \in before : IsTrue(r)
      PROVE  \E after : RowsReplay(before, <<c>>, after) /\ \A r \in after : IsTrue(r)'
  <2>1. \A r \in ShownAfter(before, c) : IsTrue(r)'
    BY <1>1, <1>2, WrittenIsTrue
  <2> HIDE DEF c
  <2> QED BY <2>1, ReplayOne
<1> HIDE DEF c
<1>3. <<c>> \in Seq({c}) /\ calls' = calls \o <<c>>
  BY <1>1 DEF c
<1>4. PICK S : calls \in Seq(S)
  BY DEF LedgerShape
<1> QED BY <1>2, <1>3, <1>4, SentEndsTrue

LEMMA RemoveTyped ==
  ASSUME LedgerShape, NEW id \in Rows, NEW then, then # "split", SendRemove(id, then),
         UNCHANGED shown
  PROVE  LedgerShape'
<1>1. PICK done : /\ entries' = IF done = "refused" THEN entries ELSE EntriesWithout({id})
                  /\ calls' = calls \o <<LedgerCall("remove", done, then, id, [ok |-> TRUE])>>
  BY DEF SendRemove, SendCalls
<1> DEFINE c == LedgerCall("remove", done, then, id, [ok |-> TRUE])
<1>2. LedgerAnswer(c)
  BY DEF LedgerAnswer, LedgerCall
<1> HIDE DEF c
<1>3. <<c>> \in Seq({c}) /\ (\A x \in {c} : LedgerAnswer(x)) /\ calls' = calls \o <<c>>
  BY <1>1, <1>2 DEF c
<1>5. \E S : calls' \in Seq(S) /\ \A x \in S : LedgerAnswer(x)
  BY <1>3, SentTyped DEF LedgerShape
<1>6. DOMAIN entries' \subseteq Rows /\ entries' \in [DOMAIN entries' -> Entry]
  BY <1>1 DEF EntriesWithout, LedgerShape
<1> QED BY <1>5, <1>6 DEF LedgerShape

LEMMA RemoveEndsTrue ==
  ASSUME LedgerShape, EndsTrue(shown, calls), "lost" \notin LedgerFaults,
         NEW id, NEW then, SendRemove(id, then), UNCHANGED shown
  PROVE  EndsTrue(shown, calls)'
<1>1. PICK done \in {"ok", "refused"} :
        /\ entries' = IF done = "refused" THEN entries ELSE EntriesWithout({id})
        /\ calls' = calls \o <<LedgerCall("remove", done, then, id, [ok |-> TRUE])>>
  <2>1. LedgerFates \subseteq {"ok", "refused"}
    BY LedgerPageAssumption DEF LedgerFates
  <2> QED BY <2>1 DEF SendRemove, SendCalls
<1> DEFINE c == LedgerCall("remove", done, then, id, [ok |-> TRUE])
<1>2. ASSUME NEW before, \A r \in before : IsTrue(r)
      PROVE  \E after : RowsReplay(before, <<c>>, after) /\ \A r \in after : IsTrue(r)'
  <2>1. \A r \in ShownAfter(before, c) : IsTrue(r)'
    BY <1>1, <1>2, RemovedIsTrue
  <2> HIDE DEF c
  <2> QED BY <2>1, ReplayOne
<1> HIDE DEF c
<1>3. <<c>> \in Seq({c}) /\ calls' = calls \o <<c>>
  BY <1>1 DEF c
<1>4. PICK S : calls \in Seq(S)
  BY DEF LedgerShape
<1> QED BY <1>2, <1>3, <1>4, SentEndsTrue

-----------------------------------------------------------------------------
(* A bulk                                                                  *)

BulkCall(id, done) ==
  IF bulk.kind = "delete"
  THEN LedgerCall("remove", IF id \in done THEN "ok" ELSE "refused", "bulk", id, [ok |-> TRUE])
  ELSE LedgerCall("update", IF id \in done THEN "ok" ELSE "refused", "bulk", id,
         IF id \in done THEN RowCopy(id, [entries[id] EXCEPT !.cat = bulkPick]) ELSE [ok |-> FALSE])

BulkDone(done) ==
  IF bulk.kind = "delete" THEN EntriesWithout(done)
  ELSE [i \in DOMAIN entries |->
          IF i \in done THEN [entries[i] EXCEPT !.cat = bulkPick] ELSE entries[i]]

\* A bulk sends one call for every selected row, in some order.
LEMMA BulkIs ==
  ASSUME selected \subseteq Rows, NEW failing, ApplyBulk(failing)
  PROVE  \E n \in Nat : \E turns \in [1..n -> selected] : \E done \in SUBSET selected :
           /\ done \subseteq DOMAIN entries /\ entries' = BulkDone(done)
           /\ \A i \in selected : \E k \in 1..n : turns[k] = i
           /\ calls' = calls \o [k \in 1..n |-> BulkCall(turns[k], done)]
<1> DEFINE n == Cardinality(selected)
           gone(id) == id \in failing \/ id \notin DOMAIN entries
           done == {id \in selected : ~ gone(id)}
           turns == CHOOSE s \in [1..n -> selected] : \A i, j \in DOMAIN s : i < j => s[i] < s[j]
           one(id) == IF bulk.kind = "delete"
                 THEN LedgerCall("remove", IF gone(id) THEN "refused" ELSE "ok", "bulk", id, [ok |-> TRUE])
                 ELSE LedgerCall("update", IF gone(id) THEN "refused" ELSE "ok", "bulk", id,
                           IF gone(id) THEN [ok |-> FALSE]
                           ELSE RowCopy(id, [entries[id] EXCEPT !.cat = bulkPick]))
<1>1. selected \subseteq Nat /\ IsFiniteSet(selected)
  BY LedgerPageAssumption, FS_Subset
<1>2. n \in Nat
  BY <1>1, FS_CardinalityType
<1>3. \E s \in [1..n -> selected] : \A i, j \in DOMAIN s : i < j => s[i] < s[j]
  <2> DEFINE nth == [k \in 1..Cardinality(selected) |-> CHOOSE i \in selected : CountUpTo(selected, i) = k]
  <2>1. nth \in [1..n -> selected] /\ \A i, j \in 1..n : i < j => nth[i] < nth[j]
    BY <1>1, InOrder
  <2> HIDE DEF nth, n
  <2> QED BY <2>1
<1>4. turns \in [1..n -> selected] /\ \A i, j \in DOMAIN turns : i < j => turns[i] < turns[j]
  BY <1>3, Zenon
<1> HIDE DEF turns
<1>5. DOMAIN turns = 1..n
  BY <1>4
<1>6. \A i \in selected : \E k \in 1..n : turns[k] = i
  BY <1>1, <1>4, <1>5, OrderHasEach
<1>7. /\ calls' = calls \o [k \in DOMAIN turns |-> one(turns[k])]
      /\ entries' = IF bulk.kind = "delete" THEN EntriesWithout(done)
                ELSE [i \in DOMAIN entries |->
                        IF i \in done THEN [entries[i] EXCEPT !.cat = bulkPick] ELSE entries[i]]
  BY Zenon DEF ApplyBulk, SendCalls, turns
<1>8. done \in SUBSET selected /\ done \subseteq DOMAIN entries
  OBVIOUS
<1>9. \A id \in selected : one(id) = BulkCall(id, done)
  <2>1. \A id \in selected : id \in done <=> ~ gone(id)
    OBVIOUS
  <2> HIDE DEF done, gone
  <2> QED BY <2>1 DEF BulkCall
<1> HIDE DEF one, done, n
<1>10. [k \in 1..n |-> one(turns[k])] = [k \in 1..n |-> BulkCall(turns[k], done)]
  BY <1>4, <1>9
<1>11. entries' = BulkDone(done)
  BY <1>7 DEF BulkDone
<1>12. calls' = calls \o [k \in 1..n |-> BulkCall(turns[k], done)]
  BY <1>5, <1>7, <1>10
<1> QED BY <1>2, <1>4, <1>6, <1>8, <1>11, <1>12

LEMMA BulkCallIs ==
  ASSUME NEW id, NEW done, NEW c, c = BulkCall(id, done)
  PROVE  /\ c.id = id /\ c.ok \in BOOLEAN /\ (c.ok <=> id \in done) /\ c.then = "bulk"
         /\ c.op = IF bulk.kind = "delete" THEN "remove" ELSE "update"
         /\ bulk.kind # "delete" /\ id \in done =>
              c.answer = RowCopy(id, [entries[id] EXCEPT !.cat = bulkPick])
BY DEF BulkCall, LedgerCall

LEMMA BulkTyped ==
  ASSUME LedgerTyped, NEW failing, ApplyBulk(failing)
  PROVE  LedgerShape'
<1>1. PICK n \in Nat : \E turns \in [1..n -> selected] : \E done \in SUBSET selected :
           /\ done \subseteq DOMAIN entries /\ entries' = BulkDone(done)
           /\ \A i \in selected : \E k \in 1..n : turns[k] = i
           /\ calls' = calls \o [k \in 1..n |-> BulkCall(turns[k], done)]
  BY BulkIs DEF LedgerTyped, LedgerRest
<1>2. PICK turns \in [1..n -> selected], done \in SUBSET selected :
           /\ done \subseteq DOMAIN entries /\ entries' = BulkDone(done)
           /\ calls' = calls \o [k \in 1..n |-> BulkCall(turns[k], done)]
  BY <1>1
<1>3. bulk.kind = "delete" \/ bulkPick \in Directions
  <2>1. bulk.kind \in {"pick", "delete"} /\ shown \subseteq LedgerRow
    BY DEF ApplyBulk, LedgerTyped, LedgerShape, LedgerRest
  <2>2. CASE bulk.kind = "pick"
    <3>1. SelectedDirections = {bulkPick}
      BY <2>2 DEF ApplyBulk, BulkCategoryApplies
    <3>2. SelectedDirections \subseteq Directions
      BY <2>1 DEF SelectedDirections, LedgerRow
    <3> QED BY <3>1, <3>2
  <2> QED BY <2>1, <2>2
<1>4. ASSUME NEW id \in done, bulk.kind # "delete"
      PROVE  [entries[id] EXCEPT !.cat = bulkPick] \in Entry
  <2>1. entries[id] \in Entry
    BY <1>2 DEF LedgerTyped, LedgerShape
  <2> QED BY <1>3, <1>4, <2>1 DEF Entry
<1>5. ASSUME NEW id \in selected PROVE LedgerAnswer(BulkCall(id, done))
  <2>1. id \in Rows
    BY DEF LedgerTyped, LedgerRest
  <2>2. ASSUME id \in done, bulk.kind # "delete" PROVE BulkCall(id, done).answer \in LedgerRow
    <3>4. PICK c : c = BulkCall(id, done)
      OBVIOUS
    <3>1. BulkCall(id, done).answer = RowCopy(id, [entries[id] EXCEPT !.cat = bulkPick])
      BY <2>2, <3>4, BulkCallIs
    <3>2. [entries[id] EXCEPT !.cat = bulkPick] \in Entry
      BY <1>4, <2>2
    <3>3. RowCopy(id, [entries[id] EXCEPT !.cat = bulkPick]) \in LedgerRow
      BY <2>1, <3>2, CopyTyped
    <3> QED BY <3>1, <3>3
  <2>3. PICK c : c = BulkCall(id, done)
    OBVIOUS
  <2>4. /\ c.id = id /\ c.ok \in BOOLEAN /\ (c.ok <=> id \in done) /\ c.then = "bulk"
        /\ c.op = IF bulk.kind = "delete" THEN "remove" ELSE "update"
    BY <2>3 DEF BulkCall, LedgerCall
  <2>5. c.ok \in BOOLEAN /\ (c.ok => id \in done)
    BY <2>4
  <2>6. c.op = "update" /\ c.ok => c.answer \in LedgerRow
    BY <2>2, <2>3, <2>4, <2>5
  <2>7. c.op \in {"update", "remove"}
    BY <2>4
  <2>8. LedgerAnswer(c)
    BY <2>1, <2>4, <2>5, <2>6, <2>7 DEF LedgerAnswer
  <2> QED BY <2>3, <2>8
<1> DEFINE T == {BulkCall(id, done) : id \in selected}
           new == [k \in 1..n |-> BulkCall(turns[k], done)]
<1>6. new \in Seq(T) /\ \A c \in T : LedgerAnswer(c)
  BY <1>5
<1>7. \E S : calls' \in Seq(S) /\ \A c \in S : LedgerAnswer(c)
  <2> HIDE DEF T, new
  <2>1. calls' = calls \o new
    BY <1>2 DEF new
  <2> QED BY <1>6, <2>1, SentTyped DEF LedgerTyped, LedgerShape
<1>8. DOMAIN entries' \subseteq Rows /\ entries' \in [DOMAIN entries' -> Entry]
  <2>1. CASE bulk.kind = "delete"
    BY <1>2, <2>1 DEF BulkDone, EntriesWithout, LedgerTyped, LedgerShape
  <2>2. CASE bulk.kind # "delete"
    BY <1>2, <1>4, <2>2 DEF BulkDone, LedgerTyped, LedgerShape
  <2> QED BY <2>1, <2>2
<1>9. UNCHANGED shown
  BY DEF ApplyBulk, PageUnchanged
<1> QED BY <1>7, <1>8, <1>9 DEF LedgerShape, LedgerTyped

\* The rows of the page after the first k of a bulk's answers.
LEMMA BulkReplay ==
  ASSUME NEW n \in Nat, NEW turns \in [1..n -> selected], NEW done \in SUBSET selected,
         NEW before
  PROVE  LET changed(r, k) == \E i \in 1..k : turns[i] = r.id /\ r.id \in done
             after == IF bulk.kind = "delete" THEN {r \in before : ~ changed(r, n)}
                      ELSE {IF changed(r, n)
                            THEN RowCopy(r.id, [entries[r.id] EXCEPT !.cat = bulkPick]) ELSE r
                            : r \in before}
         IN RowsReplay(before, [k \in 1..n |-> BulkCall(turns[k], done)], after)
<1> DEFINE changed(r, k) == \E i \in 1..k : turns[i] = r.id /\ r.id \in done
           new == [k \in 1..n |-> BulkCall(turns[k], done)]
           moved(r) == RowCopy(r.id, [entries[r.id] EXCEPT !.cat = bulkPick])
<1>1. Len(new) = n /\ \A k \in 1..n : new[k] = BulkCall(turns[k], done)
  OBVIOUS
<1>2. \A r : ~ changed(r, 0)
  OBVIOUS
<1>3. ASSUME NEW r, NEW k \in 1..n
      PROVE  changed(r, k) <=> changed(r, k - 1) \/ (turns[k] = r.id /\ r.id \in done)
  <2>1. \A i \in Nat : i \in 1..k <=> (i \in 1..k - 1 \/ i = k)
    OBVIOUS
  <2>2. k \in 1..k
    OBVIOUS
  <2>3. 1..k - 1 \subseteq 1..k /\ 1..k \subseteq Nat
    OBVIOUS
  <2> QED BY <2>1, <2>2, <2>3, Zenon
<1> HIDE DEF changed, new
<1>4. CASE bulk.kind = "delete"
  <2> DEFINE list(k) == {r \in before : ~ changed(r, k)}
             trace == [k \in 0..n |-> list(k)]
  <2>1. list(0) = before
    BY <1>2
  <2>2. ASSUME NEW k \in 1..n PROVE list(k) = ShownAfter(list(k - 1), new[k])
    <3>4. PICK o : o = turns[k]
      OBVIOUS
    <3>5. new[k] = BulkCall(o, done)
      BY <1>1, <3>4
    <3>6. PICK c : c = new[k]
      OBVIOUS
    <3>7. c = BulkCall(o, done)
      BY <3>5, <3>6
    <3>1. c.op = "remove" /\ c.id = o /\ (c.ok <=> o \in done)
      BY <1>4, <3>7, BulkCallIs
    <3>2. CASE turns[k] \in done
      <4>3. ShownAfter(list(k - 1), c) = {r \in list(k - 1) : r.id # c.id}
        BY <3>1, <3>2, <3>4, ShownAfterIs
      <4>1. ShownAfter(list(k - 1), new[k]) = {r \in list(k - 1) : r.id # turns[k]}
        BY <3>1, <3>4, <3>6, <4>3
      <4>2. \A r : ~ changed(r, k) <=> ~ changed(r, k - 1) /\ r.id # turns[k]
        BY <1>3, <3>2
      <4> QED BY <4>1, <4>2
    <3>3. CASE turns[k] \notin done
      <4>5. ~ c.ok
        BY <3>1, <3>3, <3>4
      <4>6. PICK l : l = list(k - 1)
        OBVIOUS
      <4>7. ShownAfter(l, c) = l
        BY <4>5, ShownAfterIs
      <4>3. ShownAfter(list(k - 1), c) = list(k - 1)
        BY <4>6, <4>7, Zenon
      <4>1. ShownAfter(list(k - 1), new[k]) = list(k - 1)
        BY <3>6, <4>3
      <4>2. \A r : changed(r, k) <=> changed(r, k - 1)
        BY <1>3, <3>3
      <4> QED BY <4>1, <4>2
    <3> QED BY <3>2, <3>3
  <2>3. \A k \in 0..n : trace[k] = list(k)
    OBVIOUS
  <2> HIDE DEF trace, list
  <2>4. trace[0] = before /\ trace[Len(new)] = list(n)
    BY <1>1, <2>1, <2>3
  <2>5. ASSUME NEW k \in 1..Len(new) PROVE trace[k] = ShownAfter(trace[k - 1], new[k])
    <3>1. k \in 1..n /\ k \in 0..n /\ k - 1 \in 0..n
      BY <1>1
    <3>2. trace[k] = list(k) /\ trace[k - 1] = list(k - 1)
      BY <2>3, <3>1
    <3> QED BY <2>2, <3>1, <3>2
  <2>6. RowsReplay(before, new, list(n))
    BY <2>4, <2>5 DEF RowsReplay
  <2> QED BY <1>4, <2>6 DEF list, new, changed
<1>5. CASE bulk.kind # "delete"
  <2> DEFINE row(r, k) == IF changed(r, k) THEN moved(r) ELSE r
             list(k) == {row(r, k) : r \in before}
             trace == [k \in 0..n |-> list(k)]
  <2>1. list(0) = before
    BY <1>2
  <2>2. ASSUME NEW k \in 1..n PROVE list(k) = ShownAfter(list(k - 1), new[k])
    <3>4. PICK o : o = turns[k]
      OBVIOUS
    <3>5. new[k] = BulkCall(o, done)
      BY <1>1, <3>4
    <3>6. PICK c : c = new[k]
      OBVIOUS
    <3>7. c = BulkCall(o, done)
      BY <3>5, <3>6
    <3>1. /\ c.op = "update" /\ c.id = o /\ (c.ok <=> o \in done)
          /\ o \in done => c.answer = RowCopy(o, [entries[o] EXCEPT !.cat = bulkPick])
      BY <1>5, <3>7, BulkCallIs
    <3>2. CASE turns[k] \in done
      <4> DEFINE settled(s) == IF s.id = c.id THEN c.answer ELSE s
      <4>4. ShownAfter(list(k - 1), c) = {settled(s) : s \in list(k - 1)}
        <5>1. c.ok /\ c.op = "update"
          BY <3>1, <3>2, <3>4
        <5>2. PICK l : l = list(k - 1)
          OBVIOUS
        <5>3. ShownAfter(l, c) = {settled(s) : s \in l}
          BY <5>1 DEF ShownAfter
        <5> QED BY <5>2, <5>3, Zenon
      <4>1. ShownAfter(list(k - 1), new[k]) = {settled(s) : s \in list(k - 1)}
        BY <3>6, <4>4
      <4>2. ASSUME NEW r PROVE settled(row(r, k - 1)) = row(r, k)
        <5>1. moved(r).id = r.id
          BY DEF RowCopy
        <5>2. row(r, k - 1).id = r.id
          BY <5>1
        <5>3. r.id = c.id => changed(r, k) /\ c.answer = moved(r)
          BY <1>3, <3>1, <3>2, <3>4
        <5>4. r.id # c.id => (changed(r, k) <=> changed(r, k - 1))
          BY <1>3, <3>1, <3>4
        <5> HIDE DEF moved
        <5> QED BY <5>2, <5>3, <5>4
      <4> HIDE DEF settled, row
      <4>3. {settled(s) : s \in {row(r, k - 1) : r \in before}} = {row(r, k) : r \in before}
        BY <4>2
      <4> QED BY <4>1, <4>3
    <3>3. CASE turns[k] \notin done
      <4>5. ~ c.ok
        BY <3>1, <3>3, <3>4
      <4>6. PICK l : l = list(k - 1)
        OBVIOUS
      <4>7. ShownAfter(l, c) = l
        BY <4>5, ShownAfterIs
      <4>3. ShownAfter(list(k - 1), c) = list(k - 1)
        BY <4>6, <4>7, Zenon
      <4>1. ShownAfter(list(k - 1), new[k]) = list(k - 1)
        BY <3>6, <4>3
      <4>2. \A r : changed(r, k) <=> changed(r, k - 1)
        BY <1>3, <3>3
      <4>4. \A r : row(r, k) = row(r, k - 1)
        BY <4>2
      <4> HIDE DEF row
      <4> QED BY <4>1, <4>4
    <3> QED BY <3>2, <3>3
  <2>3. \A k \in 0..n : trace[k] = list(k)
    OBVIOUS
  <2> HIDE DEF trace, list
  <2>4. trace[0] = before /\ trace[Len(new)] = list(n)
    BY <1>1, <2>1, <2>3
  <2>5. ASSUME NEW k \in 1..Len(new) PROVE trace[k] = ShownAfter(trace[k - 1], new[k])
    <3>1. k \in 1..n /\ k \in 0..n /\ k - 1 \in 0..n
      BY <1>1
    <3>2. trace[k] = list(k) /\ trace[k - 1] = list(k - 1)
      BY <2>3, <3>1
    <3> QED BY <2>2, <3>1, <3>2
  <2>6. RowsReplay(before, new, list(n))
    BY <2>4, <2>5 DEF RowsReplay
  <2> QED BY <1>5, <2>6 DEF list, new, changed
<1> QED BY <1>4, <1>5

LEMMA BulkEndsTrue ==
  ASSUME LedgerTyped, EndsTrue(shown, calls), NEW failing, ApplyBulk(failing)
  PROVE  EndsTrue(shown, calls)'
<1>1. PICK n \in Nat : \E turns \in [1..n -> selected] : \E done \in SUBSET selected :
           /\ done \subseteq DOMAIN entries /\ entries' = BulkDone(done)
           /\ \A i \in selected : \E k \in 1..n : turns[k] = i
           /\ calls' = calls \o [k \in 1..n |-> BulkCall(turns[k], done)]
  BY BulkIs DEF LedgerTyped, LedgerRest
<1>2. PICK turns \in [1..n -> selected], done \in SUBSET selected :
           /\ done \subseteq DOMAIN entries /\ entries' = BulkDone(done)
           /\ \A i \in selected : \E k \in 1..n : turns[k] = i
           /\ calls' = calls \o [k \in 1..n |-> BulkCall(turns[k], done)]
  BY <1>1
<1> DEFINE T == {BulkCall(id, done) : id \in selected}
           new == [k \in 1..n |-> BulkCall(turns[k], done)]
           changed(r) == \E i \in 1..n : turns[i] = r.id /\ r.id \in done
           moved(r) == RowCopy(r.id, [entries[r.id] EXCEPT !.cat = bulkPick])
           rowsAfter(before) == IF bulk.kind = "delete" THEN {r \in before : ~ changed(r)}
                                ELSE {IF changed(r) THEN moved(r) ELSE r : r \in before}
<1>3. new \in Seq(T) /\ calls' = calls \o new
  BY <1>2
<1>4. \A r : changed(r) <=> r.id \in done
  BY <1>2
<1>5. ASSUME NEW before PROVE RowsReplay(before, new, rowsAfter(before))
  BY <1>2, BulkReplay
<1>6. UNCHANGED shown
  BY DEF ApplyBulk, PageUnchanged
<1>7. ASSUME NEW before, \A r \in before : IsTrue(r)
      PROVE  \A s \in rowsAfter(before) : IsTrue(s)'
  <2>1. CASE bulk.kind = "delete"
    <3>1. rowsAfter(before) = {r \in before : r.id \notin done}
      BY <1>4, <2>1
    <3>2. /\ DOMAIN entries' = DOMAIN entries \ done
          /\ \A i \in DOMAIN entries \ done : entries'[i] = entries[i]
      BY <1>2, <2>1 DEF BulkDone, EntriesWithout
    <3> QED BY <1>7, <3>1, <3>2 DEF IsTrue, RowCopy
  <2>2. CASE bulk.kind # "delete"
    <3>1. rowsAfter(before) = {IF changed(r) THEN moved(r) ELSE r : r \in before}
      BY <2>2
    <3>2. /\ DOMAIN entries' = DOMAIN entries
          /\ \A i \in DOMAIN entries : entries'[i] = IF i \in done THEN [entries[i] EXCEPT !.cat = bulkPick]
                                                     ELSE entries[i]
      BY <1>2, <2>2 DEF BulkDone
    <3>3. ASSUME NEW s \in rowsAfter(before) PROVE IsTrue(s)'
      <4>1. PICK r \in before : s = IF changed(r) THEN moved(r) ELSE r
        BY <3>1, <3>3
      <4>2. r.id \in DOMAIN entries /\ r = RowCopy(r.id, entries[r.id])
        BY <1>7 DEF IsTrue
      <4>3. CASE r.id \in done
        <5>1. s = moved(r) /\ entries'[r.id] = [entries[r.id] EXCEPT !.cat = bulkPick]
          BY <1>4, <3>2, <4>1, <4>2, <4>3
        <5>2. moved(r).id = r.id
          BY DEF RowCopy
        <5>3. s = RowCopy(r.id, entries'[r.id]) /\ s.id = r.id
          BY <5>1, <5>2
        <5> QED BY <3>2, <4>2, <5>3 DEF IsTrue, RowCopy
      <4>4. CASE r.id \notin done
        <5>1. s = r /\ entries'[r.id] = entries[r.id]
          BY <1>4, <3>2, <4>1, <4>2, <4>4
        <5> QED BY <3>2, <4>2, <5>1 DEF IsTrue, RowCopy
      <4> QED BY <4>3, <4>4
    <3> QED BY <3>3
  <2> QED BY <2>1, <2>2
<1>8. PICK S : calls \in Seq(S)
  BY DEF LedgerTyped, LedgerShape
<1> HIDE DEF T, new, rowsAfter
<1> QED BY <1>3, <1>5, <1>6, <1>7, <1>8, SentEndsTrue

-----------------------------------------------------------------------------
(* Answers                                                                 *)

LEMMA FirstAnswered ==
  ASSUME NEW S, calls \in Seq(S), calls # <<>>
  PROVE  /\ OtherCalls(1) = Tail(calls) /\ Tail(calls) \in Seq(S)
         /\ calls[1] = Head(calls) /\ calls[1] \in S
<1>1. SubSeq(calls, 1, 0) = <<>>
  OBVIOUS
<1>2. SubSeq(calls, 2, Len(calls)) = Tail(calls)
  OBVIOUS
<1>3. Tail(calls) \in Seq(S) /\ <<>> \o Tail(calls) = Tail(calls)
  OBVIOUS
<1>4. calls[1] = Head(calls) /\ calls[1] \in S
  OBVIOUS
<1>5. 1 - 1 = 0 /\ 1 + 1 = 2
  OBVIOUS
<1> QED BY <1>1, <1>2, <1>3, <1>4, <1>5 DEF OtherCalls

LEMMA ShownTyped ==
  ASSUME NEW list, list \subseteq LedgerRow, NEW c, LedgerAnswer(c)
  PROVE  ShownAfter(list, c) \subseteq LedgerRow
<1>1. CASE ~ c.ok
  BY <1>1, ShownAfterIs
<1>2. CASE c.ok
  <2>1. CASE c.op = "list"
    BY <1>2, <2>1, ShownAfterIs DEF LedgerAnswer
  <2>2. CASE c.op = "more"
    BY <1>2, <2>2, ShownAfterIs DEF LedgerAnswer
  <2>3. CASE c.op = "create"
    BY <1>2, <2>3, ShownAfterIs DEF LedgerAnswer
  <2>4. CASE c.op = "update"
    <3>1. ShownAfter(list, c) = {IF r.id = c.id THEN c.answer ELSE r : r \in list}
      BY <1>2, <2>4, ShownAfterIs
    <3>2. c.answer \in LedgerRow
      BY <1>2, <2>4 DEF LedgerAnswer
    <3> QED BY <3>1, <3>2
  <2>5. CASE c.op = "remove"
    BY <1>2, <2>5, ShownAfterIs
  <2> QED BY <2>1, <2>2, <2>3, <2>4, <2>5 DEF LedgerAnswer
<1> QED BY <1>1, <1>2

\* The second half of a split is a create of a row the ledger does not have.
LEMMA SecondHalfIs ==
  ASSUME LedgerShape, calls # <<>>, calls[1].then = "split", calls[1].ok, SecondHalf(1)
  PROVE  \E id \in Rows : \E piece \in Entry : \E outcome \in LedgerFates :
           /\ id \notin DOMAIN entries /\ entries' = Written(id, piece, outcome)
           /\ calls' = Tail(calls) \o <<LedgerCall("create", outcome, "save", id, RowCopy(id, piece))>>
<1>1. PICK S : calls \in Seq(S) /\ \A c \in S : LedgerAnswer(c)
  BY DEF LedgerShape
<1>2. calls[1].answer \in LedgerRow
  <2>1. calls[1] \in S
    BY <1>1
  <2> QED BY <1>1, <2>1 DEF LedgerAnswer
<1> DEFINE half == [dir |-> calls[1].answer.dir, cat |-> calls[1].answer.cat,
                    flagged |-> FALSE, amount |-> 1]
<1>3. half \in Entry
  BY <1>2 DEF Entry, LedgerRow
<1>4. PICK id \in Rows \ DOMAIN entries, outcome \in LedgerFates :
        /\ entries' = Written(id, half, outcome)
        /\ calls' = Append(OtherCalls(1), LedgerCall("create", outcome, "save", id, RowCopy(id, half)))
  BY DEF SecondHalf
<1> HIDE DEF half
<1>5. OtherCalls(1) = Tail(calls) /\ Tail(calls) \in Seq(S)
  BY <1>1, FirstAnswered
<1>6. \A c : Append(Tail(calls), c) = Tail(calls) \o <<c>>
  BY <1>5
<1> QED BY <1>3, <1>4, <1>5, <1>6

LEMMA WrittenTyped ==
  ASSUME DOMAIN entries \subseteq Rows, entries \in [DOMAIN entries -> Entry],
         NEW id \in Rows, NEW e \in Entry, NEW outcome, entries' = Written(id, e, outcome)
  PROVE  DOMAIN entries' \subseteq Rows /\ entries' \in [DOMAIN entries' -> Entry]
<1>1. CASE outcome = "refused"
  BY <1>1 DEF Written
<1>2. CASE outcome # "refused"
  BY <1>2 DEF Written
<1> QED BY <1>1, <1>2

LEMMA AnswerTyped ==
  ASSUME LedgerShape, AnswerInOrder
  PROVE  LedgerShape'
<1>1. PICK S : calls \in Seq(S) /\ \A c \in S : LedgerAnswer(c)
  BY DEF LedgerShape
<1>2. /\ calls # <<>> /\ shown' = ShownAfter(shown, calls[1])
      /\ \/ calls' = OtherCalls(1) /\ UNCHANGED entries
         \/ calls[1].then = "split" /\ calls[1].ok /\ SecondHalf(1)
  BY DEF AnswerInOrder, AnswerLedger
<1>3. /\ OtherCalls(1) = Tail(calls) /\ Tail(calls) \in Seq(S)
      /\ calls[1] = Head(calls) /\ calls[1] \in S
  BY <1>1, <1>2, FirstAnswered
<1>4. shown' \subseteq LedgerRow
  BY <1>1, <1>2, <1>3, ShownTyped DEF LedgerShape
<1>5. CASE calls' = OtherCalls(1) /\ UNCHANGED entries
  <2>1. \E T : calls' \in Seq(T) /\ \A c \in T : LedgerAnswer(c)
    BY <1>1, <1>3, <1>5
  <2> QED BY <1>4, <1>5, <2>1 DEF LedgerShape
<1>6. CASE calls[1].then = "split" /\ calls[1].ok /\ SecondHalf(1)
  <2>1. PICK id \in Rows, e \in Entry, outcome \in LedgerFates :
           /\ id \notin DOMAIN entries /\ entries' = Written(id, e, outcome)
           /\ calls' = Tail(calls) \o <<LedgerCall("create", outcome, "save", id, RowCopy(id, e))>>
    BY <1>2, <1>6, SecondHalfIs
  <2>2. LedgerAnswer(LedgerCall("create", outcome, "save", id, RowCopy(id, e)))
    <3>1. RowCopy(id, e) \in LedgerRow
      BY CopyTyped
    <3> HIDE DEF RowCopy
    <3> QED BY <3>1 DEF LedgerAnswer, LedgerCall
  <2>3. PICK c : c = LedgerCall("create", outcome, "save", id, RowCopy(id, e))
    OBVIOUS
  <2>4. <<c>> \in Seq(S \cup {c}) /\ Tail(calls) \in Seq(S \cup {c})
    BY <1>3, SeqMonotonic
  <2>5. calls' \in Seq(S \cup {c})
    BY <2>1, <2>3, <2>4, ConcatProperties
  <2>6. \E T : calls' \in Seq(T) /\ \A x \in T : LedgerAnswer(x)
    BY <1>1, <2>2, <2>3, <2>5
  <2>7. DOMAIN entries' \subseteq Rows /\ entries' \in [DOMAIN entries' -> Entry]
    BY <2>1, WrittenTyped DEF LedgerShape
  <2> QED BY <1>4, <2>6, <2>7 DEF LedgerShape
<1> QED BY <1>2, <1>5, <1>6

LEMMA AnswerEndsTrue ==
  ASSUME LedgerShape, EndsTrue(shown, calls), "lost" \notin LedgerFaults, AnswerInOrder
  PROVE  EndsTrue(shown, calls)'
<1>1. PICK S : calls \in Seq(S)
  BY DEF LedgerShape
<1>2. /\ calls # <<>> /\ shown' = ShownAfter(shown, calls[1])
      /\ \/ calls' = OtherCalls(1) /\ UNCHANGED entries
         \/ calls[1].then = "split" /\ calls[1].ok /\ SecondHalf(1)
  BY DEF AnswerInOrder, AnswerLedger
<1>3. /\ OtherCalls(1) = Tail(calls) /\ Tail(calls) \in Seq(S) /\ calls[1] = Head(calls)
  BY <1>1, <1>2, FirstAnswered
<1>4. PICK end : RowsReplay(shown, calls, end) /\ \A r \in end : IsTrue(r)
  BY DEF EndsTrue
<1>5. RowsReplay(shown', Tail(calls), end)
  BY <1>1, <1>2, <1>3, <1>4, ReplayRest
<1>6. CASE calls' = OtherCalls(1) /\ UNCHANGED entries
  <2>1. RowsReplay(shown, calls, end)'
    BY <1>3, <1>5, <1>6 DEF RowsReplay
  <2>2. \A r \in end : IsTrue(r)'
    BY <1>4, <1>6 DEF IsTrue
  <2> QED BY <2>1, <2>2 DEF EndsTrue
<1>7. CASE calls[1].then = "split" /\ calls[1].ok /\ SecondHalf(1)
  <2>1. PICK id \in Rows, e \in Entry, outcome \in LedgerFates :
           /\ id \notin DOMAIN entries /\ entries' = Written(id, e, outcome)
           /\ calls' = Tail(calls) \o <<LedgerCall("create", outcome, "save", id, RowCopy(id, e))>>
    BY <1>2, <1>7, SecondHalfIs
  <2>2. outcome \in {"ok", "refused"}
    BY LedgerPageAssumption DEF LedgerFates
  <2>3. \A r \in ShownAfter(end, LedgerCall("create", outcome, "save", id, RowCopy(id, e))) : IsTrue(r)'
    BY <1>4, <2>1, <2>2, WrittenIsTrue
  <2>4. PICK c : c = LedgerCall("create", outcome, "save", id, RowCopy(id, e))
    OBVIOUS
  <2>5. RowsReplay(end, <<c>>, ShownAfter(end, c))
    BY ReplayOne
  <2>6. <<c>> \in Seq(S \cup {c}) /\ Tail(calls) \in Seq(S \cup {c})
    BY <1>3, SeqMonotonic
  <2>7. RowsReplay(shown', Tail(calls) \o <<c>>, ShownAfter(end, c))
    BY <1>5, <2>5, <2>6, ReplayBoth
  <2>8. RowsReplay(shown', calls', ShownAfter(end, c))
    BY <2>1, <2>4, <2>7
  <2>9. RowsReplay(shown, calls, ShownAfter(end, c))'
    BY <2>8 DEF RowsReplay
  <2> QED BY <2>3, <2>4, <2>9 DEF EndsTrue
<1> QED BY <1>2, <1>6, <1>7

-----------------------------------------------------------------------------
(* The steps                                                               *)

LEMMA LedgerStarts == LedgerPageInit => LedgerInv
<1> SUFFICES ASSUME LedgerPageInit PROVE LedgerInv
  OBVIOUS
<1>1. DOMAIN entries \subseteq Rows /\ entries \in [DOMAIN entries -> Entry]
  BY LedgerPageAssumption DEF LedgerPageInit, SeedRow, Entry, Directions
<1>2. PICK handed \in BOOLEAN :
        LET f == [NoFilter EXCEPT !.anomalyOnly = handed]
            list(g) == LedgerCall("list", "ok", "none", 0, TxnPage(g, 0)) IN
        /\ filters = f
        /\ calls = IF handed THEN <<list(NoFilter), list(f)>> ELSE <<list(f)>>
  BY DEF LedgerPageInit
<1> DEFINE f == [NoFilter EXCEPT !.anomalyOnly = handed]
           first == LedgerCall("list", "ok", "none", 0, TxnPage(NoFilter, 0))
           last == LedgerCall("list", "ok", "none", 0, TxnPage(f, 0))
<1>3. calls = IF handed THEN <<first, last>> ELSE <<last>>
  BY <1>2
<1>4. filters = f /\ f \in TxnFilters
  BY <1>2 DEF NoFilter, TxnFilters
<1>5. shown = {} /\ shown \subseteq LedgerRow
  BY DEF LedgerPageInit
<1>6. ASSUME NEW g PROVE TxnPage(g, 0).rows \subseteq LedgerRow
  <2>1. ASSUME NEW r \in TxnPage(g, 0).rows PROVE r \in LedgerRow
    <3>1. PICK id \in Matching(g) : r = RowCopy(id, entries[id])
      BY PageHasCopies
    <3>2. id \in Rows /\ entries[id] \in Entry
      BY <1>1, <3>1 DEF Matching
    <3> QED BY <3>1, <3>2, CopyTyped
  <2> QED BY <2>1
<1>7. LedgerAnswer(first) /\ LedgerAnswer(last)
  <2> HIDE DEF f
  <2> QED BY <1>6 DEF LedgerAnswer, LedgerCall
<1>8. /\ first.ok /\ first.op = "list" /\ \A r \in first.answer.rows : IsTrue(r)
      /\ last.ok /\ last.op = "list" /\ \A r \in last.answer.rows : IsTrue(r)
  <2> HIDE DEF f
  <2> QED BY PageIsTrue DEF LedgerCall
<1> HIDE DEF first, last, f
<1>13. ASSUME NEW a, NEW b
       PROVE  <<a, b>> \in Seq({a, b}) /\ <<b>> \in Seq({a, b}) /\ <<a>> \o <<b>> = <<a, b>>
  <2>1. <<a>> \in Seq({a, b}) /\ <<b>> \in Seq({a, b}) /\ <<a, b>> \in Seq({a, b})
    OBVIOUS
  <2>2. PICK both : both = <<a>> \o <<b>>
    OBVIOUS
  <2>3. both \in Seq({a, b}) /\ Len(both) = 2 /\ both[1] = a /\ both[2] = b
    BY <2>1, <2>2, ConcatProperties
  <2>4. both = <<a, b>>
    BY <2>3
  <2> QED BY <2>1, <2>2, <2>4
<1>14. calls = <<first, last>> \/ calls = <<last>>
  BY <1>3
<1>9. calls \in Seq({first, last}) /\ \A c \in {first, last} : LedgerAnswer(c)
  BY <1>7, <1>13, <1>14
<1>10. LedgerShape
  BY <1>1, <1>5, <1>9 DEF LedgerShape
<1>11. EndsTrue(shown, calls)
  <2>1. \A list : ShownAfter(list, last) = last.answer.rows
    BY <1>8, ShownAfterIs
  <2>2. CASE ~ handed
    <3>1. RowsReplay(shown, <<last>>, last.answer.rows)
      BY <2>1, ReplayOne
    <3> QED BY <1>3, <1>8, <2>2, <3>1 DEF EndsTrue
  <2>3. CASE handed
    <3>1. PICK middle : middle = ShownAfter(shown, first)
      OBVIOUS
    <3>2. RowsReplay(shown, <<first>>, middle)
      BY <3>1, ReplayOne
    <3>3. RowsReplay(middle, <<last>>, last.answer.rows)
      BY <2>1, ReplayOne
    <3>4. <<first>> \in Seq({first, last}) /\ <<last>> \in Seq({first, last})
      OBVIOUS
    <3>5. RowsReplay(shown, <<first>> \o <<last>>, last.answer.rows)
      BY <3>2, <3>3, <3>4, ReplayBoth
    <3>6. calls = <<first>> \o <<last>>
      BY <1>3, <1>13, <2>3
    <3> QED BY <1>8, <3>5, <3>6 DEF EndsTrue
  <2> QED BY <1>2, <2>2, <2>3
<1>12. LedgerRest
  BY <1>4 DEF LedgerRest, LedgerPageInit, NoBulk, EmptyDraft, PickedCats, Directions
<1> QED BY <1>10, <1>11, <1>12 DEF LedgerInv, LedgerTyped

LEMMA NoCallKeeps ==
  ASSUME UNCHANGED <<entries, shown, calls>>
  PROVE  /\ LedgerShape => LedgerShape'
         /\ EndsTrue(shown, calls) => EndsTrue(shown, calls)'
BY DEF LedgerShape, EndsTrue, RowsReplay, IsTrue

LEMMA CurrentRowIs ==
  ASSUME LedgerShape, NEW id \in Rows
  PROVE  CurrentRow(id) \in Entry
<1>1. id \in Nat
  BY LedgerPageAssumption
<1>2. SeedRow(id) \in Entry
  BY <1>1 DEF SeedRow, Entry, Directions
<1> QED BY <1>2 DEF CurrentRow, LedgerShape

\* What a step that writes needs of its row.
EndsTrueToo == LedgerShape' /\ ("lost" \notin LedgerFaults /\ EndsTrue(shown, calls) => EndsTrue(shown, calls)')

LEMMA WriteKeeps ==
  ASSUME LedgerShape, NEW op \in {"create", "update"}, NEW id \in Rows, NEW e \in Entry,
         NEW then, then = "split" => op = "update", op = "create" => id \notin DOMAIN entries,
         SendWrite(op, id, e, then), UNCHANGED shown
  PROVE  EndsTrueToo
BY WriteTyped, WriteEndsTrue DEF EndsTrueToo

LEMMA LedgerRestTyped ==
  ASSUME LedgerTyped, [LedgerPageNext]_ledgerPageVars
  PROVE  LedgerRest'
<1> USE DEF LedgerTyped, LedgerRest
<1>1. ASSUME NEW g \in FilterPatches, ApplyFilterPatch(g) PROVE LedgerRest'
  <2>2. ASSUME NEW d \in Directions \cup {"all"} PROVE [filters EXCEPT !.dir = d] \in TxnFilters
    BY DEF TxnFilters
  <2>3. ASSUME NEW b \in BOOLEAN PROVE [filters EXCEPT !.anomalyOnly = b] \in TxnFilters
    BY DEF TxnFilters
  <2>4. NoFilter \in TxnFilters
    BY DEF TxnFilters, NoFilter
  <2>1. g \in TxnFilters
    BY <2>2, <2>3, <2>4 DEF FilterPatches
  <2> QED BY <1>1, <2>1 DEF ApplyFilterPatch, ApplyFilters
<1>2. ASSUME NEW v \in Views, ApplySavedView(v) PROVE LedgerRest'
  <2>1. v \in TxnFilters
    BY LedgerPageAssumption DEF TxnFilters, Directions
  <2> QED BY <1>2, <2>1 DEF ApplySavedView, ApplyFilters
<1>3. CASE LoadMore
  BY <1>3 DEF LoadMore
<1>4. ASSUME NEW r \in shown,
             RecategorizeRow(r) \/ OpenRecord("record", r) \/ OpenRecord("anomaly", r)
      PROVE  LedgerRest'
  <2>1. r.dir \in Directions /\ r.cat \in Directions
    BY DEF LedgerShape, LedgerRow
  <2> QED BY <1>4, <2>1 DEF RecategorizeRow, OpenRecord, PageUnchanged, PickedCats
<1>5. CASE OpenNew \/ CloseInspector
  BY <1>5 DEF OpenNew, CloseInspector, PageUnchanged, EmptyDraft, PickedCats, Directions
<1>6. ASSUME NEW d \in Directions, EditDraft(d) PROVE LedgerRest'
  BY <1>6 DEF EditDraft, PageUnchanged, PickedCats
<1>7. CASE SaveDraft \/ MarkExpected \/ SplitTxn \/ DeleteTxn
  BY <1>7 DEF SaveDraft, MarkExpected, SplitTxn, DeleteTxn, PageUnchanged
<1>8. ASSUME NEW ids \in SUBSET Rows, SelectRows(ids) PROVE LedgerRest'
  BY <1>8 DEF SelectRows, PageUnchanged
<1>9. ASSUME NEW kind \in {"pick", "delete"}, OpenBulk(kind) PROVE LedgerRest'
  BY <1>9 DEF OpenBulk, PageUnchanged, PickedCats
<1>10. ASSUME NEW d \in Directions, PickBulk(d) PROVE LedgerRest'
  BY <1>10 DEF PickBulk, PageUnchanged, PickedCats
<1>11. CASE CloseBulk
  BY <1>11 DEF CloseBulk, PageUnchanged
<1>12. ASSUME NEW failing, ApplyBulk(failing) PROVE LedgerRest'
  BY <1>12 DEF ApplyBulk, PageUnchanged
<1>13. CASE AnswerInOrder
  <2> DEFINE c == calls[1]
  <2>1. /\ UNCHANGED filters
        /\ rowDraft' = IF inspector' = ClosedInspector THEN EmptyDraft ELSE rowDraft
        /\ IF c.then = "bulk" THEN BulkAfter(c) ELSE UNCHANGED <<bulk, bulkPick, selected>>
        /\ saving' \in {FALSE, saving}
    <3>1. AnswerLedger(1)
      BY <1>13 DEF AnswerInOrder
    <3>2. saving' \in {FALSE, saving}
      BY <3>1 DEF AnswerLedger, SecondHalf
    <3> QED BY <3>1, <3>2 DEF AnswerLedger
  <2> HIDE DEF c
  <2>2. rowDraft' \in [dir : Directions, cat : PickedCats]
    BY <2>1 DEF EmptyDraft, PickedCats, Directions
  <2>3. selected' \subseteq Rows /\ bulkPick' \in PickedCats
    BY <2>1 DEF BulkAfter, PickedCats
  <2>4. bulk' \in [kind : {"none", "pick", "delete"}, waiting : SUBSET Rows]
    BY <2>1 DEF BulkAfter, NoBulk
  <2> QED BY <2>1, <2>2, <2>3, <2>4
<1>14. CASE UNCHANGED ledgerPageVars
  BY <1>14 DEF ledgerPageVars
<1> QED
  BY <1>1, <1>2, <1>3, <1>4, <1>5, <1>6, <1>7, <1>8, <1>9, <1>10, <1>11, <1>12, <1>13, <1>14
  DEF LedgerPageNext

LEMMA RowsKeep ==
  ASSUME LedgerTyped, [LedgerPageNext]_ledgerPageVars
  PROVE  EndsTrueToo
<1>1. ASSUME NEW g \in FilterPatches, ApplyFilterPatch(g) PROVE EndsTrueToo
  BY <1>1, ListTyped, ListEndsTrue DEF ApplyFilterPatch, ApplyFilters, LedgerTyped, EndsTrueToo
<1>2. ASSUME NEW v \in Views, ApplySavedView(v) PROVE EndsTrueToo
  BY <1>2, ListTyped, ListEndsTrue DEF ApplySavedView, ApplyFilters, LedgerTyped, EndsTrueToo
<1>3. CASE LoadMore
  BY <1>3, ListTyped, ListEndsTrue DEF LoadMore, LedgerTyped, EndsTrueToo
<1>4. ASSUME NEW r \in shown, RecategorizeRow(r) PROVE EndsTrueToo
  <2>1. r.id \in Rows /\ r.dir \in Directions
    BY DEF LedgerTyped, LedgerShape, LedgerRow
  <2>2. CurrentRow(r.id) \in Entry
    BY <2>1, CurrentRowIs DEF LedgerTyped
  <2>3. [CurrentRow(r.id) EXCEPT !.cat = r.dir] \in Entry
    BY <2>1, <2>2 DEF Entry
  <2>4. SendWrite("update", r.id, [CurrentRow(r.id) EXCEPT !.cat = r.dir], "none") /\ UNCHANGED shown
    BY <1>4 DEF RecategorizeRow, PageUnchanged
  <2> QED BY <2>1, <2>3, <2>4, WriteKeeps DEF LedgerTyped
<1>5. ASSUME NEW r \in shown, OpenRecord("record", r) \/ OpenRecord("anomaly", r) PROVE EndsTrueToo
  BY <1>5, NoCallKeeps DEF OpenRecord, PageUnchanged, LedgerTyped, EndsTrueToo
<1>6. CASE OpenNew \/ CloseInspector
  BY <1>6, NoCallKeeps DEF OpenNew, CloseInspector, PageUnchanged, LedgerTyped, EndsTrueToo
<1>7. ASSUME NEW d \in Directions, EditDraft(d) PROVE EndsTrueToo
  BY <1>7, NoCallKeeps DEF EditDraft, PageUnchanged, LedgerTyped, EndsTrueToo
<1>8. CASE SaveDraft
  <2>1. rowDraft.dir \in Directions /\ rowDraft.cat \in Directions /\ UNCHANGED shown
    BY <1>8 DEF SaveDraft, LedgerTyped, LedgerRest, PickedCats, PageUnchanged
  <2>2. ASSUME NEW id \in Rows \ DOMAIN entries,
               SendWrite("create", id, [dir |-> rowDraft.dir, cat |-> rowDraft.cat,
                                        flagged |-> FALSE, amount |-> 2], "save")
        PROVE  EndsTrueToo
    <3>1. [dir |-> rowDraft.dir, cat |-> rowDraft.cat, flagged |-> FALSE, amount |-> 2] \in Entry
      BY <2>1 DEF Entry
    <3> QED BY <2>1, <2>2, <3>1, WriteKeeps DEF LedgerTyped
  <2>3. ASSUME NEW r \in shown,
               SendWrite("update", r.id, [dir |-> rowDraft.dir, cat |-> rowDraft.cat, amount |-> r.amount,
                                          flagged |-> CurrentRow(r.id).flagged], "save")
        PROVE  EndsTrueToo
    <3>1. r.id \in Rows /\ r.amount \in 1..2
      BY DEF LedgerTyped, LedgerShape, LedgerRow
    <3>2. CurrentRow(r.id).flagged \in BOOLEAN
      BY <3>1, CurrentRowIs DEF LedgerTyped, Entry
    <3>3. [dir |-> rowDraft.dir, cat |-> rowDraft.cat, amount |-> r.amount,
           flagged |-> CurrentRow(r.id).flagged] \in Entry
      BY <2>1, <3>1, <3>2 DEF Entry
    <3> QED BY <2>1, <2>3, <3>1, <3>3, WriteKeeps DEF LedgerTyped
  <2> QED BY <1>8, <2>2, <2>3 DEF SaveDraft
<1>9. CASE MarkExpected
  <2>1. PICK r \in shown :
          SendWrite("update", r.id, [CurrentRow(r.id) EXCEPT !.flagged = FALSE], "save")
    BY <1>9 DEF MarkExpected
  <2>2. r.id \in Rows /\ UNCHANGED shown
    BY <1>9 DEF LedgerTyped, LedgerShape, LedgerRow, MarkExpected, PageUnchanged
  <2>3. CurrentRow(r.id) \in Entry
    BY <2>2, CurrentRowIs DEF LedgerTyped
  <2>4. [CurrentRow(r.id) EXCEPT !.flagged = FALSE] \in Entry
    BY <2>3 DEF Entry
  <2> QED BY <2>1, <2>2, <2>4, WriteKeeps DEF LedgerTyped
<1>10. CASE SplitTxn
  <2>1. PICK r \in shown :
          SendWrite("update", r.id, [CurrentRow(r.id) EXCEPT !.amount = 1], "split")
    BY <1>10 DEF SplitTxn
  <2>2. r.id \in Rows /\ UNCHANGED shown
    BY <1>10 DEF LedgerTyped, LedgerShape, LedgerRow, SplitTxn, PageUnchanged
  <2>3. CurrentRow(r.id) \in Entry
    BY <2>2, CurrentRowIs DEF LedgerTyped
  <2>4. [CurrentRow(r.id) EXCEPT !.amount = 1] \in Entry
    BY <2>3 DEF Entry
  <2> QED BY <2>1, <2>2, <2>4, WriteKeeps DEF LedgerTyped
<1>11. CASE DeleteTxn
  <2>1. PICK r \in shown : SendRemove(r.id, "delete")
    BY <1>11 DEF DeleteTxn
  <2>2. r.id \in Rows /\ UNCHANGED shown
    BY <1>11 DEF LedgerTyped, LedgerShape, LedgerRow, DeleteTxn, PageUnchanged
  <2> QED BY <2>1, <2>2, RemoveTyped, RemoveEndsTrue DEF LedgerTyped, EndsTrueToo
<1>12. ASSUME NEW ids \in SUBSET Rows, SelectRows(ids) PROVE EndsTrueToo
  BY <1>12, NoCallKeeps DEF SelectRows, PageUnchanged, LedgerTyped, EndsTrueToo
<1>13. ASSUME NEW kind \in {"pick", "delete"}, OpenBulk(kind) PROVE EndsTrueToo
  BY <1>13, NoCallKeeps DEF OpenBulk, PageUnchanged, LedgerTyped, EndsTrueToo
<1>14. ASSUME NEW d \in Directions, PickBulk(d) PROVE EndsTrueToo
  BY <1>14, NoCallKeeps DEF PickBulk, PageUnchanged, LedgerTyped, EndsTrueToo
<1>15. CASE CloseBulk
  BY <1>15, NoCallKeeps DEF CloseBulk, PageUnchanged, LedgerTyped, EndsTrueToo
<1>16. ASSUME NEW failing, ApplyBulk(failing) PROVE EndsTrueToo
  BY <1>16, BulkTyped, BulkEndsTrue DEF EndsTrueToo
<1>17. CASE AnswerInOrder
  BY <1>17, AnswerTyped, AnswerEndsTrue DEF LedgerTyped, EndsTrueToo
<1>18. CASE UNCHANGED ledgerPageVars
  BY <1>18, NoCallKeeps DEF ledgerPageVars, LedgerTyped, EndsTrueToo
<1> QED
  BY <1>1, <1>2, <1>3, <1>4, <1>5, <1>6, <1>7, <1>8, <1>9, <1>10, <1>11, <1>12, <1>13, <1>14,
     <1>15, <1>16, <1>17, <1>18
  DEF LedgerPageNext

\* The ledger page's state keeps its shape: the server's rows and the page's
\* copies are rows, whatever is refused, lost or overlaps.
THEOREM LedgerStaysTyped == LedgerPageSpec => []LedgerTyped
<1>1. LedgerPageInit => LedgerTyped
  BY LedgerStarts DEF LedgerInv
<1>2. LedgerTyped /\ [LedgerPageNext]_ledgerPageVars => LedgerTyped'
  BY LedgerRestTyped, RowsKeep DEF LedgerTyped, EndsTrueToo
<1> QED BY <1>1, <1>2, PTL DEF LedgerPageSpec

LEMMA LedgerTypeOK == LedgerTyped => LedgerPageTypeOK
BY DEF LedgerTyped, LedgerShape, LedgerRest, LedgerPageTypeOK, LedgerRow

\* If no answer is lost, the answers in flight make the page what the ledger is.
THEOREM LedgerInvariant ==
  ASSUME "lost" \notin LedgerFaults
  PROVE  LedgerPageSpec => []LedgerInv
<1>1. LedgerPageInit => LedgerInv
  BY LedgerStarts
<1>2. LedgerInv /\ [LedgerPageNext]_ledgerPageVars => LedgerInv'
  BY LedgerRestTyped, RowsKeep DEF LedgerInv, LedgerTyped, EndsTrueToo
<1> QED BY <1>1, <1>2, PTL DEF LedgerPageSpec

LEMMA NothingInFlight ==
  ASSUME EndsTrue(shown, calls), calls = <<>>
  PROVE  \A r \in shown : IsTrue(r)
<1>1. PICK end : RowsReplay(shown, calls, end) /\ \A r \in end : IsTrue(r)
  BY DEF EndsTrue
<1>2. Len(calls) = 0
  OBVIOUS
<1>3. end = shown
  BY <1>1, <1>2 DEF RowsReplay
<1> QED BY <1>1, <1>3

\* When every call has been answered, and none was lost, every row the page
\* shows is in the ledger and as the ledger has it (use-transactions.ts).
THEOREM RowsAreTrue ==
  ASSUME "lost" \notin LedgerFaults
  PROVE  LedgerPageSpec => []ShownRowsAreTrue
<1>1. LedgerInv => ShownRowsAreTrue
  BY NothingInFlight DEF LedgerInv, ShownRowsAreTrue, IsTrue
<1> QED BY <1>1, LedgerInvariant, PTL

-----------------------------------------------------------------------------
(* Members and roles                                                       *)

Member == [id : 1..MaxMembers, email : Emails \cup {"founder"},
           role : {"owner", "admin", "member"}, status : {"pending", "active"}]

MemberAnswer(c) ==
  /\ c.op \in {"list", "invite", "role", "remove"}
  /\ c.op = "list" => c.members \in Seq(Member)
  /\ c.op # "list" => c.ok \in BOOLEAN
  /\ c.op \in {"invite", "role"} /\ c.ok => c.member \in Member
  /\ c.op = "remove" /\ c.ok => c = [op |-> "remove", ok |-> TRUE, id |-> c.id]

\* Refusals of a role or a removal that are still on their way.
UntoldYet == {c \in memberCalls : c.op \in {"role", "remove"} /\ ~ c.ok}

MembersTyped ==
  /\ nextMember \in 2..(MaxMembers + 1) /\ memberSent \in 0..MaxMemberCalls
  /\ roster \in Seq(Member) /\ rows \in Seq(Member)
  /\ inviting \in BOOLEAN /\ blocked \in BOOLEAN
  /\ invitee = <<>> \/ \E e \in Emails : invitee = <<e>>
  /\ IsFiniteSet(memberCalls) /\ \A c \in memberCalls : MemberAnswer(c)
  /\ untold \in Nat /\ untold + Cardinality(UntoldYet) <= memberSent

\* Each id once.
OneEach(list) == \A i, j \in DOMAIN list : list[i].id = list[j].id => i = j

LEMMA BoundsOfMembers == MaxMembers \in Nat \ {0} /\ MaxMemberCalls \in Nat
BY MembersPageAssumption

LEMMA WithoutIs ==
  ASSUME NEW list \in Seq(Member), NEW id
  PROVE  /\ Without(list, id) \in Seq(Member)
         /\ IdsOf(Without(list, id)) = IdsOf(list) \ {id}
         /\ OneEach(list) => OneEach(Without(list, id))
<1> DEFINE K == {i \in DOMAIN list : list[i].id # id}
           left == AtPlaces(list, K)
<1>1. K \in SUBSET DOMAIN list
  OBVIOUS
<1> HIDE DEF K
<1>2. left \in Seq(Member) /\ Len(left) = Cardinality(K) /\ Cardinality(K) \in Nat
  BY <1>1, PartOfAList
<1>3. PICK nth \in [1..Cardinality(K) -> K] :
        /\ \A m, n \in 1..Cardinality(K) : m < n => nth[m] < nth[n]
        /\ \A i \in K : \E n \in 1..Cardinality(K) : nth[n] = i
        /\ \A n \in 1..Cardinality(K) : left[n] = list[nth[n]]
  BY <1>1, PartOfAList
<1>4. DOMAIN left = 1..Cardinality(K)
  BY <1>2
<1> HIDE DEF left
<1>5. ASSUME NEW m \in 1..Cardinality(K), NEW n \in 1..Cardinality(K), nth[m] = nth[n]
      PROVE  m = n
  <2>1. PICK a \in K, b \in K : a = nth[m] /\ b = nth[n]
    BY <1>3
  <2>2. a \in Nat /\ b \in Nat /\ m \in Nat /\ n \in Nat
    BY <1>1, <1>2, <2>1
  <2>3. ~ (a < b) /\ ~ (b < a)
    BY <1>5, <2>1, <2>2
  <2> QED BY <1>3, <2>1, <2>2, <2>3
<1>6. OneEach(list) => OneEach(left)
  BY <1>1, <1>3, <1>4, <1>5 DEF OneEach
<1>7. IdsOf(left) = {list[i].id : i \in K}
  BY <1>3, <1>4 DEF IdsOf
<1>8. {list[i].id : i \in K} = IdsOf(list) \ {id}
  BY DEF K, IdsOf
<1> QED BY <1>2, <1>6, <1>7, <1>8 DEF Without, left, K

LEMMA AppendIs ==
  ASSUME NEW list \in Seq(Member), NEW m \in Member
  PROVE  /\ Append(list, m) \in Seq(Member)
         /\ IdsOf(Append(list, m)) = IdsOf(list) \cup {m.id}
         /\ OneEach(list) /\ m.id \notin IdsOf(list) => OneEach(Append(list, m))
<1> DEFINE more == Append(list, m)
<1>1. /\ more \in Seq(Member) /\ Len(list) \in Nat /\ Len(more) = Len(list) + 1
      /\ DOMAIN list = 1..Len(list) /\ DOMAIN more = 1..Len(list) + 1
      /\ \A i \in 1..Len(list) : more[i] = list[i]
      /\ more[Len(list) + 1] = m
  BY AppendProperties
<1> HIDE DEF more
<1>2. \A i \in DOMAIN more : i \in DOMAIN list \/ i = Len(list) + 1
  BY <1>1
<1>3. DOMAIN list \subseteq DOMAIN more /\ Len(list) + 1 \in DOMAIN more
  BY <1>1
<1>4. IdsOf(more) = IdsOf(list) \cup {m.id}
  <2>1. ASSUME NEW x \in IdsOf(more) PROVE x \in IdsOf(list) \cup {m.id}
    BY <1>1, <1>2, <2>1 DEF IdsOf
  <2>2. ASSUME NEW x \in IdsOf(list) PROVE x \in IdsOf(more)
    BY <1>1, <1>3, <2>2 DEF IdsOf
  <2>3. m.id \in IdsOf(more)
    BY <1>1, <1>3 DEF IdsOf
  <2> QED BY <2>1, <2>2, <2>3
<1>5. ASSUME OneEach(list), m.id \notin IdsOf(list) PROVE OneEach(more)
  <2>1. \A i \in DOMAIN list : list[i].id # m.id
    BY <1>5 DEF IdsOf
  <2> QED BY <1>1, <1>2, <1>5, <2>1 DEF OneEach
<1> QED BY <1>1, <1>4, <1>5 DEF more

\* A list whose members keep their ids.
LEMMA SameIds ==
  ASSUME NEW list, NEW other, DOMAIN other = DOMAIN list,
         \A i \in DOMAIN list : other[i].id = list[i].id
  PROVE  IdsOf(other) = IdsOf(list) /\ (OneEach(list) => OneEach(other))
BY DEF IdsOf, OneEach

LEMMA RosterWithRole ==
  ASSUME roster \in Seq(Member), NEW i \in DOMAIN roster, NEW role \in {"admin", "member"}
  PROVE  /\ WithRole(i, role) \in Seq(Member) /\ WithRole(i, role)[i] \in Member
         /\ DOMAIN WithRole(i, role) = DOMAIN roster
         /\ \A j \in DOMAIN roster : WithRole(i, role)[j].id = roster[j].id
<1>1. roster[i] \in Member
  OBVIOUS
<1>2. [roster[i] EXCEPT !.role = role] \in Member /\ [roster[i] EXCEPT !.role = role].id = roster[i].id
  BY <1>1 DEF Member
<1>3. WithRole(i, role) = [roster EXCEPT ![i] = [roster[i] EXCEPT !.role = role]]
  BY DEF WithRole
<1>4. PICK m \in Member : m = [roster[i] EXCEPT !.role = role] /\ m.id = roster[i].id
  BY <1>2
<1>5. WithRole(i, role) = [roster EXCEPT ![i] = m]
  BY <1>3, <1>4
<1> QED BY <1>4, <1>5

LEMMA SignedIn ==
  ASSUME roster \in Seq(Member), FirstSignIn
  PROVE  /\ roster' \in Seq(Member) /\ DOMAIN roster' = DOMAIN roster
         /\ \A j \in DOMAIN roster : roster'[j].id = roster[j].id
<1>1. PICK i \in DOMAIN roster : roster' = [roster EXCEPT ![i].status = "active"]
  BY DEF FirstSignIn
<1>2. roster[i] \in Member
  OBVIOUS
<1>3. [roster[i] EXCEPT !.status = "active"] \in Member
      /\ [roster[i] EXCEPT !.status = "active"].id = roster[i].id
  BY <1>2 DEF Member
<1>4. PICK m \in Member : m = [roster[i] EXCEPT !.status = "active"] /\ m.id = roster[i].id
  BY <1>3
<1>5. roster' = [roster EXCEPT ![i] = m]
  BY <1>1, <1>4
<1> QED BY <1>4, <1>5

\* An answer to a change of a role, or of a removal, in the rows shown.
LEMMA RowsAfterRole ==
  ASSUME rows \in Seq(Member), NEW c, c.op = "role", c.member \in Member
  PROVE  /\ AfterMember(c) \in Seq(Member) /\ DOMAIN AfterMember(c) = DOMAIN rows
         /\ \A j \in DOMAIN rows : AfterMember(c)[j].id = rows[j].id
<1>1. AfterMember(c) = [i \in DOMAIN rows |-> IF rows[i].id = c.member.id THEN c.member ELSE rows[i]]
  BY DEF AfterMember
<1>2. \A i \in DOMAIN rows : (IF rows[i].id = c.member.id THEN c.member ELSE rows[i]) \in Member
  OBVIOUS
<1>3. \A i \in DOMAIN rows : AfterMember(c)[i].id = rows[i].id
  BY <1>1
<1>4. DOMAIN rows = 1..Len(rows) /\ Len(rows) \in Nat
  OBVIOUS
<1>5. AfterMember(c) \in Seq(Member)
  BY <1>1, <1>2, <1>4
<1> QED BY <1>1, <1>3, <1>5

-----------------------------------------------------------------------------
(* The typing of members                                                   *)

CallsOfMembers ==
  /\ IsFiniteSet(memberCalls) /\ \A c \in memberCalls : MemberAnswer(c)
  /\ untold \in Nat /\ untold + Cardinality(UntoldYet) <= memberSent
  /\ memberSent \in 0..MaxMemberCalls

LEMMA SendCounts ==
  ASSUME CallsOfMembers, NEW c, MemberAnswer(c), SendMember(c), CanSend, UNCHANGED untold
  PROVE  CallsOfMembers'
<1>1. /\ memberCalls' = memberCalls \cup {c} /\ memberSent' = memberSent + 1
      /\ memberSent < MaxMemberCalls
  BY DEF SendMember, CanSend
<1>2. IsFiniteSet(memberCalls') /\ \A x \in memberCalls' : MemberAnswer(x)
  BY <1>1, FS_AddElement DEF CallsOfMembers
<1>3. UntoldYet' \subseteq UntoldYet \cup {c} /\ IsFiniteSet(UntoldYet)
  BY <1>1, FS_Subset DEF UntoldYet, CallsOfMembers
<1>4. /\ IsFiniteSet(UntoldYet \cup {c}) /\ Cardinality(UntoldYet) \in Nat
      /\ Cardinality(UntoldYet \cup {c}) <= Cardinality(UntoldYet) + 1
      /\ Cardinality(UntoldYet \cup {c}) \in Nat
  BY <1>3, FS_AddElement, FS_CardinalityType
<1>5. Cardinality(UntoldYet') <= Cardinality(UntoldYet \cup {c}) /\ Cardinality(UntoldYet') \in Nat
  BY <1>3, <1>4, FS_Subset, FS_CardinalityType
<1>6. memberSent \in Nat /\ MaxMemberCalls \in Nat
  BY BoundsOfMembers DEF CallsOfMembers
<1>7. untold + Cardinality(UntoldYet') <= memberSent + 1
  BY <1>4, <1>5, <1>6 DEF CallsOfMembers
<1> QED BY <1>1, <1>2, <1>6, <1>7 DEF CallsOfMembers, UntoldYet

LEMMA LandingCounts ==
  ASSUME CallsOfMembers, NEW c \in memberCalls, Landing(c), UNCHANGED memberSent,
         untold' = IF c \in UntoldYet THEN untold + 1 ELSE untold
  PROVE  CallsOfMembers'
<1>1. memberCalls' = memberCalls \ {c}
  BY DEF Landing
<1>2. IsFiniteSet(memberCalls') /\ \A x \in memberCalls' : MemberAnswer(x)
  BY <1>1, FS_Subset DEF CallsOfMembers
<1>3. UntoldYet' = UntoldYet \ {c} /\ IsFiniteSet(UntoldYet)
  BY <1>1, FS_Subset DEF UntoldYet, CallsOfMembers
<1>4. /\ Cardinality(UntoldYet) \in Nat /\ Cardinality(UntoldYet \ {c}) \in Nat
      /\ Cardinality(UntoldYet \ {c}) = IF c \in UntoldYet THEN Cardinality(UntoldYet) - 1
                                        ELSE Cardinality(UntoldYet)
  BY <1>3, FS_RemoveElement, FS_CardinalityType
<1>6. memberSent \in Nat
  BY BoundsOfMembers DEF CallsOfMembers
<1>7. untold' \in Nat /\ untold' + Cardinality(UntoldYet \ {c}) <= memberSent
  BY <1>4, <1>6 DEF CallsOfMembers
<1>8. untold' + Cardinality(UntoldYet') <= memberSent
  BY <1>3, <1>7
<1> QED BY <1>1, <1>2, <1>7, <1>8 DEF CallsOfMembers, UntoldYet

LEMMA MembersStart == MembersPageInit => MembersTyped
<1> SUFFICES ASSUME MembersPageInit PROVE MembersTyped
  OBVIOUS
<1>1. Founder \in Member
  BY BoundsOfMembers DEF Founder, Member
<1>2. roster = <<Founder>> /\ roster \in Seq(Member) /\ rows \in Seq(Member)
  BY <1>1 DEF MembersPageInit
<1>3. memberCalls = {MembersAnswer} /\ MembersAnswer.op = "list" /\ MembersAnswer.members = roster
  BY DEF MembersPageInit, MembersAnswer
<1>4. IsFiniteSet(memberCalls) /\ \A c \in memberCalls : MemberAnswer(c)
  BY <1>2, <1>3, FS_Singleton DEF MemberAnswer
<1>5. UntoldYet = {}
  BY <1>3 DEF UntoldYet
<1>6. Cardinality(UntoldYet) = 0
  BY <1>5, FS_EmptySet
<1>7. nextMember = 2 /\ memberSent = 0 /\ untold = 0 /\ ~ inviting /\ ~ blocked /\ invitee = <<>>
  BY DEF MembersPageInit
<1>8. /\ nextMember \in 2..(MaxMembers + 1) /\ memberSent \in 0..MaxMemberCalls
      /\ untold \in Nat /\ untold + Cardinality(UntoldYet) <= memberSent
  BY <1>6, <1>7, BoundsOfMembers
<1>9. inviting \in BOOLEAN /\ blocked \in BOOLEAN
  BY DEF MembersPageInit
<1> QED BY <1>2, <1>4, <1>7, <1>8, <1>9, Zenon DEF MembersTyped

LEMMA MembersStep ==
  ASSUME MembersTyped, [MembersPageNext]_membersVars
  PROVE  MembersTyped'
<1> DEFINE listsTyped == roster \in Seq(Member) /\ rows \in Seq(Member)
           restTyped == /\ nextMember \in 2..(MaxMembers + 1)
                        /\ inviting \in BOOLEAN /\ blocked \in BOOLEAN
                        /\ invitee = <<>> \/ \E e \in Emails : invitee = <<e>>
<1>0. listsTyped /\ restTyped /\ CallsOfMembers
  BY DEF MembersTyped, CallsOfMembers
<1> SUFFICES listsTyped' /\ restTyped' /\ CallsOfMembers'
  BY DEF MembersTyped, CallsOfMembers
<1>1. CASE FirstSignIn
  <2>1. roster' \in Seq(Member)
    BY <1>0, <1>1, SignedIn
  <2> QED BY <1>0, <1>1, <2>1 DEF FirstSignIn, CallsOfMembers, UntoldYet
<1>2. CASE PurgeScheduled \/ TypeInvitee
  BY <1>0, <1>2 DEF PurgeScheduled, TypeInvitee, CallsOfMembers, UntoldYet
<1>3. CASE MembersLoad
  <2>1. PICK c \in memberCalls : c.op = "list" /\ Landing(c) /\ rows' = c.members
    BY <1>3 DEF MembersLoad
  <2>2. UNCHANGED <<roster, blocked, nextMember, invitee, inviting, memberSent, untold>>
    BY <1>3 DEF MembersLoad
  <2>3. c.members \in Seq(Member) /\ c \notin UntoldYet
    BY <1>0, <2>1 DEF CallsOfMembers, MemberAnswer, UntoldYet
  <2>4. CallsOfMembers'
    BY <1>0, <2>1, <2>2, <2>3, LandingCounts
  <2> QED BY <1>0, <2>1, <2>2, <2>3, <2>4
<1>4. CASE Invite
  <2>1. /\ CanSend /\ nextMember <= MaxMembers /\ inviting' = TRUE
        /\ UNCHANGED <<blocked, rows, invitee, untold>>
    BY <1>4 DEF Invite
  <2>2. PICK role \in {"admin", "member"} :
         IF RefusesInvite(invitee[1])
         THEN SendMember([op |-> "invite", ok |-> FALSE]) /\ UNCHANGED <<roster, nextMember>>
         ELSE /\ roster' = Append(roster, Invited(invitee[1], role))
              /\ nextMember' = nextMember + 1
              /\ SendMember([op |-> "invite", ok |-> TRUE, member |-> Invited(invitee[1], role)])
    BY <1>4 DEF Invite
  <2>3. invitee[1] \in Emails
    BY <1>0, <1>4 DEF Invite
  <2>4. Invited(invitee[1], role) \in Member
    BY <1>0, <2>1, <2>3, BoundsOfMembers DEF Invited, Member
  <2>5. CASE RefusesInvite(invitee[1])
    <3>1. MemberAnswer([op |-> "invite", ok |-> FALSE])
      BY DEF MemberAnswer
    <3>2. CallsOfMembers'
      BY <1>0, <2>1, <2>2, <2>5, <3>1, SendCounts
    <3> QED BY <1>0, <2>1, <2>2, <2>5, <3>2
  <2>6. CASE ~ RefusesInvite(invitee[1])
    <3>1. PICK m \in Member : m = Invited(invitee[1], role)
      BY <2>4
    <3>2. MemberAnswer([op |-> "invite", ok |-> TRUE, member |-> m])
      BY DEF MemberAnswer
    <3>3. CallsOfMembers'
      BY <1>0, <2>1, <2>2, <2>6, <3>1, <3>2, SendCounts
    <3>4. roster' = Append(roster, m) /\ nextMember' = nextMember + 1
      BY <2>2, <2>6, <3>1
    <3>5. nextMember' \in 2..(MaxMembers + 1)
      BY <1>0, <2>1, <3>4, BoundsOfMembers
    <3> QED BY <1>0, <2>1, <3>3, <3>4, <3>5, AppendIs
  <2> QED BY <2>5, <2>6
<1>5. CASE InviteAnswered
  <2>1. PICK c \in memberCalls :
          /\ c.op = "invite" /\ Landing(c) /\ inviting' = FALSE
          /\ rows' = IF c.ok THEN AfterInvite(c) ELSE rows
          /\ invitee' = IF c.ok THEN <<>> ELSE invitee
          /\ UNCHANGED <<roster, blocked, nextMember, memberSent, untold>>
    BY <1>5 DEF InviteAnswered
  <2>2. c \notin UntoldYet /\ (c.ok => c.member \in Member)
    BY <1>0, <2>1 DEF CallsOfMembers, MemberAnswer, UntoldYet
  <2>3. CallsOfMembers'
    BY <1>0, <2>1, <2>2, LandingCounts
  <2>4. rows' \in Seq(Member)
    BY <1>0, <2>1, <2>2, AppendIs DEF AfterInvite
  <2> QED BY <1>0, <2>1, <2>3, <2>4
<1>6. CASE SetRole
  <2>1. CanSend /\ UNCHANGED <<blocked, nextMember, rows, invitee, inviting, untold>>
    BY <1>6 DEF SetRole
  <2>2. PICK r \in DOMAIN rows : \E role \in {"admin", "member"} \ {rows[r].role} :
         LET allowed == {i \in Indices(rows[r].id) : CanSetRole(i, role)}
         IN IF allowed = {}
            THEN SendMember([op |-> "role", ok |-> FALSE]) /\ UNCHANGED roster
            ELSE \E i \in allowed :
                   /\ roster' = WithRole(i, role)
                   /\ SendMember([op |-> "role", ok |-> TRUE, member |-> roster'[i]])
    BY <1>6 DEF SetRole
  <2>3. CASE SendMember([op |-> "role", ok |-> FALSE]) /\ UNCHANGED roster
    <3>1. MemberAnswer([op |-> "role", ok |-> FALSE])
      BY DEF MemberAnswer
    <3>2. CallsOfMembers'
      BY <1>0, <2>1, <2>3, <3>1, SendCounts
    <3> QED BY <1>0, <2>1, <2>3, <3>2
  <2>4. ASSUME NEW i \in DOMAIN roster, NEW role \in {"admin", "member"},
               roster' = WithRole(i, role),
               SendMember([op |-> "role", ok |-> TRUE, member |-> roster'[i]])
        PROVE  listsTyped' /\ restTyped' /\ CallsOfMembers'
    <3>1. roster' \in Seq(Member)
      BY <1>0, <2>4, RosterWithRole
    <3>2. PICK m \in Member : m = roster'[i]
      BY <1>0, <2>4, RosterWithRole
    <3>3. MemberAnswer([op |-> "role", ok |-> TRUE, member |-> m])
      BY DEF MemberAnswer
    <3>4. CallsOfMembers'
      BY <1>0, <2>1, <2>4, <3>2, <3>3, SendCounts
    <3> QED BY <1>0, <2>1, <3>1, <3>4
  <2> QED BY <2>2, <2>3, <2>4 DEF Indices
<1>7. CASE RemoveMember
  <2>1. CanSend /\ UNCHANGED <<blocked, nextMember, rows, invitee, inviting, untold>>
    BY <1>7 DEF RemoveMember
  <2>2. PICK id :
          \/ /\ roster' = Without(roster, id)
             /\ SendMember([op |-> "remove", ok |-> TRUE, id |-> id])
          \/ SendMember([op |-> "remove", ok |-> FALSE]) /\ UNCHANGED roster
    BY <1>7 DEF RemoveMember
  <2>3. CASE roster' = Without(roster, id) /\ SendMember([op |-> "remove", ok |-> TRUE, id |-> id])
    <3>1. MemberAnswer([op |-> "remove", ok |-> TRUE, id |-> id])
      BY DEF MemberAnswer
    <3>2. CallsOfMembers'
      BY <1>0, <2>1, <2>3, <3>1, SendCounts
    <3> QED BY <1>0, <2>1, <2>3, <3>2, WithoutIs
  <2>4. CASE SendMember([op |-> "remove", ok |-> FALSE]) /\ UNCHANGED roster
    <3>1. MemberAnswer([op |-> "remove", ok |-> FALSE])
      BY DEF MemberAnswer
    <3>2. CallsOfMembers'
      BY <1>0, <2>1, <2>4, <3>1, SendCounts
    <3> QED BY <1>0, <2>1, <2>4, <3>2
  <2> QED BY <2>2, <2>3, <2>4
<1>8. CASE MemberAnswered
  <2>1. PICK c \in memberCalls :
          /\ c.op \in {"role", "remove"} /\ Landing(c)
          /\ IF c.ok THEN rows' = AfterMember(c) /\ UNCHANGED untold
             ELSE untold' = untold + 1 /\ UNCHANGED rows
          /\ UNCHANGED <<roster, blocked, nextMember, invitee, inviting, memberSent>>
    BY <1>8 DEF MemberAnswered
  <2>2. (c \in UntoldYet <=> ~ c.ok) /\ MemberAnswer(c)
    BY <1>0, <2>1 DEF CallsOfMembers, UntoldYet
  <2>3. CallsOfMembers'
    BY <1>0, <2>1, <2>2, LandingCounts
  <2>4. CASE ~ c.ok
    BY <1>0, <2>1, <2>3, <2>4
  <2>5. CASE c.ok
    <3>1. CASE c.op = "role"
      <4>1. c.member \in Member
        BY <2>2, <2>5, <3>1 DEF MemberAnswer
      <4> QED BY <1>0, <2>1, <2>3, <2>5, <3>1, <4>1, RowsAfterRole
    <3>2. CASE c.op = "remove"
      <4>1. AfterMember(c) = Without(rows, c.id)
        BY <3>2 DEF AfterMember
      <4> QED BY <1>0, <2>1, <2>3, <2>5, <4>1, WithoutIs
    <3> QED BY <2>1, <3>1, <3>2
  <2> QED BY <2>4, <2>5
<1>9. CASE UNCHANGED membersVars
  BY <1>0, <1>9 DEF membersVars, CallsOfMembers, UntoldYet
<1> QED
  BY <1>1, <1>2, <1>3, <1>4, <1>5, <1>6, <1>7, <1>8, <1>9 DEF MembersPageNext

\* The members' page and the roster keep their shape, and no more refusals are
\* untold than calls were sent, however calls and answers are ordered.
THEOREM MembersStayTyped == MembersPageSpec => []MembersTyped
BY MembersStart, MembersStep, PTL DEF MembersPageSpec

LEMMA MembersTypeOK == MembersTyped => MembersPageTypeOK
<1> SUFFICES ASSUME MembersTyped PROVE MembersPageTypeOK
  OBVIOUS
<1>1. Cardinality(UntoldYet) \in Nat
  BY FS_Subset, FS_CardinalityType DEF MembersTyped, UntoldYet
<1>2. untold \in 0..MaxMemberCalls
  BY <1>1, BoundsOfMembers DEF MembersTyped
<1>3. \A i \in DOMAIN roster : roster[i].id \in 1..MaxMembers
  <2>1. ASSUME NEW i \in DOMAIN roster PROVE roster[i].id \in 1..MaxMembers
    <3>1. roster[i] \in Member
      BY DEF MembersTyped
    <3> QED BY <3>1 DEF Member
  <2> QED BY <2>1
<1>4. Len(invitee) <= 1
  <2>1. CASE invitee = <<>>
    BY <2>1
  <2>2. ASSUME NEW e \in Emails, invitee = <<e>> PROVE Len(invitee) <= 1
    BY <2>2
  <2> QED BY <2>1, <2>2 DEF MembersTyped
<1> QED BY <1>2, <1>3, <1>4 DEF MembersTyped, MembersPageTypeOK

-----------------------------------------------------------------------------
(* The roster, once the list has landed                                    *)

RemovedYet == {c.id : c \in {d \in memberCalls : d.op = "remove" /\ d.ok}}
InvitedYet == {c.member.id : c \in {d \in memberCalls : d.op = "invite" /\ d.ok}}

\* While the list is on its way nothing else is; afterwards the rows are the
\* roster but for the answers that are on their way.
RosterReplay ==
  IF ListLanded
  THEN /\ OneEach(rows)
       /\ IdsOf(roster) = (IdsOf(rows) \ RemovedYet) \cup InvitedYet
       /\ RemovedYet \subseteq IdsOf(rows) /\ InvitedYet \cap IdsOf(rows) = {}
  ELSE \E c : /\ memberCalls = {c} /\ c.op = "list"
              /\ OneEach(c.members) /\ IdsOf(c.members) = IdsOf(roster)

InvitesOnce ==
  /\ \A c \in memberCalls : c.op = "invite" => inviting
  /\ \A c, d \in memberCalls : c.op = "invite" /\ d.op = "invite" => c = d

IdsGiven ==
  /\ OneEach(roster) /\ \A i \in IdsOf(roster) \cup IdsOf(rows) : i < nextMember
  /\ \A c \in memberCalls : c.op = "list" => \A i \in IdsOf(c.members) : i < nextMember

RosterInv == MembersTyped /\ IdsGiven /\ InvitesOnce /\ RosterReplay

LEMMA PendingIs ==
  ASSUME NEW x
  PROVE  /\ x \in RemovedYet <=> \E c \in memberCalls : c.op = "remove" /\ c.ok /\ x = c.id
         /\ x \in InvitedYet <=> \E c \in memberCalls : c.op = "invite" /\ c.ok /\ x = c.member.id
BY DEF RemovedYet, InvitedYet

\* The answers on their way after one more call.
LEMMA PendingAfterSend ==
  ASSUME NEW c, SendMember(c)
  PROVE  /\ c.op = "remove" /\ c.ok => RemovedYet' = RemovedYet \cup {c.id}
         /\ ~ (c.op = "remove" /\ c.ok) => RemovedYet' = RemovedYet
         /\ c.op = "invite" /\ c.ok => InvitedYet' = InvitedYet \cup {c.member.id}
         /\ ~ (c.op = "invite" /\ c.ok) => InvitedYet' = InvitedYet
         /\ c.op # "list" /\ ListLanded => ListLanded'
<1>1. memberCalls' = memberCalls \cup {c}
  BY DEF SendMember
<1> QED BY <1>1 DEF RemovedYet, InvitedYet, ListLanded

LEMMA PendingAfterLanding ==
  ASSUME MembersTyped, InvitesOnce, NEW c \in memberCalls, Landing(c)
  PROVE  /\ c.op = "remove" /\ c.ok => RemovedYet' = RemovedYet \ {c.id} /\ c.id \in RemovedYet
         /\ ~ (c.op = "remove" /\ c.ok) => RemovedYet' = RemovedYet
         /\ c.op = "invite" /\ c.ok => InvitedYet' = {} /\ InvitedYet = {c.member.id}
         /\ ~ (c.op = "invite" /\ c.ok) => InvitedYet' = InvitedYet
         /\ ListLanded => ListLanded'
<1>1. memberCalls' = memberCalls \ {c}
  BY DEF Landing
<1>2. ListLanded => ListLanded'
  BY <1>1 DEF ListLanded
<1>3. ASSUME ~ (c.op = "remove" /\ c.ok) PROVE RemovedYet' = RemovedYet
  BY <1>1, <1>3 DEF RemovedYet
<1>4. ASSUME ~ (c.op = "invite" /\ c.ok) PROVE InvitedYet' = InvitedYet
  BY <1>1, <1>4 DEF InvitedYet
<1>5. ASSUME c.op = "invite", c.ok PROVE InvitedYet' = {} /\ InvitedYet = {c.member.id}
  <2>1. \A d \in memberCalls : d.op = "invite" => d = c
    BY <1>5 DEF InvitesOnce
  <2> QED BY <1>1, <1>5, <2>1 DEF InvitedYet
<1>6. ASSUME c.op = "remove", c.ok PROVE RemovedYet' = RemovedYet \ {c.id} /\ c.id \in RemovedYet
  <2>1. \A d \in memberCalls : d.op = "remove" /\ d.ok => d = [op |-> "remove", ok |-> TRUE, id |-> d.id]
    BY DEF MembersTyped, MemberAnswer
  <2>2. \A d \in memberCalls : d.op = "remove" /\ d.ok /\ d.id = c.id => d = c
    BY <1>6, <2>1
  <2>3. \A x : x \in RemovedYet <=> \E d \in memberCalls : d.op = "remove" /\ d.ok /\ x = d.id
    BY PendingIs
  <2>4. \A x : x \in RemovedYet' <=> \E d \in memberCalls' : d.op = "remove" /\ d.ok /\ x = d.id
    BY DEF RemovedYet
  <2> QED BY <1>1, <1>6, <2>2, <2>3, <2>4
<1> QED BY <1>2, <1>3, <1>4, <1>5, <1>6

LEMMA RosterStarts == MembersPageInit => RosterInv
<1> SUFFICES ASSUME MembersPageInit PROVE RosterInv
  OBVIOUS
<1>1. MembersTyped
  BY MembersStart
<1>2. roster = <<Founder>> /\ rows = <<>> /\ nextMember = 2 /\ memberCalls = {MembersAnswer}
  BY DEF MembersPageInit
<1>3. MembersAnswer.op = "list" /\ MembersAnswer.members = roster
  BY DEF MembersAnswer
<1>4. IdsOf(roster) = {1} /\ OneEach(roster) /\ IdsOf(rows) = {}
  <2>1. Founder.id = 1
    BY DEF Founder
  <2>2. DOMAIN roster = {1} /\ roster[1] = Founder /\ DOMAIN rows = {}
    BY <1>2
  <2> QED BY <2>1, <2>2 DEF IdsOf, OneEach
<1>5. IdsGiven /\ InvitesOnce
  BY <1>2, <1>3, <1>4 DEF IdsGiven, InvitesOnce
<1>6. ~ ListLanded
  BY <1>2, <1>3 DEF ListLanded
<1>7. RosterReplay
  BY <1>2, <1>3, <1>4, <1>6 DEF RosterReplay
<1> QED BY <1>1, <1>5, <1>7 DEF RosterInv

\* A roster whose members keep their ids, while no answer comes or goes.
LEMMA RosterSameIds ==
  ASSUME RosterInv, IdsOf(roster') = IdsOf(roster), OneEach(roster)',
         UNCHANGED <<rows, nextMember, memberCalls, inviting>>
  PROVE  IdsGiven' /\ InvitesOnce' /\ RosterReplay'
<1>1. UNCHANGED <<RemovedYet, InvitedYet, ListLanded>>
  BY DEF RemovedYet, InvitedYet, ListLanded
<1>2. IdsOf(roster)' = IdsOf(roster) /\ IdsOf(rows)' = IdsOf(rows)
  BY DEF IdsOf
<1>3. IdsGiven' /\ InvitesOnce'
  BY <1>2 DEF RosterInv, IdsGiven, InvitesOnce
<1>4. CASE ListLanded
  BY <1>1, <1>2, <1>3, <1>4 DEF RosterInv, RosterReplay, OneEach
<1>5. CASE ~ ListLanded
  <2>1. PICK c : /\ memberCalls = {c} /\ c.op = "list"
                 /\ OneEach(c.members) /\ IdsOf(c.members) = IdsOf(roster)
    BY <1>5 DEF RosterInv, RosterReplay
  <2>2. IdsOf(c.members)' = IdsOf(c.members)
    BY DEF IdsOf
  <2>3. \E d : /\ memberCalls' = {d} /\ d.op = "list"
               /\ OneEach(d.members) /\ IdsOf(d.members) = IdsOf(roster)'
    BY <1>2, <2>1
  <2>4. RosterReplay'
    BY <1>1, <1>5, <2>3 DEF RosterReplay, OneEach, IdsOf
  <2> QED BY <1>3, <2>4
<1> QED BY <1>3, <1>4, <1>5

LEMMA RosterNext ==
  ASSUME EarlyClicks = FALSE, RosterInv, [MembersPageNext]_membersVars
  PROVE  RosterInv'
<1>0. MembersTyped /\ MembersTyped' /\ IdsGiven /\ InvitesOnce /\ RosterReplay
  BY MembersStep DEF RosterInv
<1>a. roster \in Seq(Member) /\ rows \in Seq(Member) /\ nextMember \in Nat
  BY <1>0, BoundsOfMembers DEF MembersTyped
<1> SUFFICES IdsGiven' /\ InvitesOnce' /\ RosterReplay'
  BY <1>0 DEF RosterInv
<1>1. CASE FirstSignIn
  <2>1. IdsOf(roster') = IdsOf(roster) /\ OneEach(roster')
    BY <1>0, <1>1, <1>a, SignedIn, SameIds DEF IdsGiven
  <2>2. OneEach(roster)' <=> OneEach(roster')
    BY DEF OneEach
  <2>3. UNCHANGED <<rows, nextMember, memberCalls, inviting>>
    BY <1>1 DEF FirstSignIn
  <2> QED BY <2>1, <2>2, <2>3, RosterSameIds
<1>2. CASE PurgeScheduled \/ TypeInvitee \/ UNCHANGED membersVars
  <2>1. UNCHANGED <<roster, rows, nextMember, memberCalls, inviting>>
    BY <1>2 DEF PurgeScheduled, TypeInvitee, membersVars
  <2>2. IdsOf(roster') = IdsOf(roster) /\ OneEach(roster)'
    BY <1>0, <2>1 DEF IdsGiven, OneEach
  <2> QED BY <2>1, <2>2, RosterSameIds
<1>3. CASE MembersLoad
  <2>1. PICK c \in memberCalls : /\ c.op = "list" /\ Landing(c) /\ rows' = c.members
                                 /\ UNCHANGED <<roster, nextMember, inviting>>
    BY <1>3 DEF MembersLoad
  <2>2. ~ ListLanded
    BY <2>1 DEF ListLanded
  <2>3. PICK d : /\ memberCalls = {d} /\ d.op = "list"
                 /\ OneEach(d.members) /\ IdsOf(d.members) = IdsOf(roster)
    BY <1>0, <2>2 DEF RosterReplay
  <2>4. memberCalls' = {} /\ rows' = d.members
    BY <2>1, <2>3 DEF Landing
  <2>5. ListLanded' /\ RemovedYet' = {} /\ InvitedYet' = {}
    BY <2>4 DEF ListLanded, RemovedYet, InvitedYet
  <2>6. IdsOf(rows)' = IdsOf(roster) /\ IdsOf(roster)' = IdsOf(roster) /\ OneEach(rows)'
    BY <2>1, <2>3, <2>4 DEF IdsOf, OneEach
  <2>7. RosterReplay'
    BY <2>5, <2>6 DEF RosterReplay
  <2>8. IdsGiven' /\ InvitesOnce'
    <3>1. OneEach(roster)'
      BY <1>0, <2>1 DEF IdsGiven, OneEach
    <3> QED BY <1>0, <2>1, <2>4, <2>6, <3>1 DEF IdsGiven, InvitesOnce
  <2> QED BY <2>7, <2>8
\* Nothing is sent before the list has landed.
<1>b. ASSUME CanSend, UNCHANGED rows
      PROVE  ListLanded /\ IdsOf(rows)' = IdsOf(rows) /\ (OneEach(rows) => OneEach(rows)')
  <2>1. ListLanded
    BY <1>b DEF CanSend
  <2> QED BY <1>b, <2>1 DEF IdsOf, OneEach
<1>4. CASE Invite
  <2>1. CanSend /\ ~ inviting /\ inviting' = TRUE /\ UNCHANGED rows
    BY <1>4 DEF Invite
  <2>2. PICK m :
          \/ SendMember([op |-> "invite", ok |-> FALSE]) /\ UNCHANGED <<roster, nextMember>>
          \/ /\ m.id = nextMember /\ roster' = Append(roster, m) /\ nextMember' = nextMember + 1
             /\ SendMember([op |-> "invite", ok |-> TRUE, member |-> m])
    <3>1. PICK role \in {"admin", "member"} :
            IF RefusesInvite(invitee[1])
            THEN SendMember([op |-> "invite", ok |-> FALSE]) /\ UNCHANGED <<roster, nextMember>>
            ELSE /\ roster' = Append(roster, Invited(invitee[1], role))
                 /\ nextMember' = nextMember + 1
                 /\ SendMember([op |-> "invite", ok |-> TRUE, member |-> Invited(invitee[1], role)])
      BY <1>4 DEF Invite
    <3>2. Invited(invitee[1], role).id = nextMember
      BY DEF Invited
    <3> QED BY <3>1, <3>2
  <2>3. \A c \in memberCalls : c.op # "invite" /\ c.op # "list"
    BY <1>0, <1>b, <2>1 DEF InvitesOnce, ListLanded
  <2>4. InvitesOnce' /\ ListLanded /\ ListLanded'
    <3>1. \E c : c.op = "invite" /\ memberCalls' = memberCalls \cup {c}
      <4>1. \A x : [op |-> "invite", ok |-> TRUE, member |-> x].op = "invite"
        OBVIOUS
      <4>2. [op |-> "invite", ok |-> FALSE].op = "invite"
        OBVIOUS
      <4> QED BY <2>2, <4>1, <4>2 DEF SendMember
    <3> QED BY <1>b, <2>1, <2>3, <3>1 DEF InvitesOnce, ListLanded
  <2>5. CASE SendMember([op |-> "invite", ok |-> FALSE]) /\ UNCHANGED <<roster, nextMember>>
    <3>1. RemovedYet' = RemovedYet /\ InvitedYet' = InvitedYet
      BY <2>5, PendingAfterSend
    <3>2. IdsOf(roster)' = IdsOf(roster) /\ (OneEach(roster) => OneEach(roster)')
      BY <2>5 DEF IdsOf, OneEach
    <3>3. RosterReplay'
      BY <1>0, <1>b, <2>1, <2>4, <3>1, <3>2 DEF RosterReplay
    <3>4. IdsGiven'
      BY <1>0, <1>b, <2>1, <2>4, <2>5, <3>2 DEF IdsGiven, ListLanded
    <3> QED BY <2>4, <3>3, <3>4
  <2>6. CASE /\ m.id = nextMember /\ roster' = Append(roster, m) /\ nextMember' = nextMember + 1
             /\ SendMember([op |-> "invite", ok |-> TRUE, member |-> m])
    <3>1. RemovedYet' = RemovedYet /\ InvitedYet' = InvitedYet \cup {m.id}
      <4>1. PICK c : c = [op |-> "invite", ok |-> TRUE, member |-> m]
        OBVIOUS
      <4>2. c.op = "invite" /\ c.ok /\ c.member = m /\ SendMember(c)
        BY <2>6, <4>1
      <4> QED BY <4>2, PendingAfterSend
    <3>2. nextMember \notin IdsOf(roster) /\ nextMember \notin IdsOf(rows)
      BY <1>0, <1>a DEF IdsGiven
    <3>3. m \in Member
      <4>1. MemberAnswer([op |-> "invite", ok |-> TRUE, member |-> m])
        BY <1>0, <2>6 DEF MembersTyped, SendMember
      <4> QED BY <4>1 DEF MemberAnswer
    <3>4. IdsOf(roster)' = IdsOf(roster) \cup {nextMember} /\ OneEach(roster)'
      <4>1. IdsOf(roster') = IdsOf(roster) \cup {nextMember} /\ OneEach(roster')
        BY <1>0, <1>a, <2>6, <3>2, <3>3, AppendIs DEF IdsGiven
      <4> QED BY <4>1 DEF IdsOf, OneEach
    <3>5. RosterReplay'
      <4>1. /\ IdsOf(roster) = (IdsOf(rows) \ RemovedYet) \cup InvitedYet
            /\ RemovedYet \subseteq IdsOf(rows) /\ InvitedYet \cap IdsOf(rows) = {}
            /\ OneEach(rows)
        BY <1>0, <2>4 DEF RosterReplay
      <4>2. IdsOf(roster)' = (IdsOf(rows) \ RemovedYet') \cup InvitedYet'
            /\ RemovedYet' \subseteq IdsOf(rows) /\ InvitedYet' \cap IdsOf(rows) = {}
        BY <2>6, <3>1, <3>2, <3>4, <4>1
      <4> QED BY <1>b, <2>1, <2>4, <4>1, <4>2 DEF RosterReplay
    <3>6. \A i \in IdsOf(roster)' \cup IdsOf(rows)' : i < nextMember'
      <4>1. \A i \in IdsOf(roster) \cup IdsOf(rows) : i \in Nat /\ i < nextMember
        <5>1. \A i \in IdsOf(roster) \cup IdsOf(rows) : i \in Nat
          <6>1. ASSUME NEW i \in DOMAIN roster PROVE roster[i].id \in Nat
            <7>1. roster[i] \in Member
              BY <1>a
            <7> QED BY <7>1, BoundsOfMembers DEF Member
          <6>2. ASSUME NEW i \in DOMAIN rows PROVE rows[i].id \in Nat
            <7>1. rows[i] \in Member
              BY <1>a
            <7> QED BY <7>1, BoundsOfMembers DEF Member
          <6> QED BY <6>1, <6>2 DEF IdsOf
        <5> QED BY <1>0, <5>1 DEF IdsGiven
      <4> QED BY <1>a, <1>b, <2>1, <2>6, <3>4, <4>1
    <3>7. IdsGiven'
      BY <2>4, <3>4, <3>6 DEF IdsGiven, ListLanded
    <3> QED BY <2>4, <3>5, <3>7
  <2> QED BY <2>2, <2>5, <2>6
<1>5. CASE InviteAnswered
  <2>1. PICK c \in memberCalls :
          /\ c.op = "invite" /\ Landing(c) /\ inviting' = FALSE
          /\ rows' = IF c.ok THEN AfterInvite(c) ELSE rows
          /\ UNCHANGED <<roster, nextMember>>
    BY <1>5 DEF InviteAnswered
  <2>2. ListLanded /\ ListLanded'
    <3>1. ListLanded
      <4>1. ASSUME ~ ListLanded PROVE FALSE
        <5>1. PICK d : memberCalls = {d} /\ d.op = "list"
          BY <1>0, <4>1 DEF RosterReplay
        <5> QED BY <2>1, <5>1
      <4> QED BY <4>1
    <3> QED BY <1>0, <2>1, <3>1, PendingAfterLanding
  <2>3. InvitesOnce'
    BY <1>0, <2>1 DEF InvitesOnce, Landing
  <2>4. IdsOf(roster)' = IdsOf(roster) /\ OneEach(roster)'
    BY <1>0, <2>1 DEF IdsOf, OneEach, IdsGiven
  <2>5. RemovedYet' = RemovedYet
    BY <1>0, <2>1, PendingAfterLanding
  <2>6. /\ IdsOf(roster) = (IdsOf(rows) \ RemovedYet) \cup InvitedYet
        /\ RemovedYet \subseteq IdsOf(rows) /\ InvitedYet \cap IdsOf(rows) = {}
        /\ OneEach(rows)
    BY <1>0, <2>2 DEF RosterReplay
  <2>7. /\ OneEach(rows)' /\ IdsOf(roster) = (IdsOf(rows)' \ RemovedYet') \cup InvitedYet'
        /\ RemovedYet' \subseteq IdsOf(rows)' /\ InvitedYet' \cap IdsOf(rows)' = {}
        /\ IdsOf(rows)' \subseteq IdsOf(rows) \cup IdsOf(roster)
    <3>1. CASE ~ c.ok
      <4>1. InvitedYet' = InvitedYet /\ rows' = rows
        BY <1>0, <2>1, <3>1, PendingAfterLanding
      <4>2. IdsOf(rows)' = IdsOf(rows) /\ OneEach(rows)'
        BY <2>6, <4>1 DEF IdsOf, OneEach
      <4> QED BY <2>5, <2>6, <4>1, <4>2
    <3>2. CASE c.ok
      <4>1. InvitedYet' = {} /\ InvitedYet = {c.member.id}
        BY <1>0, <2>1, <3>2, PendingAfterLanding
      <4>2. c.member \in Member /\ rows' = Append(rows, c.member)
        BY <1>0, <2>1, <3>2 DEF MembersTyped, MemberAnswer, AfterInvite
      <4>3. c.member.id \notin IdsOf(rows)
        BY <2>6, <4>1
      <4>4. IdsOf(rows') = IdsOf(rows) \cup {c.member.id} /\ OneEach(rows')
        BY <1>a, <2>6, <4>2, <4>3, AppendIs
      <4>5. IdsOf(rows)' = IdsOf(rows) \cup {c.member.id} /\ OneEach(rows)'
        BY <4>4 DEF IdsOf, OneEach
      <4> QED BY <2>5, <2>6, <4>1, <4>3, <4>5
    <3> QED BY <3>1, <3>2
  <2>8. RosterReplay'
    BY <2>2, <2>4, <2>7 DEF RosterReplay
  <2>9. IdsGiven'
    BY <1>0, <2>1, <2>2, <2>4, <2>7 DEF IdsGiven, ListLanded
  <2> QED BY <2>3, <2>8, <2>9
\* A call of the other two kinds.
<1>c. ASSUME NEW c, c.op \in {"role", "remove"}, SendMember(c), CanSend, UNCHANGED <<rows, inviting, nextMember>>
      PROVE  /\ InvitesOnce' /\ ListLanded /\ ListLanded'
             /\ OneEach(rows) /\ OneEach(rows)' /\ IdsOf(rows)' = IdsOf(rows)
             /\ IdsOf(roster) = (IdsOf(rows) \ RemovedYet) \cup InvitedYet
             /\ RemovedYet \subseteq IdsOf(rows) /\ InvitedYet \cap IdsOf(rows) = {}
             /\ InvitedYet' = InvitedYet
             /\ RemovedYet' = IF c.op = "remove" /\ c.ok THEN RemovedYet \cup {c.id} ELSE RemovedYet
             /\ OneEach(roster)' /\ IdsOf(roster)' \subseteq IdsOf(roster) => IdsGiven'
  <2>1. ListLanded /\ ListLanded'
    BY <1>b, <1>c, PendingAfterSend
  <2>2. InvitesOnce'
    BY <1>0, <1>c DEF InvitesOnce, SendMember
  <2>3. InvitedYet' = InvitedYet
        /\ RemovedYet' = IF c.op = "remove" /\ c.ok THEN RemovedYet \cup {c.id} ELSE RemovedYet
    BY <1>c, PendingAfterSend
  <2>4. OneEach(roster)' /\ IdsOf(roster)' \subseteq IdsOf(roster) => IdsGiven'
    BY <1>0, <1>b, <1>c, <2>1 DEF IdsGiven, ListLanded
  <2> QED BY <1>0, <1>b, <1>c, <2>1, <2>2, <2>3, <2>4 DEF RosterReplay
<1>6. CASE SetRole
  <2>1. CanSend /\ UNCHANGED <<nextMember, rows, inviting>>
    BY <1>6 DEF SetRole
  <2>2. PICK r \in DOMAIN rows : \E role \in {"admin", "member"} \ {rows[r].role} :
         LET allowed == {i \in Indices(rows[r].id) : CanSetRole(i, role)}
         IN IF allowed = {}
            THEN SendMember([op |-> "role", ok |-> FALSE]) /\ UNCHANGED roster
            ELSE \E i \in allowed :
                   /\ roster' = WithRole(i, role)
                   /\ SendMember([op |-> "role", ok |-> TRUE, member |-> roster'[i]])
    BY <1>6 DEF SetRole
  <2>3. \E c : c.op = "role" /\ SendMember(c)
               /\ (UNCHANGED roster \/ \E i \in DOMAIN roster, role \in {"admin", "member"} :
                                         roster' = WithRole(i, role))
    <3>1. \A x : [op |-> "role", ok |-> TRUE, member |-> x].op = "role"
      OBVIOUS
    <3>2. [op |-> "role", ok |-> FALSE].op = "role"
      OBVIOUS
    <3>3. \A id : Indices(id) \subseteq DOMAIN roster
      BY DEF Indices
    <3>4. CASE SendMember([op |-> "role", ok |-> FALSE]) /\ UNCHANGED roster
      BY <3>2, <3>4
    <3>5. ASSUME NEW i \in DOMAIN roster, NEW role \in {"admin", "member"},
                 roster' = WithRole(i, role),
                 SendMember([op |-> "role", ok |-> TRUE, member |-> roster'[i]])
          PROVE  \E c : c.op = "role" /\ SendMember(c)
                        /\ (UNCHANGED roster \/ \E j \in DOMAIN roster, role2 \in {"admin", "member"} :
                                                  roster' = WithRole(j, role2))
      BY <3>1, <3>5
    <3> QED BY <2>2, <3>3, <3>4, <3>5
  <2>4. PICK c : c.op = "role" /\ SendMember(c)
               /\ (UNCHANGED roster \/ \E i \in DOMAIN roster, role \in {"admin", "member"} :
                                         roster' = WithRole(i, role))
    BY <2>3
  <2>5. IdsOf(roster') = IdsOf(roster) /\ OneEach(roster')
    <3>1. CASE UNCHANGED roster
      BY <1>0, <3>1 DEF IdsGiven
    <3>2. ASSUME NEW i \in DOMAIN roster, NEW role \in {"admin", "member"}, roster' = WithRole(i, role)
          PROVE  IdsOf(roster') = IdsOf(roster) /\ OneEach(roster')
      <4>1. DOMAIN roster' = DOMAIN roster /\ \A j \in DOMAIN roster : roster'[j].id = roster[j].id
        BY <1>a, <3>2, RosterWithRole
      <4> QED BY <1>0, <4>1, SameIds DEF IdsGiven
    <3> QED BY <2>4, <3>1, <3>2
  <2>6. IdsOf(roster)' = IdsOf(roster) /\ OneEach(roster)'
    BY <2>5 DEF IdsOf, OneEach
  <2>7. /\ InvitesOnce' /\ ListLanded' /\ OneEach(rows)' /\ IdsOf(rows)' = IdsOf(rows)
        /\ IdsOf(roster) = (IdsOf(rows) \ RemovedYet) \cup InvitedYet
        /\ RemovedYet \subseteq IdsOf(rows) /\ InvitedYet \cap IdsOf(rows) = {}
        /\ InvitedYet' = InvitedYet /\ RemovedYet' = RemovedYet /\ IdsGiven'
    BY <1>c, <2>1, <2>4, <2>6
  <2>8. RosterReplay'
    BY <2>6, <2>7 DEF RosterReplay
  <2> QED BY <2>7, <2>8
<1>7. CASE RemoveMember
  <2>1. CanSend /\ UNCHANGED <<nextMember, rows, inviting>>
    BY <1>7 DEF RemoveMember
  <2>2. PICK r \in DOMAIN rows :
          IF \E i \in Indices(rows[r].id) : CanRemove(i)
          THEN /\ roster' = Without(roster, rows[r].id)
               /\ SendMember([op |-> "remove", ok |-> TRUE, id |-> rows[r].id])
          ELSE SendMember([op |-> "remove", ok |-> FALSE]) /\ UNCHANGED roster
    BY <1>7 DEF RemoveMember
  <2>3. CASE \E i \in Indices(rows[r].id) : CanRemove(i)
    <3>1. PICK id : id = rows[r].id
      OBVIOUS
    <3>2. id \in IdsOf(rows)
      BY <3>1 DEF IdsOf
    <3>3. PICK c : c = [op |-> "remove", ok |-> TRUE, id |-> id]
      OBVIOUS
    <3>4. c.op = "remove" /\ c.ok /\ c.id = id /\ SendMember(c) /\ roster' = Without(roster, id)
      BY <2>2, <2>3, <3>1, <3>3
    <3>5. IdsOf(roster') = IdsOf(roster) \ {id} /\ OneEach(roster')
      BY <1>0, <1>a, <3>4, WithoutIs DEF IdsGiven
    <3>6. IdsOf(roster)' = IdsOf(roster) \ {id} /\ OneEach(roster)'
      BY <3>5 DEF IdsOf, OneEach
    <3>7. /\ InvitesOnce' /\ ListLanded' /\ OneEach(rows)' /\ IdsOf(rows)' = IdsOf(rows)
          /\ IdsOf(roster) = (IdsOf(rows) \ RemovedYet) \cup InvitedYet
          /\ RemovedYet \subseteq IdsOf(rows) /\ InvitedYet \cap IdsOf(rows) = {}
          /\ InvitedYet' = InvitedYet /\ RemovedYet' = RemovedYet \cup {id}
          /\ (OneEach(roster)' /\ IdsOf(roster)' \subseteq IdsOf(roster) => IdsGiven')
      BY <1>c, <2>1, <3>4
    <3>8. IdsGiven'
      BY <3>6, <3>7
    <3>9. /\ IdsOf(roster)' = (IdsOf(rows)' \ RemovedYet') \cup InvitedYet'
          /\ RemovedYet' \subseteq IdsOf(rows)' /\ InvitedYet' \cap IdsOf(rows)' = {}
      BY <3>2, <3>6, <3>7
    <3>10. RosterReplay'
      BY <3>7, <3>9 DEF RosterReplay
    <3> QED BY <3>7, <3>8, <3>10
  <2>4. CASE ~ \E i \in Indices(rows[r].id) : CanRemove(i)
    <3>3. PICK c : c = [op |-> "remove", ok |-> FALSE]
      OBVIOUS
    <3>4. c.op = "remove" /\ ~ c.ok /\ SendMember(c) /\ roster' = roster
      BY <2>2, <2>4, <3>3
    <3>6. IdsOf(roster)' = IdsOf(roster) /\ OneEach(roster)'
      BY <1>0, <3>4 DEF IdsOf, OneEach, IdsGiven
    <3>7. /\ InvitesOnce' /\ ListLanded' /\ OneEach(rows)' /\ IdsOf(rows)' = IdsOf(rows)
          /\ IdsOf(roster) = (IdsOf(rows) \ RemovedYet) \cup InvitedYet
          /\ RemovedYet \subseteq IdsOf(rows) /\ InvitedYet \cap IdsOf(rows) = {}
          /\ InvitedYet' = InvitedYet /\ RemovedYet' = RemovedYet /\ IdsGiven'
      BY <1>c, <2>1, <3>4, <3>6
    <3>10. RosterReplay'
      BY <3>6, <3>7 DEF RosterReplay
    <3> QED BY <3>7, <3>10
  <2> QED BY <2>3, <2>4
<1>8. CASE MemberAnswered
  <2>1. PICK c \in memberCalls :
          /\ c.op \in {"role", "remove"} /\ Landing(c)
          /\ rows' = IF c.ok THEN AfterMember(c) ELSE rows
          /\ UNCHANGED <<roster, nextMember, inviting>>
    BY <1>8 DEF MemberAnswered
  <2>2. ListLanded
    <3>1. ASSUME ~ ListLanded PROVE FALSE
      <4>1. PICK d : memberCalls = {d} /\ d.op = "list"
        BY <1>0, <3>1 DEF RosterReplay
      <4> QED BY <2>1, <4>1
    <3> QED BY <3>1
  <2>3. ListLanded' /\ InvitedYet' = InvitedYet
    BY <1>0, <2>1, <2>2, PendingAfterLanding
  <2>4. InvitesOnce'
    BY <1>0, <2>1 DEF InvitesOnce, Landing
  <2>5. IdsOf(roster)' = IdsOf(roster) /\ OneEach(roster)'
    BY <1>0, <2>1 DEF IdsOf, OneEach, IdsGiven
  <2>6. /\ IdsOf(roster) = (IdsOf(rows) \ RemovedYet) \cup InvitedYet
        /\ RemovedYet \subseteq IdsOf(rows) /\ InvitedYet \cap IdsOf(rows) = {}
        /\ OneEach(rows)
    BY <1>0, <2>2 DEF RosterReplay
  <2>7. /\ OneEach(rows)' /\ IdsOf(roster) = (IdsOf(rows)' \ RemovedYet') \cup InvitedYet
        /\ RemovedYet' \subseteq IdsOf(rows)' /\ InvitedYet \cap IdsOf(rows)' = {}
        /\ IdsOf(rows)' \subseteq IdsOf(rows)
    <3>1. CASE ~ c.ok
      <4>1. RemovedYet' = RemovedYet /\ rows' = rows
        BY <1>0, <2>1, <3>1, PendingAfterLanding
      <4>2. IdsOf(rows)' = IdsOf(rows) /\ OneEach(rows)'
        BY <2>6, <4>1 DEF IdsOf, OneEach
      <4> QED BY <2>6, <4>1, <4>2
    <3>2. CASE c.ok /\ c.op = "role"
      <4>1. RemovedYet' = RemovedYet /\ rows' = AfterMember(c)
        BY <1>0, <2>1, <3>2, PendingAfterLanding
      <4>2. c.member \in Member
        BY <1>0, <3>2 DEF MembersTyped, MemberAnswer
      <4>3. DOMAIN rows' = DOMAIN rows /\ \A j \in DOMAIN rows : rows'[j].id = rows[j].id
        BY <1>a, <3>2, <4>1, <4>2, RowsAfterRole
      <4>4. IdsOf(rows') = IdsOf(rows) /\ OneEach(rows')
        BY <2>6, <4>3, SameIds
      <4>5. IdsOf(rows)' = IdsOf(rows) /\ OneEach(rows)'
        BY <4>4 DEF IdsOf, OneEach
      <4> QED BY <2>6, <4>1, <4>5
    <3>3. CASE c.ok /\ c.op = "remove"
      <4>1. RemovedYet' = RemovedYet \ {c.id} /\ c.id \in RemovedYet /\ rows' = AfterMember(c)
        BY <1>0, <2>1, <3>3, PendingAfterLanding
      <4>2. rows' = Without(rows, c.id)
        BY <3>3, <4>1 DEF AfterMember
      <4>4. IdsOf(rows') = IdsOf(rows) \ {c.id} /\ OneEach(rows')
        BY <1>a, <2>6, <4>2, WithoutIs
      <4>5. IdsOf(rows)' = IdsOf(rows) \ {c.id} /\ OneEach(rows)'
        BY <4>4 DEF IdsOf, OneEach
      <4> QED BY <2>6, <4>1, <4>5
    <3> QED BY <2>1, <3>1, <3>2, <3>3
  <2>8. RosterReplay'
    BY <2>3, <2>5, <2>7 DEF RosterReplay
  <2>9. IdsGiven'
    BY <1>0, <2>1, <2>3, <2>5, <2>7 DEF IdsGiven, ListLanded
  <2> QED BY <2>4, <2>8, <2>9
<1> QED
  BY <1>1, <1>2, <1>3, <1>4, <1>5, <1>6, <1>7, <1>8 DEF MembersPageNext

\* A list with each id once has as many members as ids.
LEMMA CountOfEach ==
  ASSUME NEW list \in Seq(Member), OneEach(list)
  PROVE  Len(list) = Cardinality(IdsOf(list))
<1> DEFINE D == 1..Len(list)
           f == [i \in D |-> list[i].id]
<1>1. Len(list) \in Nat /\ DOMAIN list = D
  OBVIOUS
<1>2. IsFiniteSet(D) /\ Cardinality(D) = Len(list)
  BY <1>1, FS_Interval
<1> HIDE DEF D
<1>3. \A x \in IdsOf(list) : \E i \in D : f[i] = x
  BY <1>1 DEF IdsOf
<1>4. f \in [D -> IdsOf(list)] /\ \A i, j \in D : f[i] = f[j] => i = j
  BY <1>1 DEF IdsOf, OneEach
<1>5. f \in Bijection(D, IdsOf(list))
  BY <1>3, <1>4 DEF Bijection, Injection, Surjection, IsInjective
<1>6. ExistsBijection(D, IdsOf(list))
  BY <1>5 DEF ExistsBijection
<1>7. Cardinality(IdsOf(list)) = Cardinality(D)
  BY <1>2, <1>6, FS_Bijection
<1> QED BY <1>2, <1>7

LEMMA RosterSays == RosterInv => RosterIsTrue
<1> SUFFICES ASSUME RosterInv, memberCalls = {}
             PROVE  IdsOf(rows) = IdsOf(roster) /\ Len(rows) = Cardinality(IdsOf(rows))
  BY DEF RosterIsTrue
<1>1. ListLanded /\ RemovedYet = {} /\ InvitedYet = {}
  BY DEF ListLanded, RemovedYet, InvitedYet
<1>2. IdsOf(rows) = IdsOf(roster) /\ OneEach(rows) /\ rows \in Seq(Member)
  BY <1>1 DEF RosterInv, RosterReplay, MembersTyped
<1> QED BY <1>2, CountOfEach

\* Once answered, the page lists every member there is, once, and nobody who was
\* removed, in whatever order the answers came, if the page is used only after
\* its list has landed (use-settings.ts:54-76).
THEOREM RosterShown ==
  ASSUME EarlyClicks = FALSE
  PROVE  MembersPageSpec => []RosterIsTrue
<1>1. RosterInv /\ [MembersPageNext]_membersVars => RosterInv'
  BY RosterNext
<1> QED BY <1>1, RosterStarts, RosterSays, PTL DEF MembersPageSpec

-----------------------------------------------------------------------------
(* A list with one more in front                                           *)

LEMMA CountsDiffer ==
  ASSUME NEW K, K \subseteq Nat, IsFiniteSet(K), NEW i \in K, NEW j \in K, i < j
  PROVE  CountUpTo(K, i) < CountUpTo(K, j)
<1> DEFINE low == {k \in K : k <= i}
           high == {k \in K : k <= j}
<1>1. i \in Nat /\ j \in Nat /\ \A k \in K : k \in Nat
  OBVIOUS
<1>2. low \cup {j} \subseteq high /\ j \notin low
  <2>1. (\A k \in K : k <= i => k <= j) /\ j <= j /\ ~ (j <= i)
    BY <1>1
  <2> QED BY <2>1
<1>3. IsFiniteSet(low) /\ IsFiniteSet(high) /\ Cardinality(low) \in Nat /\ Cardinality(high) \in Nat
  BY FS_Subset, FS_CardinalityType
<1> HIDE DEF low, high
<1>4. Cardinality(low \cup {j}) = Cardinality(low) + 1 /\ IsFiniteSet(low \cup {j})
  BY <1>2, <1>3, FS_AddElement
<1>5. Cardinality(low \cup {j}) <= Cardinality(high)
  BY <1>2, <1>3, FS_Subset
<1>6. Cardinality(low) < Cardinality(high)
  BY <1>3, <1>4, <1>5
<1> QED BY <1>6 DEF CountUpTo, low, high

LEMMA CountsDecide ==
  ASSUME NEW K, K \subseteq Nat, IsFiniteSet(K), NEW i \in K, NEW j \in K,
         CountUpTo(K, i) = CountUpTo(K, j)
  PROVE  i = j
<1>1. i \in Nat /\ j \in Nat
  OBVIOUS
<1>2. \A k \in K : CountUpTo(K, k) \in Nat
  BY FS_Subset, FS_CardinalityType DEF CountUpTo
<1>3. ~ (CountUpTo(K, i) < CountUpTo(K, j)) /\ ~ (CountUpTo(K, j) < CountUpTo(K, i))
  BY <1>2
<1>4. ~ (i < j) /\ ~ (j < i)
  BY <1>3, CountsDiffer
<1> QED BY <1>1, <1>4

LEMMA CountShifts ==
  ASSUME NEW K, K \subseteq Nat \ {0}, IsFiniteSet(K)
  PROVE  LET more == {1} \cup {k + 1 : k \in K}
         IN /\ more \subseteq Nat /\ IsFiniteSet(more) /\ Cardinality(more) = Cardinality(K) + 1
            /\ CountUpTo(more, 1) = 1
            /\ \A i \in K : CountUpTo(more, i + 1) = CountUpTo(K, i) + 1
<1> DEFINE moved(U) == {k + 1 : k \in U}
           more == {1} \cup moved(K)
<1>1. ASSUME NEW U, U \subseteq K
      PROVE  /\ IsFiniteSet(moved(U)) /\ 1 \notin moved(U)
             /\ IsFiniteSet({1} \cup moved(U)) /\ Cardinality(U) \in Nat
             /\ Cardinality({1} \cup moved(U)) = Cardinality(U) + 1
  <2> DEFINE f == [k \in U |-> k + 1]
  <2>1. IsFiniteSet(U) /\ \A k \in U : k \in Nat \ {0}
    BY <1>1, FS_Subset
  <2>2. f \in [U -> moved(U)] /\ (\A i, j \in U : f[i] = f[j] => i = j)
        /\ \A x \in moved(U) : \E k \in U : f[k] = x
    BY <2>1
  <2>3. f \in Bijection(U, moved(U))
    <3> HIDE DEF f, moved
    <3> QED BY <2>2 DEF Bijection, Injection, Surjection, IsInjective
  <2>4. ExistsBijection(U, moved(U))
    BY <2>3 DEF ExistsBijection
  <2>5. IsFiniteSet(moved(U)) /\ Cardinality(moved(U)) = Cardinality(U) /\ Cardinality(U) \in Nat
    BY <2>1, <2>4, FS_Bijection, FS_CardinalityType
  <2>6. 1 \notin moved(U)
    BY <2>1
  <2> HIDE DEF moved
  <2>7. IsFiniteSet(moved(U) \cup {1}) /\ Cardinality(moved(U) \cup {1}) = Cardinality(U) + 1
    BY <2>5, <2>6, FS_AddElement
  <2>8. moved(U) \cup {1} = {1} \cup moved(U)
    OBVIOUS
  <2> QED BY <2>5, <2>6, <2>7, <2>8
<1>2. more \subseteq Nat
  OBVIOUS
<1>3. {j \in more : j <= 1} = {1}
  OBVIOUS
<1>4. ASSUME NEW i \in K PROVE {j \in more : j <= i + 1} = {1} \cup moved({k \in K : k <= i})
  <2>1. i \in Nat \ {0} /\ \A k \in K : k \in Nat \ {0}
    OBVIOUS
  <2>2. \A k \in K : k + 1 <= i + 1 <=> k <= i
    BY <2>1
  <2>3. 1 <= i + 1
    BY <2>1
  <2> QED BY <2>2, <2>3
<1>5. Cardinality({1}) = 1
  BY FS_Singleton
<1>6. \A i \in K : CountUpTo(more, i + 1) = CountUpTo(K, i) + 1
  <2>1. ASSUME NEW i \in K PROVE CountUpTo(more, i + 1) = CountUpTo(K, i) + 1
    <3>1. PICK U : U = {k \in K : k <= i} /\ U \subseteq K
      OBVIOUS
    <3>2. {j \in more : j <= i + 1} = {1} \cup moved(U)
      BY <1>4, <3>1
    <3>3. Cardinality({1} \cup moved(U)) = Cardinality(U) + 1
      BY <1>1, <3>1
    <3> HIDE DEF more, moved
    <3> QED BY <3>1, <3>2, <3>3 DEF CountUpTo
  <2> HIDE DEF more
  <2> QED BY <2>1
<1>7. CountUpTo(more, 1) = 1
  BY <1>3, <1>5 DEF CountUpTo
<1>8. IsFiniteSet(more) /\ Cardinality(more) = Cardinality(K) + 1
  <2>1. K \subseteq K
    OBVIOUS
  <2> HIDE DEF moved
  <2> QED BY <1>1, <2>1
<1> QED BY <1>2, <1>6, <1>7, <1>8

LEMMA OneInFront ==
  ASSUME NEW S, NEW a \in S, NEW list \in Seq(S)
  PROVE  /\ <<a>> \o list \in Seq(S) /\ Len(<<a>> \o list) = Len(list) + 1
         /\ (<<a>> \o list)[1] = a
         /\ \A i \in 1..Len(list) : (<<a>> \o list)[i + 1] = list[i]
<1>1. <<a>> \in Seq(S) /\ Len(<<a>>) = 1 /\ <<a>>[1] = a /\ Len(list) \in Nat
  OBVIOUS
<1>2. PICK both : both = <<a>> \o list
  OBVIOUS
<1>3. /\ both \in Seq(S) /\ Len(both) = 1 + Len(list)
      /\ \A i \in 1..1 + Len(list) : both[i] = IF i <= 1 THEN <<a>>[i] ELSE list[i - 1]
  BY <1>1, <1>2, ConcatProperties
<1>4. both[1] = a
  BY <1>1, <1>3
<1>5. ASSUME NEW i \in 1..Len(list) PROVE both[i + 1] = list[i]
  <2>1. i + 1 \in 1..1 + Len(list) /\ ~ (i + 1 <= 1) /\ (i + 1) - 1 = i
    BY <1>1
  <2> QED BY <1>3, <2>1
<1>6. Len(both) = Len(list) + 1
  BY <1>1, <1>3
<1> QED BY <1>2, <1>3, <1>4, <1>5, <1>6

\* The places of a list with one more in front: the first, and those moved by one.
PlacesMoved(K) == {1} \cup {k + 1 : k \in K}

\* A part of a list with one more in front of both.
LEMMA FrontOfPlaces ==
  ASSUME NEW S, NEW a \in S, NEW list \in Seq(S), NEW K \in SUBSET DOMAIN list
  PROVE  AtPlaces(<<a>> \o list, PlacesMoved(K)) = <<a>> \o AtPlaces(list, K)
<1> DEFINE L == <<a>> \o list
           more == {1} \cup {k + 1 : k \in K}
           n == Cardinality(K)
           nth == [m \in 1..n |-> CHOOSE i \in K : CountUpTo(K, i) = m]
           nth2 == [m \in 1..Cardinality(more) |-> CHOOSE i \in more : CountUpTo(more, i) = m]
<1>1. DOMAIN list = 1..Len(list) /\ Len(list) \in Nat /\ K \subseteq Nat \ {0}
  OBVIOUS
<1>2. /\ IsFiniteSet(K) /\ n \in Nat
      /\ AtPlaces(list, K) \in Seq(S) /\ Len(AtPlaces(list, K)) = n
  BY PartOfAList
<1>3. /\ more \subseteq Nat /\ IsFiniteSet(more) /\ Cardinality(more) = n + 1
      /\ CountUpTo(more, 1) = 1
      /\ \A i \in K : CountUpTo(more, i + 1) = CountUpTo(K, i) + 1
  BY <1>1, <1>2, CountShifts
<1>4. 1 \in more /\ \A k \in K : k + 1 \in more
  OBVIOUS
<1>5. nth \in [1..n -> K] /\ \A m \in 1..n : CountUpTo(K, nth[m]) = m
  BY <1>1, <1>2, InOrder
<1>6. nth2 \in [1..Cardinality(more) -> more] /\ \A m \in 1..Cardinality(more) : CountUpTo(more, nth2[m]) = m
  BY <1>3, InOrder
<1>7. AtPlaces(list, K) = [m \in 1..n |-> list[nth[m]]]
  BY DEF AtPlaces
<1> HIDE DEF L, more
<1>8. AtPlaces(L, more) = [m \in 1..Cardinality(more) |-> L[nth2[m]]]
  BY DEF AtPlaces
<1> HIDE DEF nth, nth2, n
<1>9. /\ nth2 \in [1..n + 1 -> more] /\ \A m \in 1..n + 1 : CountUpTo(more, nth2[m]) = m
      /\ AtPlaces(L, more) = [m \in 1..n + 1 |-> L[nth2[m]]]
  BY <1>3, <1>6, <1>8
<1>10. nth2[1] = 1
  <2>1. 1 \in 1..n + 1
    BY <1>2
  <2>2. PICK i \in more : i = nth2[1]
    BY <1>9, <2>1
  <2>3. CountUpTo(more, i) = CountUpTo(more, 1)
    BY <1>3, <1>9, <2>1, <2>2
  <2>4. i = 1
    BY <1>3, <1>4, <2>3, CountsDecide
  <2> QED BY <2>2, <2>4
<1>11. ASSUME NEW m \in 1..n PROVE nth2[m + 1] = nth[m] + 1
  <2>1. m + 1 \in 1..n + 1
    BY <1>2
  <2>2. PICK i \in more, k \in K : i = nth2[m + 1] /\ k = nth[m]
    BY <1>5, <1>9, <2>1
  <2>3. CountUpTo(K, k) = m /\ CountUpTo(more, i) = m + 1
    BY <1>5, <1>9, <2>1, <2>2
  <2>4. CountUpTo(more, k + 1) = CountUpTo(more, i) /\ k + 1 \in more
    BY <1>3, <1>4, <2>3
  <2>5. i = k + 1
    BY <1>3, <2>4, CountsDecide
  <2> QED BY <2>2, <2>5
<1>12. L[1] = a /\ \A i \in 1..Len(list) : L[i + 1] = list[i]
  BY OneInFront DEF L
<1> DEFINE back == AtPlaces(list, K)
           R == <<a>> \o back
           F == AtPlaces(L, more)
<1>13. R \in Seq(S) /\ Len(R) = n + 1 /\ R[1] = a /\ \A i \in 1..n : R[i + 1] = back[i]
  BY <1>2, OneInFront
<1>14. F = [m \in 1..n + 1 |-> L[nth2[m]]]
  BY <1>9
<1> HIDE DEF R, F, back
<1>15. F[1] = a
  BY <1>2, <1>10, <1>12, <1>14
<1>16. ASSUME NEW m \in 1..n PROVE F[m + 1] = R[m + 1]
  <2>1. m + 1 \in 1..n + 1
    BY <1>2
  <2>2. PICK k \in K : k = nth[m]
    BY <1>5
  <2>3. F[m + 1] = L[k + 1]
    BY <1>11, <1>14, <2>1, <2>2
  <2>4. back[m] = list[k]
    BY <1>7, <2>2 DEF back
  <2>5. L[k + 1] = list[k]
    BY <1>1, <1>12
  <2> QED BY <1>13, <2>3, <2>4, <2>5
<1>17. \A m \in 1..n + 1 : F[m] = R[m]
  <2>1. ASSUME NEW m \in 1..n + 1 PROVE F[m] = R[m]
    <3>1. CASE m = 1
      BY <1>13, <1>15, <3>1
    <3>2. CASE m # 1
      <4>1. PICK k \in 1..n : m = k + 1
        BY <1>2, <3>2
      <4> QED BY <1>16, <4>1
    <3> QED BY <3>1, <3>2
  <2> QED BY <2>1
<1>18. R = [m \in 1..n + 1 |-> R[m]]
  BY <1>2, <1>13
<1>19. F = R
  BY <1>14, <1>17, <1>18
<1>20. more = PlacesMoved(K)
  BY DEF more, PlacesMoved
<1> QED BY <1>19, <1>20 DEF F, R, L, back

-----------------------------------------------------------------------------
(* The history of reports                                                  *)

Artifact == [id : 1..MaxReports, org : ReportOrgs, kind : ReportKinds,
             of : SUBSET (ReportOrgs \cup StatementKinds), age : {"new", "ready", "expired"}]

ReportAnswer(c) ==
  /\ c.op \in {"list", "generate"}
  /\ c.op = "list" => c.items \in Seq(Artifact)
  /\ c.op = "generate" /\ c.ok => c.item \in Artifact

ReportsTyped ==
  /\ artifacts \in Seq(Artifact) /\ Len(artifacts) <= MaxReports /\ history \in Seq(Artifact)
  /\ workspace \in ReportOrgs /\ generating \in BOOLEAN /\ reportsSent \in 0..MaxReportCalls
  /\ ask \in [kind : ReportKinds, category : SUBSET ReportOrgs, statement : StatementKinds]
  /\ \A c \in reportCalls : ReportAnswer(c)

LEMMA BoundsOfReports == MaxReports \in Nat /\ MaxReportCalls \in Nat
BY ReportPagesAssumption

LEMMA ArtifactsTyped ==
  ASSUME artifacts \in Seq(Artifact), NEW o
  PROVE  Artifacts(o) \in Seq(Artifact)
<1>1. {i \in DOMAIN artifacts : artifacts[i].org = o} \in SUBSET DOMAIN artifacts
  OBVIOUS
<1> QED BY <1>1, PartOfAList DEF Artifacts

LEMMA NewArtifactTyped ==
  ASSUME ReportsTyped, Len(artifacts) < MaxReports
  PROVE  /\ NewArtifact(workspace, Asked) \in Artifact
         /\ NewArtifact(workspace, Asked).org = workspace
<1>1. ask.kind \in ReportKinds /\ ask.category \subseteq ReportOrgs /\ ask.statement \in StatementKinds
  BY DEF ReportsTyped
<1>2. Asked.kind = ask.kind /\ Asked.of \subseteq ReportOrgs \cup StatementKinds
  BY <1>1 DEF Asked
<1>3. Len(artifacts) \in Nat /\ workspace \in ReportOrgs
  BY DEF ReportsTyped
<1>4. Len(artifacts) + 1 \in 1..MaxReports
  BY <1>3, BoundsOfReports
<1> QED BY <1>1, <1>2, <1>3, <1>4 DEF NewArtifact, Artifact

LEMMA OneMoreArtifact ==
  ASSUME artifacts \in Seq(Artifact), NEW a \in Artifact
  PROVE  /\ <<a>> \o artifacts \in Seq(Artifact) /\ Len(<<a>> \o artifacts) = Len(artifacts) + 1
BY OneInFront

\* Ageing changes no id and no organization.
LEMMA AgedArtifacts ==
  ASSUME artifacts \in Seq(Artifact), ReportsAge
  PROVE  /\ artifacts' \in Seq(Artifact) /\ DOMAIN artifacts' = DOMAIN artifacts
         /\ Len(artifacts') = Len(artifacts)
         /\ \A i \in DOMAIN artifacts : /\ artifacts'[i].id = artifacts[i].id
                                        /\ artifacts'[i].org = artifacts[i].org
<1>1. artifacts' = [i \in DOMAIN artifacts |-> [artifacts[i] EXCEPT !.age = Older(artifacts[i].age)]]
  BY DEF ReportsAge
<1>2. \A i \in DOMAIN artifacts : artifacts[i] \in Artifact
  OBVIOUS
<1>3. ASSUME NEW i \in DOMAIN artifacts
      PROVE  /\ artifacts'[i] \in Artifact /\ artifacts'[i].id = artifacts[i].id
             /\ artifacts'[i].org = artifacts[i].org
  <2>1. PICK a \in Artifact : a = artifacts[i]
    BY <1>2
  <2>2. artifacts'[i] = [a EXCEPT !.age = Older(a.age)]
    BY <1>1, <2>1
  <2>3. Older(a.age) \in {"new", "ready", "expired"}
    BY DEF Older
  <2> QED BY <2>1, <2>2, <2>3 DEF Artifact
<1>4. DOMAIN artifacts' = 1..Len(artifacts) /\ Len(artifacts) \in Nat
  BY <1>1
<1>5. artifacts' = [i \in DOMAIN artifacts |-> artifacts'[i]]
  BY <1>1
<1>6. artifacts' \in Seq(Artifact) /\ Len(artifacts') = Len(artifacts)
  BY <1>3, <1>4, <1>5
<1> QED BY <1>3, <1>4, <1>6

LEMMA ReportsStart == ReportPagesInit => ReportsTyped
<1> SUFFICES ASSUME ReportPagesInit PROVE ReportsTyped
  OBVIOUS
<1>1. artifacts = <<>> /\ history = <<>> /\ artifacts \in Seq(Artifact) /\ Len(artifacts) = 0
  BY DEF ReportPagesInit
<1>2. Artifacts(workspace) \in Seq(Artifact)
  BY <1>1, ArtifactsTyped
<1>3. \A c \in reportCalls : ReportAnswer(c)
  BY <1>2 DEF ReportPagesInit, ReportList, ReportAnswer
<1>4. ask \in [kind : ReportKinds, category : SUBSET ReportOrgs, statement : StatementKinds]
  BY DEF ReportPagesInit, ReportKinds, StatementKinds
<1>5. reportsSent \in 0..MaxReportCalls /\ Len(artifacts) <= MaxReports
  BY <1>1, BoundsOfReports DEF ReportPagesInit
<1>6. workspace \in ReportOrgs /\ generating \in BOOLEAN /\ history \in Seq(Artifact)
  BY <1>1 DEF ReportPagesInit
<1> QED BY <1>1, <1>3, <1>4, <1>5, <1>6 DEF ReportsTyped

LEMMA ReportsStep ==
  ASSUME ReportsTyped, [ReportPagesNext]_reportVars
  PROVE  ReportsTyped'
<1>1. CASE ReportsAge
  BY <1>1, AgedArtifacts DEF ReportsAge, ReportsTyped
<1>2. CASE SwitchWorkspace
  <2>1. PICK o \in ReportOrgs \ {workspace} : workspace' = o /\ SendReport(ReportList(o))
    BY <1>2 DEF SwitchWorkspace
  <2>2. Artifacts(o) \in Seq(Artifact)
    BY ArtifactsTyped DEF ReportsTyped
  <2>3. ReportAnswer(ReportList(o))
    BY <2>2 DEF ReportAnswer, ReportList
  <2>4. \A c \in reportCalls' : ReportAnswer(c)
    BY <2>1, <2>3 DEF SendReport, ReportsTyped
  <2>5. reportsSent' \in 0..MaxReportCalls
    BY <2>1, BoundsOfReports DEF SendReport, ReportsTyped
  <2> QED BY <1>2, <2>1, <2>4, <2>5 DEF SwitchWorkspace, ReportsTyped
<1>3. CASE HistoryLands
  BY <1>3 DEF HistoryLands, ReportLands, ReportsTyped, ReportAnswer
<1>4. CASE PickKind \/ PickCategory \/ PickStatement
  <2>1. ask' \in [kind : ReportKinds, category : SUBSET ReportOrgs, statement : StatementKinds]
    BY <1>4 DEF PickKind, PickCategory, PickStatement, ReportsTyped
  <2> QED BY <1>4, <2>1 DEF PickKind, PickCategory, PickStatement, ReportsTyped
<1>5. CASE GenerateReport
  <2>1. PICK a \in Artifact : a = NewArtifact(workspace, Asked)
    BY <1>5, NewArtifactTyped DEF GenerateReport
  <2>2. \/ SendReport([op |-> "generate", ok |-> FALSE, n |-> reportsSent]) /\ UNCHANGED artifacts
        \/ /\ artifacts' = <<a>> \o artifacts
           /\ \E ok : SendReport([op |-> "generate", ok |-> ok, n |-> reportsSent, item |-> a])
    BY <1>5, <2>1 DEF GenerateReport
  <2>3. ReportAnswer([op |-> "generate", ok |-> FALSE, n |-> reportsSent])
        /\ \A ok : ReportAnswer([op |-> "generate", ok |-> ok, n |-> reportsSent, item |-> a])
    BY DEF ReportAnswer
  <2>4. artifacts' \in Seq(Artifact) /\ Len(artifacts') <= MaxReports
    BY <1>5, <2>1, <2>2, OneMoreArtifact, BoundsOfReports DEF ReportsTyped, GenerateReport
  <2>5. reportsSent' \in 0..MaxReportCalls /\ \A c \in reportCalls' : ReportAnswer(c)
    <3>1. PICK c : SendReport(c) /\ ReportAnswer(c)
      BY <2>2, <2>3
    <3> QED BY <3>1, BoundsOfReports DEF SendReport, ReportsTyped
  <2> QED BY <1>5, <2>4, <2>5 DEF GenerateReport, ReportsTyped
<1>6. CASE ReportAnswered
  <2>1. PICK c \in reportCalls :
          /\ c.op = "generate" /\ ReportLands(c) /\ generating' = FALSE
          /\ history' = IF c.ok THEN <<c.item>> \o history ELSE history
          /\ UNCHANGED <<artifacts, workspace, ask, reportsSent>>
    BY <1>6 DEF ReportAnswered
  <2>2. history' \in Seq(Artifact)
    BY <2>1, OneInFront DEF ReportsTyped, ReportAnswer
  <2> QED BY <2>1, <2>2 DEF ReportsTyped, ReportLands
<1>7. CASE UNCHANGED reportVars
  BY <1>7 DEF reportVars, ReportsTyped
<1> QED
  BY <1>1, <1>2, <1>3, <1>4, <1>5, <1>6, <1>7 DEF ReportPagesNext

\* The reports' page and the stored artifacts keep their shape, whatever is
\* refused or lost and however answers overlap.
THEOREM ReportsStayTyped == ReportPagesSpec => []ReportsTyped
BY ReportsStart, ReportsStep, PTL DEF ReportPagesSpec

LEMMA ReportsTypeOK == ReportsTyped => ReportPagesTypeOK
<1> SUFFICES ASSUME ReportsTyped PROVE ReportPagesTypeOK
  OBVIOUS
<1>1. ASSUME NEW i \in DOMAIN artifacts PROVE artifacts[i].id \in 1..MaxReports
  <2>1. artifacts[i] \in Artifact
    BY DEF ReportsTyped
  <2> QED BY <2>1 DEF Artifact
<1> QED BY <1>1 DEF ReportsTyped, ReportPagesTypeOK

-----------------------------------------------------------------------------

\* What the history will be once the answer on its way has come.
HistoryEnds ==
  IF reportCalls = {} THEN Ids(history) = Ids(Artifacts(workspace))
  ELSE \E c : /\ reportCalls = {c} /\ c.op \in {"list", "generate"}
              /\ Ids(IF c.op = "list" THEN c.items
                     ELSE IF c.ok THEN <<c.item>> \o history ELSE history)
                 = Ids(Artifacts(workspace))

LEMMA IdsOfPlaces ==
  ASSUME NEW list \in Seq(Artifact), NEW K \in SUBSET DOMAIN list
  PROVE  Ids(AtPlaces(list, K)) =
           [n \in 1..Cardinality(K) |-> list[CHOOSE i \in K : CountUpTo(K, i) = n].id]
BY DEF Ids, AtPlaces

\* The artifacts of an organization among some.
PlacesOf(list, o) == {i \in DOMAIN list : list[i].org = o}
ArtifactsOf(list, o) == AtPlaces(list, PlacesOf(list, o))

LEMMA ArtifactsAreOwn ==
  /\ \A o : Artifacts(o) = ArtifactsOf(artifacts, o)
  /\ Artifacts(workspace)' = ArtifactsOf(artifacts', workspace')
BY DEF Artifacts, ArtifactsOf, PlacesOf

\* The ids listed depend on the ids and the organizations only.
LEMMA IdsStay ==
  ASSUME NEW list \in Seq(Artifact), NEW other \in Seq(Artifact), DOMAIN other = DOMAIN list, NEW o,
         \A i \in DOMAIN list : other[i].id = list[i].id /\ other[i].org = list[i].org
  PROVE  Ids(ArtifactsOf(other, o)) = Ids(ArtifactsOf(list, o))
<1> DEFINE K == PlacesOf(list, o)
           nth == [n \in 1..Cardinality(K) |-> CHOOSE i \in K : CountUpTo(K, i) = n]
<1>1. PlacesOf(other, o) = K
  BY DEF PlacesOf
<1>2. K \in SUBSET DOMAIN list /\ K \in SUBSET DOMAIN other
  BY DEF PlacesOf
<1>3. K \subseteq Nat /\ IsFiniteSet(K)
  <2>1. DOMAIN list = 1..Len(list) /\ Len(list) \in Nat
    OBVIOUS
  <2> QED BY <1>2, <2>1, PartOfAList
<1>4. nth \in [1..Cardinality(K) -> K]
  BY <1>3, InOrder
<1> HIDE DEF K
<1>5. Ids(AtPlaces(list, K)) = [n \in 1..Cardinality(K) |-> list[nth[n]].id]
  <2>1. Ids(AtPlaces(list, K)) =
          [n \in 1..Cardinality(K) |-> list[CHOOSE i \in K : CountUpTo(K, i) = n].id]
    BY <1>2, IdsOfPlaces
  <2>2. \A n \in 1..Cardinality(K) : nth[n] = CHOOSE i \in K : CountUpTo(K, i) = n
    OBVIOUS
  <2> HIDE DEF nth
  <2> QED BY <2>1, <2>2
<1>6. Ids(AtPlaces(other, K)) = [n \in 1..Cardinality(K) |-> other[nth[n]].id]
  <2>1. Ids(AtPlaces(other, K)) =
          [n \in 1..Cardinality(K) |-> other[CHOOSE i \in K : CountUpTo(K, i) = n].id]
    BY <1>2, IdsOfPlaces
  <2>2. \A n \in 1..Cardinality(K) : nth[n] = CHOOSE i \in K : CountUpTo(K, i) = n
    OBVIOUS
  <2> HIDE DEF nth
  <2> QED BY <2>1, <2>2
<1> HIDE DEF nth
<1>7. \A n \in 1..Cardinality(K) : other[nth[n]].id = list[nth[n]].id
  BY <1>2, <1>4
<1>8. Ids(AtPlaces(list, K)) = Ids(AtPlaces(other, K))
  BY <1>5, <1>6, <1>7
<1> QED BY <1>1, <1>8 DEF K, ArtifactsOf

\* A new artifact of an organization is listed first.
LEMMA FrontOfArtifacts ==
  ASSUME NEW list \in Seq(Artifact), NEW a \in Artifact
  PROVE  ArtifactsOf(<<a>> \o list, a.org) = <<a>> \o ArtifactsOf(list, a.org)
<1> DEFINE K == PlacesOf(list, a.org)
<1>1. PICK more : more = <<a>> \o list
  OBVIOUS
<1>2. /\ more \in Seq(Artifact) /\ Len(more) = Len(list) + 1 /\ more[1] = a /\ Len(list) \in Nat
      /\ DOMAIN list = 1..Len(list) /\ \A i \in 1..Len(list) : more[i + 1] = list[i]
  BY <1>1, OneInFront
<1>3. DOMAIN more = 1..Len(list) + 1
  BY <1>2
<1>4. PlacesOf(more, a.org) = PlacesMoved(K)
  <2>1. ASSUME NEW i \in DOMAIN more, more[i].org = a.org PROVE i \in {1} \cup {k + 1 : k \in K}
    <3>1. CASE i = 1
      BY <3>1
    <3>2. CASE i # 1
      <4>0. i \in 1..Len(list) + 1 /\ Len(list) \in Nat /\ i # 1
        BY <1>2, <1>3, <3>2
      <4>1. PICK k \in 1..Len(list) : i = k + 1
        <5>1. PICK l : l = Len(list)
          OBVIOUS
        <5>2. l \in Nat /\ i \in 1..l + 1 /\ i # 1
          BY <4>0, <5>1
        <5>3. i - 1 \in 1..l /\ i = (i - 1) + 1
          BY <5>2
        <5> QED BY <5>1, <5>3
      <4>2. more[i] = list[k]
        BY <1>2, <4>1
      <4> QED BY <1>2, <2>1, <4>1, <4>2 DEF PlacesOf
    <3> QED BY <3>1, <3>2
  <2>2. 1 \in DOMAIN more /\ more[1].org = a.org
    BY <1>2, <1>3
  <2>3. ASSUME NEW k \in K PROVE k + 1 \in DOMAIN more /\ more[k + 1].org = a.org
    BY <1>2, <1>3, <2>3 DEF PlacesOf
  <2> QED BY <2>1, <2>2, <2>3 DEF PlacesMoved, PlacesOf
<1>5. K \in SUBSET DOMAIN list
  BY DEF PlacesOf
<1> HIDE DEF K
<1>6. AtPlaces(<<a>> \o list, PlacesMoved(K)) = <<a>> \o AtPlaces(list, K)
  BY <1>5, FrontOfPlaces
<1>7. ArtifactsOf(more, a.org) = <<a>> \o AtPlaces(list, K)
  BY <1>1, <1>4, <1>6 DEF ArtifactsOf
<1> QED BY <1>1, <1>7 DEF K, ArtifactsOf

LEMMA IdsInFront ==
  ASSUME NEW list \in Seq(Artifact), NEW other \in Seq(Artifact), NEW a \in Artifact,
         Ids(list) = Ids(other)
  PROVE  Ids(<<a>> \o list) = Ids(<<a>> \o other)
<1>1. \A one \in Seq(Artifact) : DOMAIN one = 1..Len(one) /\ Len(one) \in Nat
  OBVIOUS
<1>2. DOMAIN list = DOMAIN other /\ \A i \in DOMAIN list : list[i].id = other[i].id
  <2>1. DOMAIN Ids(list) = DOMAIN list /\ DOMAIN Ids(other) = DOMAIN other
    BY DEF Ids
  <2>2. \A i \in DOMAIN list : Ids(list)[i] = list[i].id
    BY DEF Ids
  <2>3. \A i \in DOMAIN other : Ids(other)[i] = other[i].id
    BY DEF Ids
  <2> QED BY <2>1, <2>2, <2>3
<1>3. Len(list) = Len(other)
  BY <1>1, <1>2
<1>4. PICK f, g : f = <<a>> \o list /\ g = <<a>> \o other
  OBVIOUS
<1>5. /\ f \in Seq(Artifact) /\ Len(f) = Len(list) + 1 /\ f[1] = a
      /\ \A i \in 1..Len(list) : f[i + 1] = list[i]
  BY <1>4, OneInFront
<1>6. /\ g \in Seq(Artifact) /\ Len(g) = Len(list) + 1 /\ g[1] = a
      /\ \A i \in 1..Len(list) : g[i + 1] = other[i]
  BY <1>3, <1>4, OneInFront
<1>7. DOMAIN f = 1..Len(list) + 1 /\ DOMAIN g = 1..Len(list) + 1
  BY <1>1, <1>5, <1>6
<1>8. ASSUME NEW i \in 1..Len(list) + 1 PROVE f[i].id = g[i].id
  <2>1. CASE i = 1
    BY <1>5, <1>6, <2>1
  <2>2. CASE i # 1
    <3>1. PICK k \in 1..Len(list) : i = k + 1
      BY <1>1, <2>2
    <3>2. list[k].id = other[k].id
      BY <1>1, <1>2, <3>1
    <3> QED BY <1>5, <1>6, <3>1, <3>2
  <2> QED BY <2>1, <2>2
<1>9. Ids(f) = Ids(g)
  BY <1>7, <1>8 DEF Ids
<1> QED BY <1>4, <1>9

ReportsInv == ReportsTyped /\ HistoryEnds

LEMMA HistoryStarts == ReportPagesInit => ReportsInv
<1> SUFFICES ASSUME ReportPagesInit PROVE ReportsInv
  OBVIOUS
<1>1. reportCalls = {ReportList(workspace)}
  BY DEF ReportPagesInit
<1>2. ReportList(workspace).op = "list" /\ ReportList(workspace).items = Artifacts(workspace)
  BY DEF ReportList
<1>3. HistoryEnds
  BY <1>1, <1>2 DEF HistoryEnds
<1> QED BY <1>3, ReportsStart DEF ReportsInv

LEMMA HistoryNext ==
  ASSUME ReportOverlap = FALSE, "lost" \notin ReportFaults, ReportsInv,
         [ReportPagesNext]_reportVars
  PROVE  ReportsInv'
<1>0. ReportsTyped /\ ReportsTyped' /\ HistoryEnds
  BY ReportsStep DEF ReportsInv
<1> SUFFICES HistoryEnds'
  BY <1>0 DEF ReportsInv
<1>1. CASE ReportsAge
  <2>1. UNCHANGED <<workspace, history, reportCalls>>
    BY <1>1 DEF ReportsAge
  <2>2. Ids(Artifacts(workspace))' = Ids(Artifacts(workspace))
    <3>1. /\ artifacts \in Seq(Artifact) /\ artifacts' \in Seq(Artifact)
          /\ DOMAIN artifacts' = DOMAIN artifacts
          /\ \A i \in DOMAIN artifacts : artifacts'[i].id = artifacts[i].id
                                         /\ artifacts'[i].org = artifacts[i].org
      BY <1>0, <1>1, AgedArtifacts DEF ReportsTyped
    <3>2. PICK other \in Seq(Artifact) : other = artifacts'
      BY <3>1
    <3>3. PICK list \in Seq(Artifact) : list = artifacts
      BY <3>1
    <3>4. /\ DOMAIN other = DOMAIN list
          /\ \A i \in DOMAIN list : other[i].id = list[i].id /\ other[i].org = list[i].org
      BY <3>1, <3>2, <3>3
    <3>5. Ids(ArtifactsOf(other, workspace)) = Ids(ArtifactsOf(list, workspace))
      BY <3>4, IdsStay
    <3>6. Artifacts(workspace)' = ArtifactsOf(other, workspace) /\ Artifacts(workspace) = ArtifactsOf(list, workspace)
      BY <2>1, <3>2, <3>3, ArtifactsAreOwn
    <3> QED BY <3>5, <3>6 DEF Ids
  <2>3. CASE reportCalls = {}
    BY <1>0, <2>1, <2>2, <2>3 DEF HistoryEnds, Ids
  <2>4. CASE reportCalls # {}
    <3>1. PICK c : /\ reportCalls = {c} /\ c.op \in {"list", "generate"}
                   /\ Ids(IF c.op = "list" THEN c.items
                          ELSE IF c.ok THEN <<c.item>> \o history ELSE history)
                      = Ids(Artifacts(workspace))
      BY <1>0, <2>4 DEF HistoryEnds
    <3> QED BY <2>1, <2>2, <2>4, <3>1 DEF HistoryEnds, Ids
  <2> QED BY <2>3, <2>4
<1>2. CASE SwitchWorkspace
  <2>1. PICK o \in ReportOrgs \ {workspace} :
          workspace' = o /\ reportCalls' = {ReportList(o)} /\ UNCHANGED artifacts
    BY <1>2 DEF SwitchWorkspace, SendReport
  <2>2. ReportList(o).op = "list" /\ ReportList(o).items = Artifacts(o)
    BY DEF ReportList
  <2>3. Artifacts(workspace)' = Artifacts(o)
    BY <2>1 DEF Artifacts
  <2>4. Ids(Artifacts(workspace))' = Ids(Artifacts(o))
    BY <2>3 DEF Ids
  <2>5. \E c : /\ reportCalls' = {c} /\ c.op = "list" /\ Ids(c.items) = Ids(Artifacts(workspace))'
    BY <2>1, <2>2, <2>4
  <2> QED BY <2>5 DEF HistoryEnds, Ids
<1>3. CASE HistoryLands
  <2>1. PICK c \in reportCalls : c.op = "list" /\ reportCalls' = reportCalls \ {c} /\ history' = c.items
                                 /\ UNCHANGED <<artifacts, workspace>>
    BY <1>3 DEF HistoryLands, ReportLands
  <2>2. reportCalls = {c} /\ Ids(c.items) = Ids(Artifacts(workspace))
    <3>1. PICK d : /\ reportCalls = {d}
                   /\ Ids(IF d.op = "list" THEN d.items
                          ELSE IF d.ok THEN <<d.item>> \o history ELSE history)
                      = Ids(Artifacts(workspace))
      BY <1>0, <2>1 DEF HistoryEnds
    <3>2. d = c
      BY <2>1, <3>1
    <3> QED BY <2>1, <3>1, <3>2
  <2>3. reportCalls' = {}
    BY <2>1, <2>2
  <2>4. Artifacts(workspace)' = Artifacts(workspace)
    BY <2>1 DEF Artifacts
  <2>5. Ids(history)' = Ids(Artifacts(workspace))'
    BY <2>1, <2>2, <2>4 DEF Ids
  <2> QED BY <2>3, <2>5 DEF HistoryEnds
<1>4. CASE PickKind \/ PickCategory \/ PickStatement \/ UNCHANGED reportVars
  <2>1. UNCHANGED <<artifacts, workspace, history, reportCalls>>
    BY <1>4 DEF PickKind, PickCategory, PickStatement, reportVars
  <2>2. Artifacts(workspace)' = Artifacts(workspace)
    BY <2>1 DEF Artifacts
  <2> QED BY <1>0, <2>1, <2>2 DEF HistoryEnds, Ids
<1>5. CASE GenerateReport
  <2>1. reportCalls = {} /\ UNCHANGED <<workspace, history>>
    BY <1>5 DEF GenerateReport
  <2>2. Ids(history) = Ids(Artifacts(workspace))
    BY <1>0, <2>1 DEF HistoryEnds
  <2>3. PICK a \in Artifact : a = NewArtifact(workspace, Asked) /\ a.org = workspace
    BY <1>0, <1>5, NewArtifactTyped DEF GenerateReport
  <2>4. \/ /\ reportCalls' = {[op |-> "generate", ok |-> FALSE, n |-> reportsSent]} /\ UNCHANGED artifacts
        \/ /\ artifacts' = <<a>> \o artifacts
           /\ reportCalls' = {[op |-> "generate", ok |-> TRUE, n |-> reportsSent, item |-> a]}
    <3>1. {TRUE} \cup {"lost" \notin ReportFaults} = {TRUE}
      OBVIOUS
    <3> QED BY <1>5, <2>1, <2>3, <3>1 DEF GenerateReport, SendReport
  <2>5. CASE /\ reportCalls' = {[op |-> "generate", ok |-> FALSE, n |-> reportsSent]} /\ UNCHANGED artifacts
    <3>1. PICK c : c = [op |-> "generate", ok |-> FALSE, n |-> reportsSent]
      OBVIOUS
    <3>2. c.op = "generate" /\ ~ c.ok /\ reportCalls' = {c}
      BY <2>5, <3>1
    <3>3. Artifacts(workspace)' = Artifacts(workspace)
      BY <2>1, <2>5 DEF Artifacts
    <3> QED BY <2>1, <2>2, <3>2, <3>3 DEF HistoryEnds, Ids
  <2>6. CASE /\ artifacts' = <<a>> \o artifacts
             /\ reportCalls' = {[op |-> "generate", ok |-> TRUE, n |-> reportsSent, item |-> a]}
    <3>1. PICK c : c = [op |-> "generate", ok |-> TRUE, n |-> reportsSent, item |-> a]
      OBVIOUS
    <3>2. c.op = "generate" /\ c.ok /\ c.item = a /\ reportCalls' = {c}
      BY <2>6, <3>1
    <3>3. Artifacts(workspace)' = <<a>> \o Artifacts(workspace)
      <4>1. artifacts \in Seq(Artifact)
        BY <1>0 DEF ReportsTyped
      <4>2. PICK more : more = <<a>> \o artifacts /\ artifacts' = more
        BY <2>6
      <4>3. ArtifactsOf(<<a>> \o artifacts, a.org) = <<a>> \o ArtifactsOf(artifacts, a.org)
        BY <4>1, FrontOfArtifacts
      <4> QED BY <2>1, <2>3, <4>2, <4>3, ArtifactsAreOwn
    <3>4. history \in Seq(Artifact) /\ Artifacts(workspace) \in Seq(Artifact)
      BY <1>0, ArtifactsTyped DEF ReportsTyped
    <3>5. PICK list : list = Artifacts(workspace)
      OBVIOUS
    <3>6. Ids(<<a>> \o history) = Ids(<<a>> \o list)
      BY <2>2, <3>4, <3>5, IdsInFront
    <3>7. Ids(Artifacts(workspace))' = Ids(<<a>> \o list)
      BY <3>3, <3>5 DEF Ids
    <3>8. \E d : /\ reportCalls' = {d} /\ d.op = "generate" /\ d.ok
                 /\ Ids(<<d.item>> \o history) = Ids(Artifacts(workspace))'
      BY <3>2, <3>6, <3>7
    <3> QED BY <2>1, <3>8 DEF HistoryEnds, Ids
  <2> QED BY <2>4, <2>5, <2>6
<1>6. CASE ReportAnswered
  <2>1. PICK c \in reportCalls :
          /\ c.op = "generate" /\ reportCalls' = reportCalls \ {c}
          /\ history' = IF c.ok THEN <<c.item>> \o history ELSE history
          /\ UNCHANGED <<artifacts, workspace>>
    BY <1>6 DEF ReportAnswered, ReportLands
  <2>2. /\ reportCalls = {c}
        /\ Ids(IF c.ok THEN <<c.item>> \o history ELSE history) = Ids(Artifacts(workspace))
    <3>1. PICK d : /\ reportCalls = {d}
                   /\ Ids(IF d.op = "list" THEN d.items
                          ELSE IF d.ok THEN <<d.item>> \o history ELSE history)
                      = Ids(Artifacts(workspace))
      BY <1>0, <2>1 DEF HistoryEnds
    <3>2. d = c
      BY <2>1, <3>1
    <3>3. c.op # "list"
      BY <2>1
    <3> QED BY <3>1, <3>2, <3>3
  <2>3. reportCalls' = {} /\ Ids(history') = Ids(Artifacts(workspace))
    BY <2>1, <2>2
  <2>4. Artifacts(workspace)' = Artifacts(workspace)
    BY <2>1 DEF Artifacts
  <2>5. Ids(history)' = Ids(Artifacts(workspace))'
    BY <2>3, <2>4 DEF Ids
  <2> QED BY <2>3, <2>5 DEF HistoryEnds
<1> QED
  BY <1>1, <1>2, <1>3, <1>4, <1>5, <1>6 DEF ReportPagesNext

\* Once everything is answered the history is the active organization's, newest
\* first, each artifact once, if no answer is lost and the page is used between
\* its requests (use-reports.ts:17-45).
THEOREM HistoryShown ==
  ASSUME ReportOverlap = FALSE, "lost" \notin ReportFaults
  PROVE  ReportPagesSpec => []HistoryIsWhole
<1>1. ReportsInv /\ [ReportPagesNext]_reportVars => ReportsInv'
  BY HistoryNext
<1>2. ReportsInv => HistoryIsWhole
  BY DEF ReportsInv, HistoryEnds, HistoryIsWhole
<1> QED BY <1>1, <1>2, HistoryStarts, PTL DEF ReportPagesSpec
=============================================================================
