----------------------------- MODULE ListLemmas -----------------------------
(***************************************************************************)
(* Lemmas about lists and the functions defined by recursion on them, for  *)
(* the modules whose algorithms go through a list element by element.  The *)
(* induction is by the least counterexample.                               *)
(***************************************************************************)
EXTENDS Integers, Sequences, FiniteSets, FiniteSetTheorems, FunctionTheorems,
        WellFoundedInduction, TLAPS

Smaller == {p \in Nat \X Nat : p[1] < p[2]}

(* There is no infinite descent in the natural numbers.                    *)
LEMMA SmallerIsWellFounded == IsWellFoundedOn(Smaller, Nat)
BY NatLessThanWellFounded DEF OpToRel, Smaller

(* A set that holds 0 and, with each number below n, the next one, holds   *)
(* all numbers up to n.                                                    *)
LEMMA CountingUp ==
  ASSUME NEW n \in Nat, NEW S, 0 \in S, \A k \in 0 .. n - 1 : k \in S => k + 1 \in S
  PROVE  0 .. n \subseteq S
<1> DEFINE Missing == {k \in 0 .. n : k \notin S}
<1>1. SUFFICES ASSUME Missing # {} PROVE FALSE
  OBVIOUS
<1>2. Missing \subseteq Nat
  OBVIOUS
<1>3. PICK k \in Missing : \A m \in Missing : ~(<<m, k>> \in Smaller)
  BY <1>1, <1>2, SmallerIsWellFounded, WFMin
<1>4. k \in 1 .. n
  OBVIOUS
<1>5. k - 1 \in 0 .. n - 1 /\ k - 1 \in Nat
  BY <1>4
<1>6. k - 1 \notin Missing
  <2>1. <<k - 1, k>> \in Smaller
    BY <1>4, <1>5 DEF Smaller
  <2>2. QED
    BY <1>3, <2>1
<1>7. QED
  BY <1>4, <1>5, <1>6

(* f is defined by recursion up to n.                                      *)
Follows(f, n, base, step) == f[0] = base /\ \A k \in 1 .. n : f[k] = step[k][f[k - 1]]

(* What is defined by recursion exists.                                    *)
LEMMA RecursionExists ==
  ASSUME NEW n \in Nat, NEW V, NEW base \in V, NEW step \in [1 .. n -> [V -> V]]
  PROVE  \E f \in [0 .. n -> V] : Follows(f, n, base, step)
<1> DEFINE Up(m, f) == f[0] = base /\ \A k \in 1 .. m : f[k] = step[k][f[k - 1]]
           S == {m \in 0 .. n : \E f \in [0 .. m -> V] : Up(m, f)}
<1>1. 0 \in S
  <2>1. [k \in 0 .. 0 |-> base] \in [0 .. 0 -> V] /\ Up(0, [k \in 0 .. 0 |-> base])
    OBVIOUS
  <2> HIDE DEF Up
  <2>2. QED
    BY <2>1
<1>2. ASSUME NEW m \in 0 .. n - 1, m \in S PROVE m + 1 \in S
  <2>1. PICK f \in [0 .. m -> V] : Up(m, f)
    BY <1>2
  <2> DEFINE g == [k \in 0 .. m + 1 |-> IF k = m + 1 THEN step[m + 1][f[m]] ELSE f[k]]
  <2>2. f[m] \in V /\ step[m + 1][f[m]] \in V
    OBVIOUS
  <2>3. g \in [0 .. m + 1 -> V]
    BY <2>2
  <2>4. Up(m + 1, g)
    <3>1. g[0] = base
      BY <2>1
    <3>2. ASSUME NEW k \in 1 .. m + 1 PROVE g[k] = step[k][g[k - 1]]
      BY <2>1
    <3>3. QED
      BY <3>1, <3>2
  <2>5. m + 1 \in 0 .. n
    OBVIOUS
  <2> HIDE DEF Up, g
  <2>6. QED
    BY <2>3, <2>4, <2>5
<1> HIDE DEF S
<1>3. 0 .. n \subseteq S
  BY <1>1, <1>2, CountingUp
<1>4. n \in S
  BY <1>3
<1>5. QED
  BY <1>4 DEF S, Follows

(* What takes the same steps from the same beginning is the same.          *)
SameSteps(f, g, n) == f[0] = g[0] /\ \A k \in 1 .. n : f[k - 1] = g[k - 1] => f[k] = g[k]

SameUpTo(f, g, n) == \A k \in 0 .. n : f[k] = g[k]

LEMMA SameRecursion ==
  ASSUME NEW n \in Nat, NEW f, NEW g, SameSteps(f, g, n)
  PROVE  SameUpTo(f, g, n)
<1> DEFINE S == {k \in 0 .. n : f[k] = g[k]}
<1>1. 0 \in S
  BY DEF SameSteps
<1>2. ASSUME NEW k \in 0 .. n - 1, k \in S PROVE k + 1 \in S
  <2>1. k + 1 \in 1 .. n /\ k + 1 - 1 = k /\ k + 1 \in 0 .. n
    OBVIOUS
  <2>2. QED
    BY <1>2, <2>1 DEF SameSteps
<1> HIDE DEF S
<1>3. 0 .. n \subseteq S
  BY <1>1, <1>2, CountingUp
<1>4. QED
  BY <1>3 DEF S, SameUpTo

(* What never falls from one number to the next never falls.               *)
Rises(f, n) ==
  (\A k \in 0 .. n : f[k] \in Int) /\ \A k \in 1 .. n : f[k - 1] <= f[k]

NeverBelow(f, n) == \A i, k \in 0 .. n : i <= k => f[i] <= f[k]

LEMMA NeverFalls ==
  ASSUME NEW n \in Nat, NEW f, Rises(f, n)
  PROVE  NeverBelow(f, n)
<1> USE DEF Rises, NeverBelow
<1> SUFFICES ASSUME NEW i \in 0 .. n PROVE \A k \in 0 .. n : i <= k => f[i] <= f[k]
  OBVIOUS
<1> DEFINE S == {k \in 0 .. n : i <= k => f[i] <= f[k]}
<1>1. 0 \in S
  <2>1. f[i] \in Int
    OBVIOUS
  <2>2. QED
    BY <2>1
<1>2. ASSUME NEW k \in 0 .. n - 1, k \in S PROVE k + 1 \in S
  <2>1. k + 1 \in 1 .. n /\ k + 1 - 1 = k /\ k + 1 \in 0 .. n /\ k \in 0 .. n
    OBVIOUS
  <2>2. f[k] <= f[k + 1]
    BY <2>1
  <2>3. f[i] \in Int /\ f[k] \in Int /\ f[k + 1] \in Int
    BY <2>1
  <2>4. CASE i <= k
    BY <1>2, <2>1, <2>2, <2>3, <2>4
  <2>5. CASE i = k + 1
    BY <2>1, <2>3, <2>5
  <2>6. CASE i > k + 1
    BY <2>1, <2>6
  <2>7. QED
    BY <2>4, <2>5, <2>6
<1> HIDE DEF S
<1>3. 0 .. n \subseteq S
  BY <1>1, <1>2, CountingUp
<1>4. QED
  BY <1>3 DEF S

-----------------------------------------------------------------------------
(* A list of one item for each number up to L.                             *)
LEMMA ListOf ==
  ASSUME NEW L \in Nat, NEW V, NEW list \in [1 .. L -> V]
  PROVE  list \in Seq(V) /\ Len(list) = L
OBVIOUS

LEMMA ElementsOf ==
  ASSUME NEW V, NEW list \in Seq(V)
  PROVE  Len(list) \in Nat /\ DOMAIN list = 1 .. Len(list) /\ \A n \in 1 .. Len(list) : list[n] \in V
OBVIOUS

(* Lists kept element by element.  at says where the elements of out come  *)
(* from when those of items at the places keep are kept, in their order.   *)
Places(at, out, items, keep) ==
  /\ at \in [1 .. Len(out) -> keep]
  /\ \A m \in 1 .. Len(out) : out[m] = items[at[m]]
  /\ \A l, m \in 1 .. Len(out) : l < m => at[l] < at[m]
  /\ \A k \in keep : \E m \in 1 .. Len(out) : at[m] = k

(* kept[n] is what is kept of the first n items.                           *)
Keeps(kept, items, keep, L) ==
  /\ kept[0] = << >>
  /\ \A n \in 1 .. L : kept[n] = IF n \in keep THEN Append(kept[n - 1], items[n]) ELSE kept[n - 1]

LEMMA KeptPlaces ==
  ASSUME NEW L \in Nat, NEW V, NEW items \in [1 .. L -> V], NEW keep \in SUBSET (1 .. L),
         NEW kept \in [0 .. L -> Seq(V)], Keeps(kept, items, keep, L)
  PROVE  \A n \in 0 .. L : \E at : Places(at, kept[n], items, keep \cap (1 .. n))
<1> DEFINE S == {n \in 0 .. L : \E at : Places(at, kept[n], items, keep \cap (1 .. n))}
<1>1. 0 \in S
  <2>1. Places(<< >>, kept[0], items, keep \cap (1 .. 0))
    BY DEF Places, Keeps
  <2>2. QED
    BY <2>1
<1>2. ASSUME NEW n \in 0 .. L - 1, n \in S PROVE n + 1 \in S
  <2>1. PICK at : Places(at, kept[n], items, keep \cap (1 .. n))
    BY <1>2
  <2>2. n + 1 \in 1 .. L /\ n + 1 - 1 = n /\ kept[n] \in Seq(V) /\ items[n + 1] \in V
    OBVIOUS
  <2>6. kept[n + 1] = IF n + 1 \in keep THEN Append(kept[n], items[n + 1]) ELSE kept[n]
    BY <2>2 DEF Keeps
  <2>7. n \in Nat /\ n + 1 \in 0 .. L
    OBVIOUS
  <2>3. CASE n + 1 \notin keep
    <3>1. kept[n + 1] = kept[n]
      BY <2>3, <2>6
    <3>2. keep \cap (1 .. n + 1) = keep \cap (1 .. n)
      <4>1. \A k \in 1 .. n + 1 : k # n + 1 => k \in 1 .. n
        BY <2>7
      <4>2. \A k \in 1 .. n : k \in 1 .. n + 1
        BY <2>7
      <4>3. QED
        BY <2>3, <4>1, <4>2
    <3>3. QED
      BY <2>1, <2>7, <3>1, <3>2
  <2>4. CASE n + 1 \in keep
    <3> DEFINE out == kept[n]
               new == Append(out, items[n + 1])
               l == Len(out)
               more == [m \in 1 .. l + 1 |-> IF m = l + 1 THEN n + 1 ELSE at[m]]
    <3>1. kept[n + 1] = new
      BY <2>4, <2>6
    <3>2. /\ l \in Nat /\ Len(new) = l + 1 /\ new[l + 1] = items[n + 1]
          /\ \A m \in 1 .. l : new[m] = out[m]
      BY <2>2
    <3>3. /\ at \in [1 .. l -> keep \cap (1 .. n)]
          /\ \A m \in 1 .. l : out[m] = items[at[m]]
          /\ \A i, j \in 1 .. l : i < j => at[i] < at[j]
          /\ \A k \in keep \cap (1 .. n) : \E m \in 1 .. l : at[m] = k
      BY <2>1 DEF Places
    <3> HIDE DEF out, new, l
    <3>10. \A m \in 1 .. l : more[m] = at[m] /\ at[m] \in keep \cap (1 .. n)
      <4>1. \A m \in 1 .. l : m \in 1 .. l + 1 /\ m # l + 1
        BY <3>2
      <4>2. \A m \in 1 .. l : more[m] = at[m]
        BY <4>1
      <4>3. QED
        BY <3>3, <4>2
    <3>11. more[l + 1] = n + 1 /\ n + 1 \in keep \cap (1 .. n + 1)
      BY <2>4, <2>7, <3>2
    <3>12. \A m \in 1 .. l + 1 : m # l + 1 => m \in 1 .. l
      BY <3>2
    <3>4. more \in [1 .. l + 1 -> keep \cap (1 .. n + 1)]
      <4>1. \A m \in 1 .. l + 1 : more[m] \in keep \cap (1 .. n + 1)
        <5>1. \A k \in 1 .. n : k \in 1 .. n + 1
          BY <2>7
        <5>2. QED
          BY <3>10, <3>11, <3>12, <5>1
      <4>2. QED
        BY <4>1
    <3>5. \A m \in 1 .. l + 1 : new[m] = items[more[m]]
      BY <3>2, <3>3, <3>10, <3>11, <3>12, Zenon
    <3>6. \A i, j \in 1 .. l + 1 : i < j => more[i] < more[j]
      <4> SUFFICES ASSUME NEW i \in 1 .. l + 1, NEW j \in 1 .. l + 1, i < j
                   PROVE  more[i] < more[j]
        OBVIOUS
      <4>1. i \in 1 .. l
        BY <3>2
      <4>2. more[i] = at[i] /\ at[i] \in 1 .. n
        BY <3>10, <4>1
      <4>3. CASE j = l + 1
        BY <2>7, <3>11, <4>2, <4>3
      <4>4. CASE j \in 1 .. l
        BY <3>3, <3>10, <4>1, <4>2, <4>4
      <4>5. QED
        BY <3>12, <4>3, <4>4
    <3>7. ASSUME NEW k \in keep \cap (1 .. n + 1) PROVE \E m \in 1 .. l + 1 : more[m] = k
      <4>1. CASE k = n + 1
        <5>1. l + 1 \in 1 .. l + 1 /\ more[l + 1] = k
          BY <3>2, <3>11, <4>1
        <5>2. QED
          BY <5>1
      <4>2. CASE k # n + 1
        <5>0. k \in keep \cap (1 .. n)
          BY <2>7, <4>2
        <5>1. PICK m \in 1 .. l : at[m] = k
          BY <3>3, <5>0
        <5>2. m \in 1 .. l + 1 /\ more[m] = k
          BY <3>2, <3>10, <5>1
        <5>3. QED
          BY <5>2
      <4>3. QED
        BY <4>1, <4>2
    <3> HIDE DEF more
    <3>8. Places(more, new, items, keep \cap (1 .. n + 1))
      BY <3>2, <3>4, <3>5, <3>6, <3>7 DEF Places
    <3>9. QED
      BY <2>2, <3>1, <3>8
  <2>5. QED
    BY <2>3, <2>4
<1> HIDE DEF S
<1>3. 0 .. L \subseteq S
  BY <1>1, <1>2, CountingUp
<1>4. QED
  BY <1>3 DEF S

-----------------------------------------------------------------------------
(* Sorting by counting: the place of each of L elements is one more than   *)
(* the number of those before it.                                          *)
OrdersAll(before, L) ==
  /\ before \in [1 .. L -> SUBSET (1 .. L)]
  /\ \A i \in 1 .. L : i \notin before[i]
  /\ \A i, j \in 1 .. L : i # j => i \in before[j] \/ j \in before[i]
  /\ \A i, j \in 1 .. L : i \in before[j] => before[i] \subseteq before[j]

LEMMA CountingSorts ==
  ASSUME NEW L \in Nat, NEW before, OrdersAll(before, L)
  PROVE  /\ \A i, j \in 1 .. L : i \in before[j] <=> Cardinality(before[i]) < Cardinality(before[j])
         /\ \A k \in 1 .. L : \E i \in 1 .. L : Cardinality(before[i]) = k - 1
         /\ \A i \in 1 .. L : Cardinality(before[i]) \in 0 .. L - 1
<1>1. \A i \in 1 .. L : IsFiniteSet(before[i]) /\ Cardinality(before[i]) \in 0 .. L - 1
  <2> SUFFICES ASSUME NEW i \in 1 .. L
               PROVE  IsFiniteSet(before[i]) /\ Cardinality(before[i]) \in 0 .. L - 1
    OBVIOUS
  <2>1. IsFiniteSet(1 .. L) /\ Cardinality(1 .. L) = L
    BY FS_Interval
  <2>2. before[i] \subseteq 1 .. L /\ before[i] # 1 .. L
    BY DEF OrdersAll
  <2>3. IsFiniteSet(before[i]) /\ Cardinality(before[i]) <= Cardinality(1 .. L)
    BY <2>1, <2>2, FS_Subset
  <2>4. Cardinality(before[i]) # Cardinality(1 .. L)
    BY <2>1, <2>2, FS_Subset
  <2>5. Cardinality(before[i]) \in Nat
    BY <2>3, FS_CardinalityType
  <2>6. QED
    BY <2>1, <2>3, <2>4, <2>5
<1>2. ASSUME NEW i \in 1 .. L, NEW j \in 1 .. L, i \in before[j]
      PROVE  Cardinality(before[i]) < Cardinality(before[j])
  <2>1. before[i] \subseteq before[j] /\ before[i] # before[j]
    BY <1>2 DEF OrdersAll
  <2>2. QED
    BY <1>1, <2>1, FS_Subset
<1>3. \A i, j \in 1 .. L : i \in before[j] <=> Cardinality(before[i]) < Cardinality(before[j])
  <2> SUFFICES ASSUME NEW i \in 1 .. L, NEW j \in 1 .. L,
                      Cardinality(before[i]) < Cardinality(before[j]), i \notin before[j]
               PROVE  FALSE
    BY <1>2
  <2>1. i # j
    BY <1>1
  <2>2. j \in before[i]
    BY <2>1 DEF OrdersAll
  <2>3. QED
    BY <1>1, <1>2, <2>2
<1>4. \A k \in 1 .. L : \E i \in 1 .. L : Cardinality(before[i]) = k - 1
  <2> DEFINE place == [i \in 1 .. L |-> Cardinality(before[i]) + 1]
  <2>1. place \in [1 .. L -> 1 .. L]
    BY <1>1
  <2>2. \A i, j \in 1 .. L : i # j => place[i] # place[j]
    <3> SUFFICES ASSUME NEW i \in 1 .. L, NEW j \in 1 .. L, i # j PROVE place[i] # place[j]
      OBVIOUS
    <3>1. i \in before[j] \/ j \in before[i]
      BY DEF OrdersAll
    <3>2. QED
      BY <1>1, <1>2, <3>1
  <2> HIDE DEF place
  <2>3. place \in Injection(1 .. L, 1 .. L)
    BY <2>1, <2>2, Fun_IsInj
  <2>4. \A k \in 1 .. L : \E i \in 1 .. L : place[i] = k
    <3>1. IsFiniteSet(1 .. L)
      BY FS_Interval
    <3>2. place \in Surjection(1 .. L, 1 .. L)
      BY <2>3, <3>1, FS_Injection
    <3>3. QED
      BY <3>2, Fun_SurjectionProperties DEF Surjection
  <2>5. ASSUME NEW k \in 1 .. L PROVE \E i \in 1 .. L : Cardinality(before[i]) = k - 1
    <3>1. PICK i \in 1 .. L : place[i] = k
      BY <2>4
    <3>2. Cardinality(before[i]) + 1 = k /\ Cardinality(before[i]) \in Nat
      BY <1>1, <3>1 DEF place
    <3>3. QED
      BY <3>2
  <2>6. QED
    BY <2>5
<1>5. QED
  BY <1>1, <1>3, <1>4

(* The list that has at each place the element with as many before it.     *)
Counts(at, before, L) ==
  at \in [1 .. L -> 1 .. L] /\ \A k \in 1 .. L : Cardinality(before[at[k]]) = k - 1

SortedBy(at, before, L) ==
  /\ \A i \in 1 .. L : \E k \in 1 .. L : at[k] = i
  /\ \A k, m \in 1 .. L : k < m => at[k] \in before[at[m]]

LEMMA CountingOrders ==
  ASSUME NEW L \in Nat, NEW before, OrdersAll(before, L), NEW at, Counts(at, before, L)
  PROVE  SortedBy(at, before, L)
<1> DEFINE size(i) == Cardinality(before[i])
<1>1. /\ \A i, j \in 1 .. L : i \in before[j] <=> size(i) < size(j)
      /\ \A i \in 1 .. L : size(i) \in 0 .. L - 1
  BY CountingSorts
<1>2. \A k \in 1 .. L : at[k] \in 1 .. L /\ size(at[k]) = k - 1
  BY DEF Counts
<1> HIDE DEF size
<1>3. ASSUME NEW i \in 1 .. L PROVE \E k \in 1 .. L : at[k] = i
  <2> DEFINE k == size(i) + 1
  <2>1. k \in 1 .. L /\ size(i) = k - 1
    BY <1>1
  <2>2. at[k] \in 1 .. L /\ size(at[k]) = size(i)
    BY <1>2, <2>1
  <2>3. at[k] = i
    <3>1. ~(size(at[k]) < size(i)) /\ ~(size(i) < size(at[k]))
      BY <1>1, <2>2
    <3>2. at[k] \notin before[i] /\ i \notin before[at[k]]
      BY <1>1, <2>2, <3>1
    <3>3. QED
      BY <2>2, <3>2 DEF OrdersAll
  <2>4. QED
    BY <2>1, <2>3
<1>4. ASSUME NEW k \in 1 .. L, NEW m \in 1 .. L, k < m PROVE at[k] \in before[at[m]]
  <2>1. size(at[k]) < size(at[m])
    BY <1>2, <1>4
  <2>2. QED
    BY <1>1, <1>2, <2>1
<1>5. QED
  BY <1>3, <1>4 DEF SortedBy
=============================================================================
