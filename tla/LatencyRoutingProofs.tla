------------------------ MODULE LatencyRoutingProofs ------------------------
(***************************************************************************)
(* Proofs about LatencyRouting for every number of backends and requests,  *)
(* every window, percentile, price and latency.                            *)
(***************************************************************************)
EXTENDS LatencyRouting, FiniteSetTheorems, SequenceTheorems,
        WellFoundedInduction, TLAPS

-----------------------------------------------------------------------------
(* The least number of a set, its greatest one, and induction with a set in   *)
(* the place of the predicate.                                                *)
LEMMA LeastOfNaturals ==
  ASSUME NEW T \in SUBSET Nat, T # {}
  PROVE  \E x \in T : \A y \in T : x <= y
<1> DEFINE R == {ss \in Nat \X Nat : ss[1] < ss[2]}
<1>1. IsWellFoundedOn(OpToRel(<, Nat), Nat)
  BY NatLessThanWellFounded
<1>2. OpToRel(<, Nat) = R
  BY Zenon DEF OpToRel
<1>3. IsWellFoundedOn(R, Nat)
  BY <1>1, <1>2, Zenon
<1>4. PICK x \in T : \A y \in T : ~(<<y, x>> \in R)
  BY <1>3, WFMin, Zenon
<1>5. \A y \in Nat : y < x => <<y, x>> \in R
  OBVIOUS
<1>6. ASSUME NEW y \in T
      PROVE  x <= y
  <2>1. x \in Nat /\ y \in Nat
    OBVIOUS
  <2>2. ~(y < x)
    BY <1>4, <1>5, <2>1, Zenon
  <2>3. QED BY <2>1, <2>2
<1>7. QED BY <1>6

LEMMA GreatestOfNaturals ==
  ASSUME NEW B \in Nat, NEW T \in SUBSET (0..B), T # {}
  PROVE  \E x \in T : \A y \in T : y <= x
<1> DEFINE U == {B - x : x \in T}
<1>1. U \in SUBSET Nat /\ U # {}
  <2>1. \A x \in T : x \in 0..B
    OBVIOUS
  <2>2. \A x \in 0..B : B - x \in Nat
    OBVIOUS
  <2>3. QED BY <2>1, <2>2
<1>2. PICK u \in U : \A w \in U : u <= w
  BY <1>1, LeastOfNaturals
<1>3. PICK x \in T : u = B - x
  BY <1>2
<1>4. ASSUME NEW y \in T
      PROVE  y <= x
  <2>1. u <= B - y
    BY <1>2
  <2>2. QED BY <1>3, <2>1
<1>5. QED BY <1>4

LEMMA InductionBySets ==
  ASSUME NEW S \in SUBSET Nat, 0 \in S, \A n \in S : n + 1 \in S
  PROVE  S = Nat
<1>1. SUFFICES ASSUME Nat \ S # {}
               PROVE  FALSE
  OBVIOUS
<1>2. PICK x \in Nat \ S : \A y \in Nat \ S : x <= y
  BY <1>1, LeastOfNaturals
<1>3. x - 1 \in Nat /\ x - 1 \notin Nat \ S
  BY <1>2
<1>4. QED BY <1>2, <1>3

-----------------------------------------------------------------------------
(* FirstLeast and LastGreatest return the positions that they describe: the   *)
(* policies always find a candidate.                                          *)
LEMMA FirstLeastIs ==
  ASSUME NEW n \in Nat, n > 0, NEW keys \in [1..n -> Nat]
  PROVE  /\ FirstLeast(keys) \in 1..n
         /\ \A j \in 1..n : keys[FirstLeast(keys)] <= keys[j]
<1> DEFINE K == {keys[i] : i \in 1..n}
<1>1. K \in SUBSET Nat /\ K # {}
  OBVIOUS
<1>2. PICK k \in K : \A y \in K : k <= y
  BY <1>1, LeastOfNaturals
<1> DEFINE I == {i \in 1..n : keys[i] = k}
<1>3. I \in SUBSET Nat /\ I # {}
  OBVIOUS
<1>4. PICK i \in I : \A j \in I : i <= j
  BY <1>3, LeastOfNaturals
<1>5. \A j \in 1..n : k <= keys[j]
  BY <1>2
<1>6. ASSUME NEW j \in 1..n
      PROVE  keys[i] < keys[j] \/ (keys[i] = keys[j] /\ i <= j)
  <2>1. keys[i] = k /\ k \in Nat /\ keys[j] \in Nat
    BY <1>2
  <2>2. CASE keys[j] = k
    BY <1>4, <2>1, <2>2
  <2>3. CASE keys[j] # k
    BY <1>5, <2>1, <2>3
  <2>4. QED BY <2>2, <2>3
<1>7. DOMAIN keys = 1..n /\ i \in 1..n
  OBVIOUS
<1>8. \E l \in DOMAIN keys :
        \A j \in DOMAIN keys : keys[l] < keys[j] \/ (keys[l] = keys[j] /\ l <= j)
  BY <1>6, <1>7
<1> DEFINE l == FirstLeast(keys)
<1>9. /\ l \in DOMAIN keys
      /\ \A j \in DOMAIN keys : keys[l] < keys[j] \/ (keys[l] = keys[j] /\ l <= j)
  BY <1>8, Zenon DEF FirstLeast
<1> HIDE DEF l
<1>10. l \in 1..n
  BY <1>7, <1>9
<1>11. ASSUME NEW j \in 1..n
       PROVE  keys[l] <= keys[j]
  <2>1. keys[l] \in Nat /\ keys[j] \in Nat
    BY <1>10
  <2>2. QED BY <1>7, <1>9, <2>1
<1>12. QED BY <1>10, <1>11 DEF l

LEMMA LastGreatestIs ==
  ASSUME NEW n \in Nat, n > 0, NEW B \in Nat, NEW keys \in [1..n -> 0..B]
  PROVE  /\ LastGreatest(keys) \in 1..n
         /\ \A j \in 1..n : keys[LastGreatest(keys)] >= keys[j]
<1> DEFINE K == {keys[i] : i \in 1..n}
<1>1. K \in SUBSET (0..B) /\ K # {}
  OBVIOUS
<1>2. PICK k \in K : \A y \in K : y <= k
  BY <1>1, GreatestOfNaturals
<1> DEFINE I == {i \in 1..n : keys[i] = k}
<1>3. I \in SUBSET (0..n) /\ I # {}
  OBVIOUS
<1>4. PICK i \in I : \A j \in I : j <= i
  BY <1>3, GreatestOfNaturals
<1>5. \A j \in 1..n : keys[j] <= k
  BY <1>2
<1>6. ASSUME NEW j \in 1..n
      PROVE  keys[i] > keys[j] \/ (keys[i] = keys[j] /\ i >= j)
  <2>1. keys[i] = k /\ k \in Nat /\ keys[j] \in Nat
    BY <1>2
  <2>2. CASE keys[j] = k
    BY <1>4, <2>1, <2>2
  <2>3. CASE keys[j] # k
    BY <1>5, <2>1, <2>3
  <2>4. QED BY <2>2, <2>3
<1>7. DOMAIN keys = 1..n /\ i \in 1..n
  OBVIOUS
<1>8. \E l \in DOMAIN keys :
        \A j \in DOMAIN keys : keys[l] > keys[j] \/ (keys[l] = keys[j] /\ l >= j)
  BY <1>6, <1>7
<1> DEFINE l == LastGreatest(keys)
<1>9. /\ l \in DOMAIN keys
      /\ \A j \in DOMAIN keys : keys[l] > keys[j] \/ (keys[l] = keys[j] /\ l >= j)
  BY <1>8, Zenon DEF LastGreatest
<1> HIDE DEF l
<1>10. l \in 1..n
  BY <1>7, <1>9
<1>11. ASSUME NEW j \in 1..n
       PROVE  keys[l] >= keys[j]
  <2>1. keys[l] \in Nat /\ keys[j] \in Nat
    BY <1>10
  <2>2. QED BY <1>7, <1>9, <2>1
<1>12. QED BY <1>10, <1>11 DEF l

-----------------------------------------------------------------------------
(* The sort.  The elements up to i in the order of the sort:                  *)
Upto(seq, i) ==
  {j \in DOMAIN seq : seq[j] < seq[i] \/ (seq[j] = seq[i] /\ j <= i)}

LEMMA UptoFacts ==
  ASSUME NEW n \in Nat, NEW seq \in [1..n -> Nat], NEW i \in 1..n
  PROVE  /\ Upto(seq, i) \in SUBSET (1..n) /\ i \in Upto(seq, i)
         /\ IsFiniteSet(Upto(seq, i))
         /\ Place(seq, i) = Cardinality(Upto(seq, i))
         /\ Place(seq, i) \in 1..n
<1>1. Upto(seq, i) \in SUBSET (1..n) /\ i \in Upto(seq, i)
  BY DEF Upto
<1>2. Place(seq, i) = Cardinality(Upto(seq, i))
  BY DEF Place, Upto
<1>3. IsFiniteSet(1..n) /\ Cardinality(1..n) = n
  <2>1. 1 \in Int /\ n \in Int
    OBVIOUS
  <2>2. /\ IsFiniteSet(1..n)
        /\ Cardinality(1..n) = IF 1 > n THEN 0 ELSE n - 1 + 1
    BY <2>1, FS_Interval
  <2>3. QED BY <2>2
<1>4. IsFiniteSet(Upto(seq, i)) /\ Cardinality(Upto(seq, i)) <= n
  BY <1>1, <1>3, FS_Subset
<1>5. Cardinality(Upto(seq, i)) \in Nat /\ Cardinality(Upto(seq, i)) # 0
  BY <1>1, <1>4, FS_CardinalityType, FS_EmptySet
<1>6. QED BY <1>1, <1>2, <1>4, <1>5

LEMMA PlaceOrders ==
  ASSUME NEW n \in Nat, NEW seq \in [1..n -> Nat], NEW i \in 1..n, NEW j \in 1..n,
         seq[i] < seq[j] \/ (seq[i] = seq[j] /\ i < j)
  PROVE  Place(seq, i) # Place(seq, j)
<1>1. \A k \in 1..n : seq[k] \in Nat
  OBVIOUS
<1>2. DOMAIN seq = 1..n
  OBVIOUS
<1>3. ASSUME NEW k \in Upto(seq, i)
      PROVE  k \in Upto(seq, j)
  <2>1. k \in 1..n /\ (seq[k] < seq[i] \/ (seq[k] = seq[i] /\ k <= i))
    BY <1>2 DEF Upto
  <2>2. seq[k] \in Nat /\ seq[i] \in Nat /\ seq[j] \in Nat
    BY <1>1, <2>1
  <2>3. seq[k] < seq[j] \/ (seq[k] = seq[j] /\ k <= j)
    BY <2>1, <2>2
  <2>4. QED BY <1>2, <2>1, <2>3 DEF Upto
<1>4. j \notin Upto(seq, i)
  <2>1. seq[i] \in Nat /\ seq[j] \in Nat
    BY <1>1
  <2>2. ~(seq[j] < seq[i] \/ (seq[j] = seq[i] /\ j <= i))
    BY <2>1
  <2>3. QED BY <2>2 DEF Upto
<1>5. Upto(seq, i) \in SUBSET Upto(seq, j) /\ Upto(seq, i) # Upto(seq, j)
  BY <1>3, <1>4, UptoFacts
<1>6. Cardinality(Upto(seq, i)) # Cardinality(Upto(seq, j))
  BY <1>5, UptoFacts, FS_Subset
<1>7. QED BY <1>6, UptoFacts

(* Every place is that of one element.                                        *)
LEMMA EveryPlaceTaken ==
  ASSUME NEW n \in Nat, NEW seq \in [1..n -> Nat], NEW k \in 1..n
  PROVE  \E i \in 1..n : Place(seq, i) = k
<1> DEFINE f == [i \in 1..n |-> Place(seq, i)]
<1>1. f \in [1..n -> 1..n]
  BY UptoFacts
<1>2. ASSUME NEW i \in 1..n, NEW j \in 1..n, i # j
      PROVE  f[i] # f[j]
  <2>1. seq[i] \in Nat /\ seq[j] \in Nat
    OBVIOUS
  <2>2. \/ seq[i] < seq[j] \/ (seq[i] = seq[j] /\ i < j)
        \/ seq[j] < seq[i] \/ (seq[j] = seq[i] /\ j < i)
    BY <1>2, <2>1
  <2>3. Place(seq, i) # Place(seq, j)
    BY <2>2, PlaceOrders
  <2>4. QED BY <2>3
<1>3. f \in Injection(1..n, 1..n)
  <2> HIDE DEF f
  <2>1. QED BY <1>1, <1>2 DEF Injection, IsInjective
<1>4. IsFiniteSet(1..n)
  <2>1. 1 \in Int /\ n \in Int
    OBVIOUS
  <2>2. QED BY <2>1, FS_Interval
<1>5. f \in Surjection(1..n, 1..n)
  <2> HIDE DEF f
  <2>1. QED BY <1>3, <1>4, FS_Injection
<1>6. \E i \in 1..n : f[i] = k
  <2> HIDE DEF f
  <2>1. QED BY <1>5 DEF Surjection
<1>7. QED BY <1>6

(* What p95 finds at place k is an element, k elements are at most that, and  *)
(* fewer than k are below.                                                    *)
LEMMA SortedFacts ==
  ASSUME NEW n \in Nat, NEW seq \in [1..n -> Nat], NEW k \in 1..n
  PROVE  /\ \E i \in 1..n : Sorted(seq)[k] = seq[i]
         /\ Cardinality({j \in 1..n : seq[j] <= Sorted(seq)[k]}) \in Nat
         /\ Cardinality({j \in 1..n : seq[j] < Sorted(seq)[k]}) \in Nat
         /\ Cardinality({j \in 1..n : seq[j] <= Sorted(seq)[k]}) >= k
         /\ Cardinality({j \in 1..n : seq[j] < Sorted(seq)[k]}) <= k - 1
<1> DEFINE i == CHOOSE l \in 1..n : Place(seq, l) = k
           v == seq[i]
           atMost == {j \in 1..n : seq[j] <= v}
           below == {j \in 1..n : seq[j] < v}
<1>1. i \in 1..n /\ Place(seq, i) = k
  BY EveryPlaceTaken, Zenon
<1>2. Sorted(seq)[k] = v
  BY DEF Sorted
<1> HIDE DEF i
<1>3. v \in Nat /\ DOMAIN seq = 1..n /\ \A j \in 1..n : seq[j] \in Nat
  BY <1>1
<1>4. /\ IsFiniteSet(Upto(seq, i)) /\ i \in Upto(seq, i)
      /\ Cardinality(Upto(seq, i)) = k
  BY <1>1, UptoFacts
<1>5. Upto(seq, i) \in SUBSET atMost
  <2>1. ASSUME NEW j \in Upto(seq, i)
        PROVE  j \in atMost
    <3>1. j \in 1..n /\ (seq[j] < v \/ seq[j] = v)
      BY <1>3 DEF Upto
    <3>2. QED BY <1>3, <3>1
  <2>2. QED BY <2>1
<1>6. below \in SUBSET (Upto(seq, i) \ {i})
  <2>1. ASSUME NEW j \in below
        PROVE  j \in Upto(seq, i) \ {i}
    <3>1. j \in 1..n /\ seq[j] < v
      OBVIOUS
    <3>2. j # i
      BY <1>3, <3>1
    <3>3. QED BY <1>3, <3>1, <3>2 DEF Upto
  <2>2. QED BY <2>1
<1>7. IsFiniteSet(atMost)
  <2>1. 1 \in Int /\ n \in Int
    OBVIOUS
  <2>2. IsFiniteSet(1..n)
    BY <2>1, FS_Interval
  <2>3. atMost \in SUBSET (1..n)
    OBVIOUS
  <2>4. QED BY <2>2, <2>3, FS_Subset
<1> HIDE DEF atMost, below
<1>8. Cardinality(atMost) \in Nat /\ k <= Cardinality(atMost)
  BY <1>4, <1>5, <1>7, FS_Subset, FS_CardinalityType
<1>9. /\ IsFiniteSet(Upto(seq, i) \ {i})
      /\ Cardinality(Upto(seq, i) \ {i}) = k - 1
  BY <1>4, FS_RemoveElement
<1>10. Cardinality(below) \in Nat /\ Cardinality(below) <= k - 1
  <2>1. IsFiniteSet(below) /\ Cardinality(below) <= Cardinality(Upto(seq, i) \ {i})
    BY <1>6, <1>9, FS_Subset
  <2>2. QED BY <1>9, <2>1, FS_CardinalityType
<1>11. /\ atMost = {j \in 1..n : seq[j] <= Sorted(seq)[k]}
       /\ below = {j \in 1..n : seq[j] < Sorted(seq)[k]}
  BY <1>2 DEF atMost, below
<1>12. QED BY <1>1, <1>2, <1>8, <1>10, <1>11

(* The index of the code is inside of the list, and at the right rank.        *)
LEMMA Rank ==
  ASSUME NEW n \in Nat, n > 0
  PROVE  LET rank  == (n * Percent) \div 100
             index == IF rank < n - 1 THEN rank ELSE n - 1
         IN  /\ index \in Nat /\ index + 1 \in 1..n
             /\ 100 * (index + 1) > Percent * n
             /\ 100 * index <= Percent * n
<1> DEFINE x == n * Percent
           rank == x \div 100
           index == IF rank < n - 1 THEN rank ELSE n - 1
<1>1. Percent \in Nat /\ Percent <= 99
  BY RoutingAssumption
<1>2. x \in Nat /\ x = Percent * n /\ x <= 99 * n
  BY <1>1
<1> HIDE DEF x
<1>3. rank \in Nat /\ 100 * rank <= x /\ x < 100 * (rank + 1)
  BY <1>2
<1> HIDE DEF rank
<1>4. /\ index \in Nat /\ index + 1 \in 1..n
      /\ 100 * (index + 1) > x /\ 100 * index <= x
  BY <1>2, <1>3
<1>5. QED BY <1>2, <1>4 DEF rank, x

LEMMA P95Facts ==
  ASSUME NEW seq \in Seq(Samples)
  PROVE  /\ P95(seq) \in Samples \cup {Cold}
         /\ seq # <<>> =>
              /\ 100 * Cardinality({i \in DOMAIN seq : seq[i] <= P95(seq)})
                   > Percent * Len(seq)
              /\ 100 * Cardinality({i \in DOMAIN seq : seq[i] < P95(seq)})
                   <= Percent * Len(seq)
<1> DEFINE n == Len(seq)
           rank == (n * Percent) \div 100
           index == IF rank < n - 1 THEN rank ELSE n - 1
<1>1. n \in Nat /\ DOMAIN seq = 1..n /\ \A i \in 1..n : seq[i] \in Samples
  BY LenProperties, ElementOfSeq
<1>2. seq \in [1..n -> Nat] /\ Percent \in Nat
  BY <1>1, LenProperties, RoutingAssumption DEF Samples
<1>3. CASE n = 0
  <2>1. P95(seq) = Cold
    BY <1>3 DEF P95
  <2>2. seq = <<>>
    BY <1>3, EmptySeq
  <2>3. QED BY <2>1, <2>2
<1>4. CASE n # 0
  <2>1. /\ index \in Nat /\ index + 1 \in 1..n
        /\ 100 * (index + 1) > Percent * n /\ 100 * index <= Percent * n
    <3>1. n > 0
      BY <1>1, <1>4
    <3>2. QED BY <1>1, <3>1, Rank
  <2>2. P95(seq) = Sorted(seq)[index + 1]
    BY <1>4 DEF P95
  <2> DEFINE k == index + 1
             v == P95(seq)
             atMost == Cardinality({i \in 1..n : seq[i] <= v})
             below == Cardinality({i \in 1..n : seq[i] < v})
  <2> HIDE DEF n, index
  <2>3. /\ \E i \in 1..n : v = seq[i]
        /\ atMost \in Nat /\ below \in Nat
        /\ atMost >= k /\ below <= k - 1
    <3>1. k \in 1..n /\ v = Sorted(seq)[k]
      BY <2>1, <2>2
    <3> HIDE DEF k
    <3>2. /\ \E i \in 1..n : Sorted(seq)[k] = seq[i]
          /\ Cardinality({j \in 1..n : seq[j] <= Sorted(seq)[k]}) \in Nat
          /\ Cardinality({j \in 1..n : seq[j] < Sorted(seq)[k]}) \in Nat
          /\ Cardinality({j \in 1..n : seq[j] <= Sorted(seq)[k]}) >= k
          /\ Cardinality({j \in 1..n : seq[j] < Sorted(seq)[k]}) <= k - 1
      BY <1>1, <1>2, <3>1, SortedFacts
    <3>3. QED BY <3>1, <3>2, Zenon
  <2>4. v \in Samples
    BY <1>1, <2>3
  <2> DEFINE bound == Percent * n
  <2>5. bound \in Nat
    BY <1>1, <1>2
  <2> HIDE DEF v, atMost, below, bound
  <2>6. 100 * atMost > bound /\ 100 * below <= bound
    BY <2>1, <2>3, <2>5 DEF bound
  <2>7. QED BY <1>1, <2>4, <2>6, Zenon DEF v, atMost, below, bound, n
<1>5. QED BY <1>3, <1>4

-----------------------------------------------------------------------------
(* Without: what the recursive definition has to satisfy, ...                 *)
Keeps(f, len, seq, b) ==
  /\ f \in [0..len -> Seq(Backends)]
  /\ f[0] = <<>>
  /\ \A i \in 1..len :
       f[i] = IF seq[i] = b THEN f[i - 1] ELSE Append(f[i - 1], seq[i])

(* ... that something does, ...                                               *)
LEMMA KeepsExists ==
  ASSUME NEW seq \in Seq(Backends), NEW b \in Backends
  PROVE  \E f : Keeps(f, Len(seq), seq, b)
<1> DEFINE S == {k \in Nat : k <= Len(seq) => \E f : Keeps(f, k, seq, b)}
<1>1. Len(seq) \in Nat /\ \A i \in 1..Len(seq) : seq[i] \in Backends
  BY LenProperties, ElementOfSeq
<1>2. 0 \in S
  <2>1. <<>> \in Seq(Backends)
    BY EmptySeq
  <2> DEFINE f == [i \in 0..0 |-> <<>>]
  <2>2. Keeps(f, 0, seq, b)
    BY <2>1 DEF Keeps
  <2>3. QED BY <2>2
<1>3. ASSUME NEW k \in S
      PROVE  k + 1 \in S
  <2>1. SUFFICES ASSUME k + 1 <= Len(seq)
                 PROVE  \E f : Keeps(f, k + 1, seq, b)
    OBVIOUS
  <2>2. k \in Nat /\ k + 1 \in 1..Len(seq) /\ (k + 1) - 1 = k
    BY <1>1, <2>1
  <2>3. PICK f : Keeps(f, k, seq, b)
    BY <1>1, <2>1, <2>2
  <2>4. f \in [0..k -> Seq(Backends)] /\ f[k] \in Seq(Backends)
    BY <2>2, <2>3 DEF Keeps
  <2> DEFINE t == IF seq[k + 1] = b THEN f[k] ELSE Append(f[k], seq[k + 1])
             g == [i \in 0..(k + 1) |-> IF i = k + 1 THEN t ELSE f[i]]
  <2>5. t \in Seq(Backends)
    BY <1>1, <2>2, <2>4, AppendProperties
  <2> HIDE DEF t
  <2>6. g \in [0..(k + 1) -> Seq(Backends)]
    BY <2>2, <2>4, <2>5
  <2>7. g[k + 1] = t /\ \A i \in 0..k : g[i] = f[i]
    BY <2>2
  <2> HIDE DEF g
  <2>8. g[0] = <<>>
    <3>1. 0 \in 0..k
      BY <2>2
    <3>2. f[0] = <<>>
      BY <2>3, Zenon DEF Keeps
    <3>3. QED BY <2>7, <3>1, <3>2, Zenon
  <2>9. ASSUME NEW i \in 1..(k + 1)
        PROVE  g[i] = IF seq[i] = b THEN g[i - 1] ELSE Append(g[i - 1], seq[i])
    <3>1. i - 1 \in 0..k /\ g[i - 1] = f[i - 1]
      BY <2>2, <2>7
    <3>2. CASE i = k + 1
      BY <2>2, <2>7, <3>1, <3>2 DEF t
    <3>3. CASE i # k + 1
      <4>1. i \in 1..k /\ i \in 0..k
        BY <2>2, <3>3
      <4>2. QED BY <2>3, <2>7, <3>1, <4>1 DEF Keeps
    <3>4. QED BY <3>2, <3>3
  <2>10. Keeps(g, k + 1, seq, b)
    BY <2>6, <2>8, <2>9 DEF Keeps
  <2>11. QED BY <2>10
<1>4. S = Nat
  <2> HIDE DEF S
  <2>1. S \in SUBSET Nat
    BY DEF S
  <2>2. QED BY <1>2, <1>3, <2>1, InductionBySets
<1>5. QED BY <1>1, <1>4

(* ... that Without computes, and that has every element but b.               *)
LEMMA WithoutFacts ==
  ASSUME NEW seq \in Seq(Backends), NEW b \in Backends
  PROVE  /\ Without(seq, b) \in Seq(Backends)
         /\ {Without(seq, b)[i] : i \in DOMAIN Without(seq, b)}
              = {seq[i] : i \in DOMAIN seq} \ {b}
<1> DEFINE Raw(f) == f = [i \in 0..Len(seq) |->
                            IF i = 0 THEN <<>>
                            ELSE IF seq[i] = b THEN f[i - 1]
                                 ELSE Append(f[i - 1], seq[i])]
           kept == CHOOSE f : Raw(f)
           Elements(s) == {s[i] : i \in DOMAIN s}
           First1(k) == {seq[i] : i \in 1..k}
           S == {k \in Nat : k <= Len(seq) =>
                   /\ kept[k] \in Seq(Backends)
                   /\ Elements(kept[k]) = First1(k) \ {b}}
<1>1. /\ Len(seq) \in Nat /\ DOMAIN seq = 1..Len(seq)
      /\ \A i \in 1..Len(seq) : seq[i] \in Backends
  BY LenProperties, ElementOfSeq
<1>2. \E f : Raw(f)
  <2>1. PICK f : Keeps(f, Len(seq), seq, b)
    BY KeepsExists
  <2>2. f = [i \in 0..Len(seq) |-> f[i]]
    BY <2>1 DEF Keeps
  <2>3. /\ f[0] = <<>>
        /\ \A i \in 1..Len(seq) :
             f[i] = IF seq[i] = b THEN f[i - 1] ELSE Append(f[i - 1], seq[i])
    BY <2>1, Zenon DEF Keeps
  <2>4. \A i \in 0..Len(seq) : i = 0 \/ i \in 1..Len(seq)
    BY <1>1
  <2>5. \A i \in 0..Len(seq) :
          f[i] = IF i = 0 THEN <<>>
                 ELSE IF seq[i] = b THEN f[i - 1] ELSE Append(f[i - 1], seq[i])
    BY <2>3, <2>4, Zenon
  <2>6. Raw(f)
    BY <2>2, <2>5
  <2>7. QED BY <2>6
<1>3. Raw(kept)
  <2> HIDE DEF Raw
  <2>1. QED BY <1>2
<1>4. Without(seq, b) = kept[Len(seq)]
  BY Zenon DEF Without
<1> HIDE DEF kept
<1>5. /\ kept[0] = <<>>
      /\ \A i \in 1..Len(seq) :
           kept[i] = IF seq[i] = b THEN kept[i - 1] ELSE Append(kept[i - 1], seq[i])
  <2>1. \A i \in 0..Len(seq) :
          kept[i] = IF i = 0 THEN <<>>
                    ELSE IF seq[i] = b THEN kept[i - 1]
                         ELSE Append(kept[i - 1], seq[i])
    BY <1>3, Zenon
  <2>2. 0 \in 0..Len(seq) /\ \A i \in 1..Len(seq) : i \in 0..Len(seq) /\ i # 0
    BY <1>1
  <2>3. QED BY <2>1, <2>2, Zenon
<1> HIDE DEF Raw
<1>6. 0 \in S
  <2>1. <<>> \in Seq(Backends) /\ Elements(<<>>) = {} /\ First1(0) = {}
    BY EmptySeq
  <2>2. QED BY <1>5, <2>1
<1>7. ASSUME NEW k \in S
      PROVE  k + 1 \in S
  <2>1. SUFFICES ASSUME k + 1 <= Len(seq)
                 PROVE  /\ kept[k + 1] \in Seq(Backends)
                        /\ Elements(kept[k + 1]) = First1(k + 1) \ {b}
    <3>1. k + 1 \in Nat
      OBVIOUS
    <3>2. QED BY <3>1, Zenon
  <2>2. k \in Nat /\ k + 1 \in 1..Len(seq) /\ (k + 1) - 1 = k
    BY <1>1, <2>1
  <2>3. kept[k] \in Seq(Backends) /\ Elements(kept[k]) = First1(k) \ {b}
    <3>1. k <= Len(seq)
      BY <1>1, <2>1, <2>2
    <3>2. QED BY <3>1, Zenon
  <2> DEFINE e == seq[k + 1]
  <2>4. kept[k + 1] = IF e = b THEN kept[k] ELSE Append(kept[k], e)
    BY <1>5, <2>2
  <2>5. e \in Backends
    BY <1>1, <2>2
  <2>6. First1(k + 1) = First1(k) \cup {e}
    <3>1. 1..(k + 1) = (1..k) \cup {k + 1}
      BY <2>2
    <3>2. QED BY <3>1
  <2> HIDE DEF e, First1
  <2>7. CASE e = b
    <3>1. kept[k + 1] = kept[k]
      BY <2>4, <2>7
    <3>2. QED BY <2>3, <2>6, <2>7, <3>1
  <2>8. CASE e # b
    <3> DEFINE s == kept[k]
               t == Append(s, e)
    <3>1. kept[k + 1] = t
      BY <2>4, <2>8
    <3>2. /\ t \in Seq(Backends) /\ Len(t) = Len(s) + 1 /\ Len(s) \in Nat
          /\ DOMAIN s = 1..Len(s) /\ DOMAIN t = 1..Len(t)
          /\ \A i \in 1..Len(s) : t[i] = s[i]
          /\ t[Len(s) + 1] = e
      BY <2>3, <2>5, AppendProperties, LenProperties
    <3> HIDE DEF t, s
    <3>3. Elements(t) = Elements(s) \cup {e}
      <4>1. 1..(Len(s) + 1) = (1..Len(s)) \cup {Len(s) + 1}
        BY <3>2
      <4>2. QED BY <3>2, <4>1
    <3>4. Elements(s) = First1(k) \ {b}
      BY <2>3 DEF s
    <3> HIDE DEF Elements
    <3>5. Elements(t) = First1(k + 1) \ {b}
      BY <2>6, <2>8, <3>3, <3>4
    <3>6. QED BY <3>1, <3>2, <3>5
  <2>9. QED BY <2>7, <2>8
<1>8. S = Nat
  <2> HIDE DEF S
  <2>1. S \in SUBSET Nat
    BY DEF S
  <2>2. QED BY <1>6, <1>7, <2>1, InductionBySets
<1>9. /\ kept[Len(seq)] \in Seq(Backends)
      /\ Elements(kept[Len(seq)]) = First1(Len(seq)) \ {b}
  <2>1. Len(seq) <= Len(seq)
    BY <1>1
  <2>2. Len(seq) \in S
    BY <1>1, <1>8, Zenon
  <2>3. QED BY <2>1, <2>2, Zenon
<1>10. First1(Len(seq)) = {seq[i] : i \in DOMAIN seq}
  BY <1>1
<1>11. QED BY <1>4, <1>9, <1>10

-----------------------------------------------------------------------------
(* First: what LTRIM leaves.                                                  *)
LEMMA FirstFacts ==
  ASSUME NEW n \in Nat, n > 0, NEW seq \in Seq(Samples)
  PROVE  /\ First(n, seq) \in Seq(Samples)
         /\ Len(First(n, seq)) = IF n < Len(seq) THEN n ELSE Len(seq)
         /\ \A i \in 1..Len(First(n, seq)) : First(n, seq)[i] = seq[i]
<1> DEFINE len == Len(seq)
           m == IF n < len THEN n ELSE len
           t == SubSeq(seq, 1, m)
<1>1. len \in Nat /\ \A i \in 1..len : seq[i] \in Samples
  BY LenProperties, ElementOfSeq
<1> HIDE DEF len
<1>2. m \in Nat /\ m <= len /\ 1 \in Int /\ m \in Int
  BY <1>1
<1> HIDE DEF m
<1>3. \A i \in 1..m : seq[i] \in Samples
  BY <1>1, <1>2
<1>4. /\ t \in Seq(Samples) /\ Len(t) = IF 1 <= m THEN m - 1 + 1 ELSE 0
      /\ \A i \in 1..(m - 1 + 1) : t[i] = seq[1 + i - 1]
  BY <1>2, <1>3, SubSeqProperties
<1> HIDE DEF t
<1>5. Len(t) = m /\ \A i \in 1..m : t[i] = seq[i]
  BY <1>2, <1>4
<1>6. First(n, seq) = t
  BY DEF First, t, m, len
<1>7. QED BY <1>4, <1>5, <1>6 DEF m, len

LEMMA FirstOfFirst ==
  ASSUME NEW n \in Nat, n > 0, NEW seq \in Seq(Samples)
  PROVE  First(n, First(n, seq)) = First(n, seq)
<1> DEFINE s == First(n, seq)
           t == First(n, s)
<1>1. /\ s \in Seq(Samples)
      /\ Len(s) = IF n < Len(seq) THEN n ELSE Len(seq)
  BY FirstFacts
<1> HIDE DEF s
<1>2. /\ t \in Seq(Samples)
      /\ Len(t) = IF n < Len(s) THEN n ELSE Len(s)
      /\ \A i \in 1..Len(t) : t[i] = s[i]
  BY <1>1, FirstFacts
<1> HIDE DEF t
<1>3. Len(seq) \in Nat /\ Len(s) \in Nat
  BY <1>1, LenProperties
<1>4. Len(t) = Len(s)
  BY <1>1, <1>2, <1>3
<1>5. t = s
  BY <1>1, <1>2, <1>4, SeqEqual
<1>6. QED BY <1>5 DEF s, t

LEMMA PushedFacts ==
  ASSUME NEW e \in Samples, NEW seq \in Seq(Samples)
  PROVE  /\ <<e>> \o seq \in Seq(Samples)
         /\ Len(seq) \in Nat /\ Len(<<e>> \o seq) = Len(seq) + 1
         /\ (<<e>> \o seq)[1] = e
         /\ \A i \in 2..(Len(seq) + 1) : (<<e>> \o seq)[i] = seq[i - 1]
<1> DEFINE one == <<e>>
           n == Len(seq)
           t == one \o seq
<1>1. one \in Seq(Samples) /\ Len(one) = 1 /\ one[1] = e /\ n \in Nat
  BY LenProperties
<1> HIDE DEF one
<1>2. /\ t \in Seq(Samples) /\ Len(t) = Len(one) + n
      /\ \A i \in 1..(Len(one) + n) :
           t[i] = IF i <= Len(one) THEN one[i] ELSE seq[i - Len(one)]
  BY <1>1, ConcatProperties
<1> HIDE DEF t, n
<1>3. Len(t) = n + 1
  BY <1>1, <1>2
<1>4. t[1] = e
  <2>1. 1 \in 1..(Len(one) + n) /\ 1 <= Len(one)
    BY <1>1
  <2>2. QED BY <1>1, <1>2, <2>1
<1>5. ASSUME NEW i \in 2..(n + 1)
      PROVE  t[i] = seq[i - 1]
  <2>1. i \in 1..(Len(one) + n) /\ ~(i <= Len(one)) /\ i - Len(one) = i - 1
    BY <1>1
  <2>2. QED BY <1>2, <2>1
<1>6. QED BY <1>1, <1>2, <1>3, <1>4, <1>5 DEF t, n, one

(* A push on what a trim would leave, and a push on the whole list, have the  *)
(* same n samples in front.                                                   *)
LEMMA FirstOfPushed ==
  ASSUME NEW n \in Nat, n > 0, NEW e \in Samples, NEW seq \in Seq(Samples)
  PROVE  First(n, <<e>> \o First(n, seq)) = First(n, <<e>> \o seq)
<1> DEFINE s == First(n, seq)
           ps == <<e>> \o s
           pq == <<e>> \o seq
           fs == First(n, ps)
           fq == First(n, pq)
<1>1. /\ s \in Seq(Samples)
      /\ Len(s) = IF n < Len(seq) THEN n ELSE Len(seq)
      /\ \A i \in 1..Len(s) : s[i] = seq[i]
  BY FirstFacts
<1> HIDE DEF s
<1>2. /\ ps \in Seq(Samples) /\ Len(s) \in Nat /\ Len(ps) = Len(s) + 1
      /\ ps[1] = e /\ \A i \in 2..(Len(s) + 1) : ps[i] = s[i - 1]
  BY <1>1, PushedFacts
<1>3. /\ pq \in Seq(Samples) /\ Len(seq) \in Nat /\ Len(pq) = Len(seq) + 1
      /\ pq[1] = e /\ \A i \in 2..(Len(seq) + 1) : pq[i] = seq[i - 1]
  BY PushedFacts
<1> HIDE DEF ps, pq
<1>4. /\ fs \in Seq(Samples)
      /\ Len(fs) = IF n < Len(ps) THEN n ELSE Len(ps)
      /\ \A i \in 1..Len(fs) : fs[i] = ps[i]
  BY <1>2, FirstFacts
<1>5. /\ fq \in Seq(Samples)
      /\ Len(fq) = IF n < Len(pq) THEN n ELSE Len(pq)
      /\ \A i \in 1..Len(fq) : fq[i] = pq[i]
  BY <1>3, FirstFacts
<1> HIDE DEF fs, fq
<1>6. Len(fs) = Len(fq) /\ Len(fs) \in Nat
  BY <1>1, <1>2, <1>3, <1>4, <1>5
<1>7. ASSUME NEW i \in 1..Len(fs)
      PROVE  fs[i] = fq[i]
  <2>1. fs[i] = ps[i] /\ fq[i] = pq[i]
    BY <1>4, <1>5, <1>6
  <2>2. CASE i = 1
    BY <1>2, <1>3, <2>1, <2>2
  <2>3. CASE i # 1
    <3>1. /\ i \in 2..(Len(s) + 1) /\ i - 1 \in 1..Len(s)
          /\ i \in 2..(Len(seq) + 1)
      BY <1>1, <1>2, <1>3, <1>4, <1>6, <2>3
    <3>2. ps[i] = s[i - 1] /\ pq[i] = seq[i - 1] /\ s[i - 1] = seq[i - 1]
      BY <1>1, <1>2, <1>3, <3>1
    <3>3. QED BY <2>1, <3>2
  <2>4. QED BY <2>2, <2>3
<1>8. fs = fq
  BY <1>4, <1>5, <1>6, <1>7, SeqEqual
<1>9. QED BY <1>8 DEF fs, fq, ps, pq, s

-----------------------------------------------------------------------------
(* The inductive invariant.  Left(r) is what r has not tried yet; the walk is *)
(* in order while r selects, too; and the scores are those of the candidates  *)
(* of this round, so that the comprehension never reads past their end.       *)
Left(r) == {remaining[r][i] : i \in DOMAIN remaining[r]}

Ordered(r) ==
  \A b \in Backends \ Left(r), c \in Left(r) :
    IF r \in Simple THEN price[b] <= price[c] ELSE price[b] >= price[c]

RequestInv(r) ==
  /\ pc[r] = "select" => Len(scores[r]) <= Len(remaining[r])
  /\ pc[r] # "select" => scores[r] = <<>>
  /\ policy = "cost" /\ pc[r] \in {"select", "call"} => Ordered(r)

Trimming(b) == {r \in Requests : pc[r] = "trim" /\ chosen[r] = b}

RoutingInv ==
  /\ TypeOK
  /\ KeepsNewest
  /\ OverflowIsUntrimmed
  /\ \A r \in Requests : RequestInv(r)

LEMMA RoutingInit == Init => RoutingInv
<1> SUFFICES ASSUME Init
             PROVE  RoutingInv
  OBVIOUS
<1>1. TypeOK
  <2>1. <<>> \in Seq(Samples) /\ <<>> \in Seq(Backends)
        /\ <<>> \in Seq(Samples \cup {Cold})
    BY EmptySeq
  <2>2. 0 \in 0..MaxPrice /\ 0 \in 0..MaxCancels /\ 0 \in Samples
    BY RoutingAssumption DEF Samples
  <2>3. policy \in {"latency", "cost"} /\ price \in [Backends -> 0..MaxPrice]
    BY <2>2 DEF Init
  <2>4. /\ list \in [Backends -> Seq(Samples)]
        /\ recent \in [Backends -> Seq(Samples)]
        /\ remaining \in [Requests -> Seq(Backends)]
        /\ scores \in [Requests -> Seq(Samples \cup {Cold})]
    BY <2>1, Zenon DEF Init
  <2>5. QED BY <2>2, <2>3, <2>4 DEF Init, TypeOK
<1>2. KeepsNewest
  <2> DEFINE e == <<>>
             t == First(Window, e)
  <2>1. Window \in Nat /\ Window > 0 /\ Len(e) = 0 /\ e \in Seq(Samples)
    BY RoutingAssumption, EmptySeq
  <2> HIDE DEF e
  <2>2. t \in Seq(Samples) /\ Len(t) = IF Window < Len(e) THEN Window ELSE Len(e)
    BY <2>1, FirstFacts
  <2> HIDE DEF t
  <2>3. Len(t) = 0
    BY <2>1, <2>2
  <2>4. t = e
    BY <2>1, <2>2, <2>3, SeqEqual
  <2>5. QED BY <2>4, Zenon DEF Init, KeepsNewest, t, e
<1>3. OverflowIsUntrimmed
  <2>1. ASSUME NEW b \in Backends
        PROVE  Len(list[b]) <= Window + cancels + Cardinality(Trimming(b))
    <3>1. Trimming(b) = {}
      BY DEF Init, Trimming
    <3>2. Cardinality(Trimming(b)) = 0
      BY <3>1, FS_EmptySet
    <3>3. Len(list[b]) = 0 /\ cancels = 0
      BY DEF Init
    <3>4. QED BY <3>2, <3>3, RoutingAssumption
  <2>2. QED BY <2>1 DEF OverflowIsUntrimmed, Trimming
<1>4. ASSUME NEW r \in Requests
      PROVE  RequestInv(r)
  BY DEF Init, RequestInv
<1>5. QED BY <1>1, <1>2, <1>3, <1>4 DEF RoutingInv

(* What a step keeps that leaves the lists alone and trims nothing.           *)
LEMMA ListsKept ==
  ASSUME RoutingInv, UNCHANGED <<list, recent, cancels>>,
         \A b \in Backends : Trimming(b)' = Trimming(b)
  PROVE  KeepsNewest' /\ OverflowIsUntrimmed'
<1>1. KeepsNewest'
  BY DEF RoutingInv, KeepsNewest
<1>2. ASSUME NEW b \in Backends
      PROVE  Len(list[b])' <= Window + cancels' + Cardinality(Trimming(b)')
  BY DEF RoutingInv, OverflowIsUntrimmed, Trimming
<1>3. QED BY <1>1, <1>2 DEF OverflowIsUntrimmed, Trimming

(* What a step of another request does to q.                                  *)
LEMMA OthersKept ==
  ASSUME NEW q, RequestInv(q), UNCHANGED settings,
         pc'[q] = pc[q], remaining'[q] = remaining[q], scores'[q] = scores[q]
  PROVE  RequestInv(q)'
<1>1. Left(q)' = Left(q)
  BY DEF Left
<1>2. Ordered(q) => Ordered(q)'
  BY <1>1 DEF Ordered, settings
<1>3. QED BY <1>2, Zenon DEF RequestInv, settings

LEMMA StartKeeps ==
  ASSUME RoutingInv, NEW r \in Requests, NEW d \in Samples, Start(r, d)
  PROVE  RoutingInv'
<1> DEFINE all == [i \in Backends |-> i]
<1>1. NumBackends \in Nat /\ all \in Seq(Backends) /\ DOMAIN all = Backends
  BY RoutingAssumption DEF Backends
<1>2. TypeOK'
  <2>1. remaining' \in [Requests -> Seq(Backends)]
    BY <1>1 DEF RoutingInv, TypeOK, Start
  <2>2. /\ elapsed' \in [Requests -> Samples]
        /\ pc' \in [Requests -> {"idle", "select", "call", "push", "trim"}]
    BY DEF RoutingInv, TypeOK, Start, Goto
  <2>3. UNCHANGED <<policy, price, list, scores, chosen, recent, cancels>>
    BY DEF Start, settings
  <2>4. QED BY <2>1, <2>2, <2>3 DEF RoutingInv, TypeOK
<1>3. /\ pc[r] = "idle" /\ pc'[r] = "select"
      /\ \A q \in Requests \ {r} : pc'[q] = pc[q] /\ remaining'[q] = remaining[q]
      /\ remaining'[r] = all
      /\ UNCHANGED <<settings, list, scores, chosen, recent, cancels>>
  BY DEF RoutingInv, TypeOK, Start, Goto
<1>4. KeepsNewest' /\ OverflowIsUntrimmed'
  <2>1. \A b \in Backends : Trimming(b)' = Trimming(b)
    BY <1>3 DEF Trimming
  <2>2. QED BY <1>3, <2>1, ListsKept
<1>5. RequestInv(r)'
  <2>1. scores'[r] = <<>> /\ Len(scores'[r]) = 0
    BY <1>3 DEF RoutingInv, RequestInv
  <2>2. Len(remaining'[r]) \in Nat
    BY <1>1, <1>3, LenProperties
  <2>3. Left(r)' = Backends
    BY <1>1, <1>3 DEF Left
  <2>4. Ordered(r)'
    BY <2>3 DEF Ordered
  <2>5. QED BY <1>3, <2>1, <2>2, <2>4 DEF RequestInv
<1>6. \A q \in Requests : RequestInv(q)'
  BY <1>3, <1>5, OthersKept DEF RoutingInv
<1>7. QED BY <1>2, <1>4, <1>6 DEF RoutingInv

(* The next score is that of the next candidate.                              *)
LEMMA ReadScoreKeeps ==
  ASSUME RoutingInv, NEW r \in Requests, ReadScore(r)
  PROVE  RoutingInv'
<1> DEFINE n == Len(scores[r])
           m == Len(remaining[r])
           p == P95(list[remaining[r][n + 1]])
<1>1. /\ scores[r] \in Seq(Samples \cup {Cold}) /\ remaining[r] \in Seq(Backends)
      /\ n \in Nat /\ m \in Nat
  BY LenProperties DEF RoutingInv, TypeOK
<1>2. n <= m /\ n # m
  BY DEF RoutingInv, RequestInv, ReadScore, ScoresRead
<1>3. p \in Samples \cup {Cold}
  <2>1. n + 1 \in 1..m
    BY <1>1, <1>2
  <2>2. remaining[r][n + 1] \in Backends
    BY <1>1, <2>1, ElementOfSeq
  <2>3. list[remaining[r][n + 1]] \in Seq(Samples)
    BY <2>2 DEF RoutingInv, TypeOK
  <2>4. QED BY <2>3, P95Facts
<1>4. /\ Append(scores[r], p) \in Seq(Samples \cup {Cold})
      /\ Len(Append(scores[r], p)) = n + 1
  BY <1>1, <1>3, AppendProperties
<1>5. scores' = [scores EXCEPT ![r] = Append(scores[r], p)]
  BY DEF ReadScore
<1> HIDE DEF p
<1>6. UNCHANGED <<settings, policy, price, list, pc, remaining, chosen, elapsed,
                  recent, cancels>>
  BY DEF ReadScore, settings
<1>7. scores' \in [Requests -> Seq(Samples \cup {Cold})]
  BY <1>4, <1>5 DEF RoutingInv, TypeOK
<1>8. TypeOK'
  BY <1>6, <1>7 DEF RoutingInv, TypeOK
<1>9. KeepsNewest' /\ OverflowIsUntrimmed'
  <2>1. \A b \in Backends : Trimming(b)' = Trimming(b)
    BY <1>6 DEF Trimming
  <2>2. QED BY <1>6, <2>1, ListsKept
<1>10. /\ scores'[r] = Append(scores[r], p)
       /\ \A q \in Requests \ {r} : scores'[q] = scores[q]
  BY <1>5 DEF RoutingInv, TypeOK
<1>11. RequestInv(r)'
  <2>1. pc'[r] = "select" /\ Len(scores'[r]) <= Len(remaining'[r])
    <3>1. n + 1 <= m
      BY <1>1, <1>2
    <3>2. QED BY <1>4, <1>6, <1>10, <3>1 DEF ReadScore
  <2>2. Left(r)' = Left(r)
    BY <1>6 DEF Left
  <2>3. policy' = "cost" => Ordered(r)'
    BY <1>6, <2>2 DEF RoutingInv, RequestInv, Ordered, ReadScore
  <2>4. QED BY <2>1, <2>3 DEF RequestInv
<1>12. \A q \in Requests : RequestInv(q)'
  BY <1>6, <1>10, <1>11, OthersKept DEF RoutingInv
<1>13. QED BY <1>8, <1>9, <1>12 DEF RoutingInv

(* The policies choose a candidate that is left; the cost policy the cheapest *)
(* one for a simple request, and the dearest one for a complex one.           *)
LEMMA LatencySelects ==
  ASSUME RoutingInv, NEW r \in Requests, pc[r] = "select", ScoresRead(r),
         remaining[r] # <<>>, policy = "latency"
  PROVE  LatencySelect(r) \in 1..Len(remaining[r])
<1> DEFINE n == Len(remaining[r])
           keys == [i \in DOMAIN scores[r] |-> Key(scores[r][i])]
<1>1. /\ n \in Nat /\ n > 0
      /\ scores[r] \in Seq(Samples \cup {Cold}) /\ DOMAIN scores[r] = 1..Len(scores[r])
  BY LenProperties, EmptySeq DEF RoutingInv, TypeOK
<1>2. CASE n = 1
  BY <1>1, <1>2 DEF LatencySelect
<1>3. CASE n # 1
  <2>1. Len(scores[r]) = n
    <3> HIDE DEF n
    <3>1. n > 1
      BY <1>1, <1>3
    <3>2. policy = "latency" /\ Len(remaining[r]) > 1
      BY <3>1 DEF n
    <3>3. QED BY <3>2, Zenon DEF ScoresRead, n
  <2>2. keys \in [1..n -> Nat]
    <3>1. ASSUME NEW i \in 1..n
          PROVE  Key(scores[r][i]) \in Nat
      <4>1. scores[r][i] \in Samples \cup {Cold}
        BY <1>1, <2>1, ElementOfSeq
      <4>2. QED BY <4>1, RoutingAssumption DEF Key, Samples, Cold
    <3>2. QED BY <1>1, <2>1, <3>1
  <2>3. LatencySelect(r) = FirstLeast(keys)
    BY <1>3 DEF LatencySelect
  <2> HIDE DEF keys
  <2>4. QED BY <1>1, <2>2, <2>3, FirstLeastIs
<1>4. QED BY <1>2, <1>3

LEMMA CostSelects ==
  ASSUME RoutingInv, NEW r \in Requests, remaining[r] # <<>>
  PROVE  /\ CostSelect(r) \in 1..Len(remaining[r])
         /\ \A j \in 1..Len(remaining[r]) :
              IF r \in Simple
              THEN price[remaining[r][CostSelect(r)]] <= price[remaining[r][j]]
              ELSE price[remaining[r][CostSelect(r)]] >= price[remaining[r][j]]
<1> DEFINE n == Len(remaining[r])
           costs == [i \in DOMAIN remaining[r] |-> price[remaining[r][i]]]
<1>1. /\ n \in Nat /\ n > 0
      /\ remaining[r] \in Seq(Backends) /\ DOMAIN remaining[r] = 1..n
  BY LenProperties, EmptySeq DEF RoutingInv, TypeOK
<1>2. MaxPrice \in Nat
  BY RoutingAssumption
<1>3. costs \in [1..n -> 0..MaxPrice]
  <2>1. ASSUME NEW i \in 1..n
        PROVE  price[remaining[r][i]] \in 0..MaxPrice
    <3>1. remaining[r][i] \in Backends
      BY <1>1, ElementOfSeq
    <3>2. QED BY <3>1 DEF RoutingInv, TypeOK
  <2>2. QED BY <1>1, <2>1
<1>4. costs \in [1..n -> Nat]
  <2>1. \A k \in 0..MaxPrice : k \in Nat
    BY <1>2
  <2>2. QED BY <1>3, <2>1
<1>5. \A j \in 1..n : costs[j] = price[remaining[r][j]]
  BY <1>1
<1>6. CostSelect(r) = IF r \in Simple THEN FirstLeast(costs) ELSE LastGreatest(costs)
  BY DEF CostSelect
<1> HIDE DEF costs
<1>7. CASE r \in Simple
  <2>1. CostSelect(r) = FirstLeast(costs)
    BY <1>6, <1>7
  <2>2. /\ FirstLeast(costs) \in 1..n
        /\ \A j \in 1..n : costs[FirstLeast(costs)] <= costs[j]
    BY <1>1, <1>4, FirstLeastIs
  <2>3. QED BY <1>5, <1>7, <2>1, <2>2
<1>8. CASE r \notin Simple
  <2>1. CostSelect(r) = LastGreatest(costs)
    BY <1>6, <1>8
  <2>2. /\ LastGreatest(costs) \in 1..n
        /\ \A j \in 1..n : costs[LastGreatest(costs)] >= costs[j]
    BY <1>1, <1>2, <1>3, LastGreatestIs
  <2>3. QED BY <1>5, <1>8, <2>1, <2>2
<1>9. QED BY <1>7, <1>8

LEMMA ChooseKeeps ==
  ASSUME RoutingInv, NEW r \in Requests, Choose(r)
  PROVE  RoutingInv'
<1> DEFINE i == IF policy = "cost" THEN CostSelect(r) ELSE LatencySelect(r)
           b == remaining[r][i]
           rest == Without(remaining[r], b)
<1>1. /\ pc[r] = "select" /\ ScoresRead(r) /\ remaining[r] # <<>>
      /\ chosen' = [chosen EXCEPT ![r] = b]
      /\ remaining' = [remaining EXCEPT ![r] = rest]
      /\ scores' = [scores EXCEPT ![r] = <<>>]
      /\ Goto(r, "call")
      /\ UNCHANGED <<settings, list, elapsed, recent, cancels>>
  BY Zenon DEF Choose
<1>2. /\ remaining[r] \in Seq(Backends) /\ policy \in {"latency", "cost"}
      /\ DOMAIN remaining[r] = 1..Len(remaining[r])
  BY LenProperties DEF RoutingInv, TypeOK
<1>3. i \in 1..Len(remaining[r])
  <2>1. CASE policy = "cost"
    BY <1>1, <2>1, CostSelects
  <2>2. CASE policy = "latency"
    BY <1>1, <2>2, LatencySelects
  <2>3. QED BY <1>2, <2>1, <2>2
<1>4. b \in Backends
  BY <1>2, <1>3, ElementOfSeq
<1>5. policy = "cost" =>
        \A j \in 1..Len(remaining[r]) :
          IF r \in Simple THEN price[b] <= price[remaining[r][j]]
                          ELSE price[b] >= price[remaining[r][j]]
  BY <1>1, CostSelects
<1> HIDE DEF i, b
<1>6. /\ rest \in Seq(Backends)
      /\ {rest[j] : j \in DOMAIN rest} = Left(r) \ {b}
  BY <1>2, <1>4, WithoutFacts DEF Left
<1> HIDE DEF rest
<1>7. TypeOK'
  <2>1. remaining' \in [Requests -> Seq(Backends)]
    BY <1>1, <1>6 DEF RoutingInv, TypeOK
  <2>2. chosen' \in [Requests -> Backends \cup {0}]
    BY <1>1, <1>4 DEF RoutingInv, TypeOK
  <2>3. scores' \in [Requests -> Seq(Samples \cup {Cold})]
    <3>1. <<>> \in Seq(Samples \cup {Cold})
      BY EmptySeq
    <3>2. QED BY <1>1, <3>1 DEF RoutingInv, TypeOK
  <2>4. pc' \in [Requests -> {"idle", "select", "call", "push", "trim"}]
    BY <1>1 DEF RoutingInv, TypeOK, Goto
  <2>5. UNCHANGED <<policy, price, list, elapsed, recent, cancels>>
    BY <1>1 DEF settings
  <2>6. QED BY <2>1, <2>2, <2>3, <2>4, <2>5 DEF RoutingInv, TypeOK
<1>8. pc'[r] = "call" /\ remaining'[r] = rest /\ scores'[r] = <<>>
  BY <1>1 DEF RoutingInv, TypeOK, Goto
<1>9. \A q \in Requests \ {r} :
        /\ pc'[q] = pc[q] /\ remaining'[q] = remaining[q]
        /\ scores'[q] = scores[q] /\ chosen'[q] = chosen[q]
  BY <1>1 DEF RoutingInv, TypeOK, Goto
<1>10. KeepsNewest' /\ OverflowIsUntrimmed'
  <2>1. \A c \in Backends : Trimming(c)' = Trimming(c)
    BY <1>1, <1>8, <1>9 DEF Trimming
  <2>2. QED BY <1>1, <2>1, ListsKept
<1>11. Left(r)' = Left(r) \ {b}
  BY <1>6, <1>8 DEF Left
<1>12. ASSUME policy' = "cost"
       PROVE  Ordered(r)'
  <2>1. policy = "cost" /\ price' = price
    BY <1>1, <1>12 DEF settings
  <2>2. Ordered(r)
    BY <1>1, <2>1 DEF RoutingInv, RequestInv
  <2>3. ASSUME NEW x \in Backends \ Left(r)', NEW c \in Left(r)'
        PROVE  IF r \in Simple THEN price[x] <= price[c] ELSE price[x] >= price[c]
    <3>1. c \in Left(r) /\ (x = b \/ x \in Backends \ Left(r))
      BY <1>11, <2>3
    <3>2. CASE x = b
      <4>1. PICK j \in 1..Len(remaining[r]) : c = remaining[r][j]
        BY <1>2, <3>1 DEF Left
      <4>2. QED BY <1>5, <2>1, <3>2, <4>1
    <3>3. CASE x \in Backends \ Left(r)
      BY <2>2, <3>1, <3>3 DEF Ordered
    <3>4. QED BY <3>1, <3>2, <3>3
  <2>4. QED BY <2>1, <2>3 DEF Ordered
<1>13. RequestInv(r)'
  BY <1>8, <1>12 DEF RequestInv
<1>14. \A q \in Requests : RequestInv(q)'
  BY <1>1, <1>9, <1>13, OthersKept DEF RoutingInv
<1>15. QED BY <1>7, <1>10, <1>14 DEF RoutingInv

LEMMA FailKeeps ==
  ASSUME RoutingInv, NEW r \in Requests, NEW d \in Samples, Fail(r, d)
  PROVE  RoutingInv'
<1>1. /\ pc[r] = "call" /\ pc'[r] = "select"
      /\ \A q \in Requests \ {r} : pc'[q] = pc[q]
      /\ UNCHANGED <<settings, policy, price, list, remaining, scores, chosen,
                     recent, cancels>>
  BY DEF RoutingInv, TypeOK, Fail, Goto, settings
<1>2. TypeOK'
  <2>1. elapsed[r] + d \in Samples
    BY RoutingAssumption DEF RoutingInv, TypeOK, Fail, Samples
  <2>2. elapsed' \in [Requests -> Samples]
    BY <2>1 DEF RoutingInv, TypeOK, Fail
  <2>3. pc' \in [Requests -> {"idle", "select", "call", "push", "trim"}]
    BY DEF RoutingInv, TypeOK, Fail, Goto
  <2>4. QED BY <1>1, <2>2, <2>3 DEF RoutingInv, TypeOK
<1>3. KeepsNewest' /\ OverflowIsUntrimmed'
  <2>1. \A b \in Backends : Trimming(b)' = Trimming(b)
    BY <1>1 DEF Trimming
  <2>2. QED BY <1>1, <2>1, ListsKept
<1>4. RequestInv(r)'
  <2>1. scores'[r] = <<>> /\ Len(scores'[r]) = 0
    BY <1>1 DEF RoutingInv, RequestInv
  <2>2. Len(remaining'[r]) \in Nat
    BY <1>2, LenProperties DEF TypeOK
  <2>3. Left(r)' = Left(r)
    BY <1>1 DEF Left
  <2>4. policy' = "cost" => Ordered(r)'
    BY <1>1, <2>3 DEF RoutingInv, RequestInv, Ordered
  <2>5. QED BY <1>1, <2>1, <2>2, <2>4 DEF RequestInv
<1>5. \A q \in Requests : RequestInv(q)'
  BY <1>1, <1>4, OthersKept DEF RoutingInv
<1>6. QED BY <1>2, <1>3, <1>5 DEF RoutingInv

LEMMA SucceedKeeps ==
  ASSUME RoutingInv, NEW r \in Requests, NEW d \in Samples, Succeed(r, d)
  PROVE  RoutingInv'
<1>1. /\ pc[r] = "call" /\ pc'[r] = "push"
      /\ \A q \in Requests \ {r} : pc'[q] = pc[q]
      /\ UNCHANGED <<settings, policy, price, list, remaining, scores, chosen,
                     recent, cancels>>
  BY DEF RoutingInv, TypeOK, Succeed, Goto, settings
<1>2. TypeOK'
  <2>1. elapsed[r] + d \in Samples
    BY RoutingAssumption DEF RoutingInv, TypeOK, Succeed, Samples
  <2>2. elapsed' \in [Requests -> Samples]
    BY <2>1 DEF RoutingInv, TypeOK, Succeed
  <2>3. pc' \in [Requests -> {"idle", "select", "call", "push", "trim"}]
    BY DEF RoutingInv, TypeOK, Succeed, Goto
  <2>4. QED BY <1>1, <2>2, <2>3 DEF RoutingInv, TypeOK
<1>3. KeepsNewest' /\ OverflowIsUntrimmed'
  <2>1. \A b \in Backends : Trimming(b)' = Trimming(b)
    BY <1>1 DEF Trimming
  <2>2. QED BY <1>1, <2>1, ListsKept
<1>4. RequestInv(r)'
  BY <1>1 DEF RoutingInv, RequestInv
<1>5. \A q \in Requests : RequestInv(q)'
  BY <1>1, <1>4, OthersKept DEF RoutingInv
<1>6. QED BY <1>2, <1>3, <1>5 DEF RoutingInv

(* A request that leaves: its local variables are those of Init.              *)
LEMMA LeaveFacts ==
  ASSUME RoutingInv, NEW r \in Requests, Leave(r)
  PROVE  /\ pc' \in [Requests -> {"idle", "select", "call", "push", "trim"}]
         /\ remaining' \in [Requests -> Seq(Backends)]
         /\ scores' \in [Requests -> Seq(Samples \cup {Cold})]
         /\ chosen' \in [Requests -> Backends \cup {0}]
         /\ elapsed' \in [Requests -> Samples]
         /\ \A b \in Backends : Trimming(b)' = Trimming(b) \ {r}
         /\ UNCHANGED settings => \A q \in Requests : RequestInv(q)'
<1>1. <<>> \in Seq(Backends) /\ <<>> \in Seq(Samples \cup {Cold}) /\ 0 \in Samples
  BY EmptySeq, RoutingAssumption DEF Samples
<1>2. pc' \in [Requests -> {"idle", "select", "call", "push", "trim"}]
  BY DEF RoutingInv, TypeOK, Leave, Goto
<1>3. remaining' \in [Requests -> Seq(Backends)]
  BY <1>1 DEF RoutingInv, TypeOK, Leave
<1>4. scores' \in [Requests -> Seq(Samples \cup {Cold})]
  BY <1>1 DEF RoutingInv, TypeOK, Leave
<1>5. /\ chosen' \in [Requests -> Backends \cup {0}]
      /\ elapsed' \in [Requests -> Samples]
  BY <1>1 DEF RoutingInv, TypeOK, Leave
<1>6. pc'[r] = "idle" /\ scores'[r] = <<>>
  BY DEF RoutingInv, TypeOK, Leave, Goto
<1>7. \A q \in Requests \ {r} :
        /\ pc'[q] = pc[q] /\ remaining'[q] = remaining[q]
        /\ scores'[q] = scores[q] /\ chosen'[q] = chosen[q]
  BY DEF RoutingInv, TypeOK, Leave, Goto
<1>8. \A b \in Backends : Trimming(b)' = Trimming(b) \ {r}
  BY <1>6, <1>7 DEF Trimming
<1>9. ASSUME UNCHANGED settings, NEW q \in Requests
      PROVE  RequestInv(q)'
  <2>1. CASE q = r
    BY <1>6, <2>1 DEF RequestInv
  <2>2. CASE q # r
    BY <1>7, <1>9, <2>2, OthersKept DEF RoutingInv
  <2>3. QED BY <2>1, <2>2
<1>10. QED BY <1>2, <1>3, <1>4, <1>5, <1>8, <1>9

LEMMA TrimmingFinite ==
  ASSUME NEW b
  PROVE  IsFiniteSet(Trimming(b)) /\ Cardinality(Trimming(b)) \in Nat
<1>1. Trimming(b) \in SUBSET Requests
  BY DEF Trimming
<1>2. IsFiniteSet(Trimming(b))
  BY <1>1, FS_Subset, RoutingAssumption
<1>3. QED BY <1>2, FS_CardinalityType

LEMMA GiveUpKeeps ==
  ASSUME RoutingInv, NEW r \in Requests, GiveUp(r)
  PROVE  RoutingInv'
<1>1. /\ pc[r] = "select" /\ Leave(r)
      /\ UNCHANGED <<settings, policy, price, list, recent, cancels>>
  BY DEF GiveUp, settings
<1>2. TypeOK'
  BY <1>1, LeaveFacts DEF RoutingInv, TypeOK
<1>3. \A b \in Backends : Trimming(b)' = Trimming(b)
  BY <1>1, LeaveFacts DEF Trimming
<1>4. KeepsNewest' /\ OverflowIsUntrimmed'
  BY <1>1, <1>3, ListsKept
<1>5. \A q \in Requests : RequestInv(q)'
  BY <1>1, LeaveFacts
<1>6. QED BY <1>2, <1>4, <1>5 DEF RoutingInv

(* The list grows by one sample and the set of those who will trim it by r.   *)
LEMMA PushKeeps ==
  ASSUME RoutingInv, NEW r \in Requests, Push(r)
  PROVE  RoutingInv'
<1> DEFINE c == chosen[r]
           e == elapsed[r]
<1>1. Window \in Nat /\ Window > 0 /\ e \in Samples
  BY RoutingAssumption DEF RoutingInv, TypeOK
<1>2. /\ pc[r] = "push" /\ pc'[r] = "trim"
      /\ \A q \in Requests \ {r} : pc'[q] = pc[q]
      /\ UNCHANGED <<settings, policy, price, remaining, scores, chosen, elapsed,
                     cancels>>
  BY DEF RoutingInv, TypeOK, Push, Goto, settings
<1>3. /\ list' = [list EXCEPT ![c] = <<e>> \o list[c]]
      /\ recent' = [recent EXCEPT ![c] = First(Window, <<e>> \o recent[c])]
  BY DEF Push, Pushed
<1> HIDE DEF c, e
<1>4. ASSUME NEW b \in Backends
      PROVE  /\ list[b] \in Seq(Samples) /\ recent[b] \in Seq(Samples)
             /\ Len(list[b]) \in Nat
             /\ <<e>> \o list[b] \in Seq(Samples)
             /\ Len(<<e>> \o list[b]) = Len(list[b]) + 1
             /\ <<e>> \o recent[b] \in Seq(Samples)
             /\ First(Window, <<e>> \o recent[b]) \in Seq(Samples)
  <2>1. list[b] \in Seq(Samples) /\ recent[b] \in Seq(Samples)
    BY DEF RoutingInv, TypeOK
  <2>2. /\ Len(list[b]) \in Nat /\ <<e>> \o list[b] \in Seq(Samples)
        /\ Len(<<e>> \o list[b]) = Len(list[b]) + 1
    BY <1>1, <2>1, PushedFacts
  <2>3. <<e>> \o recent[b] \in Seq(Samples)
    BY <1>1, <2>1, PushedFacts
  <2>4. First(Window, <<e>> \o recent[b]) \in Seq(Samples)
    BY <1>1, <2>3, FirstFacts
  <2>5. QED BY <2>1, <2>2, <2>3, <2>4
<1>5. ASSUME NEW b \in Backends
      PROVE  /\ list'[b] = IF b = c THEN <<e>> \o list[b] ELSE list[b]
             /\ recent'[b] = IF b = c THEN First(Window, <<e>> \o recent[b])
                                      ELSE recent[b]
  BY <1>3 DEF RoutingInv, TypeOK
<1>6. TypeOK'
  <2>1. DOMAIN list' = Backends /\ DOMAIN recent' = Backends
    BY <1>3 DEF RoutingInv, TypeOK
  <2>2. /\ list' = [b \in Backends |-> list'[b]]
        /\ recent' = [b \in Backends |-> recent'[b]]
    BY <1>3, <2>1 DEF RoutingInv, TypeOK
  <2>3. \A b \in Backends : list'[b] \in Seq(Samples)
    BY <1>4, <1>5
  <2>4. \A b \in Backends : recent'[b] \in Seq(Samples)
    BY <1>4, <1>5
  <2>5. list' \in [Backends -> Seq(Samples)] /\ recent' \in [Backends -> Seq(Samples)]
    BY <2>2, <2>3, <2>4
  <2>6. pc' \in [Requests -> {"idle", "select", "call", "push", "trim"}]
    BY DEF RoutingInv, TypeOK, Push, Goto
  <2>7. QED BY <1>2, <2>5, <2>6 DEF RoutingInv, TypeOK
<1>7. KeepsNewest'
  <2>1. ASSUME NEW b \in Backends
        PROVE  First(Window, list'[b]) = recent'[b]
    <3>1. First(Window, list[b]) = recent[b]
      BY DEF RoutingInv, KeepsNewest
    <3>2. First(Window, <<e>> \o First(Window, list[b]))
            = First(Window, <<e>> \o list[b])
      BY <1>1, <1>4, FirstOfPushed
    <3>3. CASE b = c
      BY <1>5, <3>1, <3>2, <3>3
    <3>4. CASE b # c
      BY <1>5, <3>1, <3>4
    <3>5. QED BY <3>3, <3>4
  <2>2. QED BY <2>1 DEF KeepsNewest
<1>8. OverflowIsUntrimmed'
  <2>1. ASSUME NEW b \in Backends
        PROVE  Len(list'[b]) <= Window + cancels' + Cardinality(Trimming(b)')
    <3>1. Len(list[b]) <= Window + cancels + Cardinality(Trimming(b))
      BY DEF RoutingInv, OverflowIsUntrimmed, Trimming
    <3>2. IsFiniteSet(Trimming(b)) /\ Cardinality(Trimming(b)) \in Nat
      BY TrimmingFinite
    <3>3. cancels \in Nat /\ cancels' = cancels
      BY <1>2, RoutingAssumption DEF RoutingInv, TypeOK
    <3>4. CASE b = c
      <4>1. Trimming(b)' = Trimming(b) \cup {r} /\ r \notin Trimming(b)
        BY <1>2, <3>4 DEF Trimming, c
      <4>2. Cardinality(Trimming(b)') = Cardinality(Trimming(b)) + 1
        BY <3>2, <4>1, FS_AddElement
      <4>3. Len(list'[b]) = Len(list[b]) + 1
        BY <1>4, <1>5, <3>4
      <4>4. QED BY <1>1, <1>4, <3>1, <3>2, <3>3, <4>2, <4>3
    <3>5. CASE b # c
      <4>1. Trimming(b)' = Trimming(b)
        BY <1>2, <3>5 DEF Trimming, c
      <4>2. list'[b] = list[b]
        BY <1>5, <3>5
      <4>3. QED BY <3>1, <3>3, <4>1, <4>2
    <3>6. QED BY <3>4, <3>5
  <2>2. QED BY <2>1 DEF OverflowIsUntrimmed, Trimming
<1>9. RequestInv(r)'
  BY <1>2 DEF RoutingInv, RequestInv
<1>10. \A q \in Requests : RequestInv(q)'
  BY <1>2, <1>9, OthersKept DEF RoutingInv
<1>11. QED BY <1>6, <1>7, <1>8, <1>10 DEF RoutingInv

(* The list is cut to Window samples, whoever pushed them.                    *)
LEMMA TrimKeeps ==
  ASSUME RoutingInv, NEW r \in Requests, Trim(r)
  PROVE  RoutingInv'
<1> DEFINE c == chosen[r]
<1>1. Window \in Nat /\ Window > 0
  BY RoutingAssumption
<1>2. /\ Leave(r) /\ UNCHANGED <<settings, policy, price, recent, cancels>>
      /\ list' = [list EXCEPT ![c] = First(Window, list[c])]
      /\ c = chosen[r]
  BY DEF Trim, Trimmed, settings
<1> HIDE DEF c
<1>3. ASSUME NEW b \in Backends
      PROVE  /\ list[b] \in Seq(Samples) /\ Len(list[b]) \in Nat
             /\ First(Window, list[b]) \in Seq(Samples)
             /\ Len(First(Window, list[b])) \in Nat
             /\ Len(First(Window, list[b])) <= Window
  <2>1. list[b] \in Seq(Samples) /\ Len(list[b]) \in Nat
    BY LenProperties DEF RoutingInv, TypeOK
  <2>2. /\ First(Window, list[b]) \in Seq(Samples)
        /\ Len(First(Window, list[b]))
             = IF Window < Len(list[b]) THEN Window ELSE Len(list[b])
    BY <1>1, <2>1, FirstFacts
  <2>3. QED BY <1>1, <2>1, <2>2
<1>4. ASSUME NEW b \in Backends
      PROVE  list'[b] = IF b = c THEN First(Window, list[b]) ELSE list[b]
  BY <1>2 DEF RoutingInv, TypeOK
<1>5. TypeOK'
  <2>1. list' = [b \in Backends |-> list'[b]]
    BY <1>2 DEF RoutingInv, TypeOK
  <2>2. \A b \in Backends : list'[b] \in Seq(Samples)
    BY <1>3, <1>4
  <2>3. list' \in [Backends -> Seq(Samples)]
    BY <2>1, <2>2
  <2>4. QED BY <1>2, <2>3, LeaveFacts DEF RoutingInv, TypeOK
<1>6. KeepsNewest'
  <2>1. ASSUME NEW b \in Backends
        PROVE  First(Window, list'[b]) = recent'[b]
    <3>1. First(Window, list[b]) = recent[b] /\ recent'[b] = recent[b]
      BY <1>2 DEF RoutingInv, KeepsNewest
    <3>2. First(Window, First(Window, list[b])) = First(Window, list[b])
      BY <1>1, <1>3, FirstOfFirst
    <3>3. QED BY <1>4, <3>1, <3>2
  <2>2. QED BY <2>1 DEF KeepsNewest
<1>7. OverflowIsUntrimmed'
  <2>1. ASSUME NEW b \in Backends
        PROVE  Len(list'[b]) <= Window + cancels' + Cardinality(Trimming(b)')
    <3>1. Len(list[b]) <= Window + cancels + Cardinality(Trimming(b))
      BY DEF RoutingInv, OverflowIsUntrimmed, Trimming
    <3>2. IsFiniteSet(Trimming(b)) /\ Cardinality(Trimming(b)) \in Nat
      BY TrimmingFinite
    <3>3. cancels \in Nat /\ cancels' = cancels
      BY <1>2, RoutingAssumption DEF RoutingInv, TypeOK
    <3>4. Trimming(b)' = Trimming(b) \ {r}
      BY <1>2, LeaveFacts
    <3>5. IsFiniteSet(Trimming(b)') /\ Cardinality(Trimming(b)') \in Nat
      BY <3>2, <3>4, FS_RemoveElement, FS_CardinalityType
    <3>6. CASE b = c
      <4>1. list'[b] = First(Window, list[b])
        BY <1>4, <3>6
      <4>2. QED BY <1>1, <1>3, <3>3, <3>5, <4>1
    <3>7. CASE b # c
      <4>1. r \notin Trimming(b)
        BY <1>2, <3>7 DEF Trimming
      <4>2. Trimming(b)' = Trimming(b) /\ list'[b] = list[b]
        BY <1>4, <3>4, <3>7, <4>1
      <4>3. QED BY <3>1, <3>3, <4>2
    <3>8. QED BY <3>6, <3>7
  <2>2. QED BY <2>1 DEF OverflowIsUntrimmed, Trimming
<1>8. \A q \in Requests : RequestInv(q)'
  BY <1>2, LeaveFacts
<1>9. QED BY <1>5, <1>6, <1>7, <1>8 DEF RoutingInv

(* A cancelled request may leave one sample too many behind.                  *)
LEMMA CancelKeeps ==
  ASSUME RoutingInv, NEW r \in Requests, Cancel(r)
  PROVE  RoutingInv'
<1>1. /\ Leave(r) /\ UNCHANGED <<settings, policy, price, list, recent>>
      /\ cancels' = cancels + 1
  BY DEF Cancel, settings
<1>2. cancels \in Nat /\ cancels' \in 0..MaxCancels
  BY <1>1, RoutingAssumption DEF RoutingInv, TypeOK, Cancel
<1>3. TypeOK'
  BY <1>1, <1>2, LeaveFacts DEF RoutingInv, TypeOK
<1>4. KeepsNewest'
  BY <1>1 DEF RoutingInv, KeepsNewest
<1>5. OverflowIsUntrimmed'
  <2>1. ASSUME NEW b \in Backends
        PROVE  Len(list'[b]) <= Window + cancels' + Cardinality(Trimming(b)')
    <3> DEFINE n == Len(list[b])
               t == Cardinality(Trimming(b))
               u == Cardinality(Trimming(b)')
    <3>1. n <= Window + cancels + t
      BY DEF RoutingInv, OverflowIsUntrimmed, Trimming
    <3>2. IsFiniteSet(Trimming(b)) /\ t \in Nat
      BY TrimmingFinite
    <3>3. Trimming(b)' = Trimming(b) \ {r}
      BY <1>1, LeaveFacts
    <3>4. u = t \/ u = t - 1
      BY <3>2, <3>3, FS_RemoveElement
    <3>5. n \in Nat /\ Window \in Nat /\ Len(list'[b]) = n
      BY <1>1, LenProperties, RoutingAssumption DEF RoutingInv, TypeOK
    <3> HIDE DEF n, t, u
    <3>6. n <= Window + (cancels + 1) + u
      BY <1>2, <3>1, <3>2, <3>4, <3>5
    <3>7. QED BY <1>1, <3>5, <3>6 DEF u
  <2>2. QED BY <2>1 DEF OverflowIsUntrimmed, Trimming
<1>6. \A q \in Requests : RequestInv(q)'
  BY <1>1, LeaveFacts
<1>7. QED BY <1>3, <1>4, <1>5, <1>6 DEF RoutingInv

-----------------------------------------------------------------------------
(* RoutingInv holds in every reachable state.                                 *)
THEOREM RoutingSafe == Spec => []RoutingInv
<1>1. RoutingInv /\ [Next]_vars => RoutingInv'
  <2> SUFFICES ASSUME RoutingInv, [Next]_vars
               PROVE  RoutingInv'
    OBVIOUS
  <2>1. ASSUME NEW r \in Requests, NEW d \in Samples, Start(r, d)
        PROVE  RoutingInv'
    BY <2>1, StartKeeps
  <2>2. ASSUME NEW r \in Requests, Step(r)
        PROVE  RoutingInv'
    <3>1. CASE ReadScore(r)
      BY <3>1, ReadScoreKeeps
    <3>2. CASE Choose(r)
      BY <3>2, ChooseKeeps
    <3>3. CASE GiveUp(r)
      BY <3>3, GiveUpKeeps
    <3>4. CASE Push(r)
      BY <3>4, PushKeeps
    <3>5. CASE Trim(r)
      BY <3>5, TrimKeeps
    <3>6. ASSUME NEW d \in Samples, Fail(r, d)
          PROVE  RoutingInv'
      BY <3>6, FailKeeps
    <3>7. ASSUME NEW d \in Samples, Succeed(r, d)
          PROVE  RoutingInv'
      BY <3>7, SucceedKeeps
    <3>8. QED BY <2>2, <3>1, <3>2, <3>3, <3>4, <3>5, <3>6, <3>7, Zenon DEF Step
  <2>3. ASSUME NEW r \in Requests, Cancel(r)
        PROVE  RoutingInv'
    BY <2>3, CancelKeeps
  <2>4. CASE UNCHANGED vars
    <3>1. UNCHANGED <<policy, price, list, pc, remaining, scores, chosen, elapsed,
                      recent, cancels>>
      BY <2>4 DEF vars
    <3>2. TypeOK'
      BY <3>1 DEF RoutingInv, TypeOK
    <3>3. KeepsNewest' /\ OverflowIsUntrimmed'
      <4>1. \A b \in Backends : Trimming(b)' = Trimming(b)
        BY <3>1 DEF Trimming
      <4>2. QED BY <3>1, <4>1, ListsKept
    <3>4. \A q \in Requests : RequestInv(q)'
      BY <3>1, OthersKept DEF RoutingInv, settings
    <3>5. QED BY <3>2, <3>3, <3>4 DEF RoutingInv
  <2>5. QED BY <2>1, <2>2, <2>3, <2>4, Zenon DEF Next
<1>2. QED BY RoutingInit, <1>1, PTL DEF Spec

(* The lists hold samples, a request walks over candidates, and what p95()    *)
(* reads and the policies choose is a score and a candidate: select() indexes *)
(* nothing past its end.                                                      *)
THEOREM RoutingTypeCorrect == Spec => []TypeOK
<1>1. RoutingInv => TypeOK
  BY DEF RoutingInv
<1>2. QED BY RoutingSafe, <1>1, PTL

(* However pushes and trims interleave and wherever a request is cut short,   *)
(* no trim of record() removes one of the last Window samples.                *)
THEOREM NewestSamplesKept == Spec => []KeepsNewest
<1>1. RoutingInv => KeepsNewest
  BY DEF RoutingInv
<1>2. QED BY RoutingSafe, <1>1, PTL

(* A latency list is longer than Window only by what is not trimmed yet and   *)
(* what cancelled requests never trimmed.                                     *)
THEOREM ListsAreBounded == Spec => []OverflowIsUntrimmed
<1>1. RoutingInv => OverflowIsUntrimmed
  BY DEF RoutingInv
<1>2. QED BY RoutingSafe, <1>1, PTL

(* What p95() returns is the quantile of the list, for every length, every    *)
(* content and every percentile below 100.                                    *)
THEOREM P95IsTheQuantile == Spec => []P95IsQuantile
<1>1. TypeOK => P95IsQuantile
  <2> SUFFICES ASSUME TypeOK, NEW b \in Backends, list[b] # <<>>
               PROVE  /\ 100 * Cardinality({i \in DOMAIN list[b] :
                                              list[b][i] <= P95(list[b])})
                           > Percent * Len(list[b])
                      /\ 100 * Cardinality({i \in DOMAIN list[b] :
                                              list[b][i] < P95(list[b])})
                           <= Percent * Len(list[b])
    BY Zenon DEF P95IsQuantile
  <2>1. list[b] \in Seq(Samples)
    BY DEF TypeOK
  <2>2. QED BY <2>1, P95Facts
<1>2. QED BY RoutingTypeCorrect, <1>1, PTL

(* Over all its failover rounds the cost policy tries the backends in the     *)
(* order of their prices.                                                     *)
THEOREM CostPolicyWalksInOrder == Spec => []CostWalk
<1>1. RoutingInv => CostWalk
  <2> SUFFICES ASSUME RoutingInv
               PROVE  CostWalk
    OBVIOUS
  <2>1. \A r \in Requests : policy = "cost" /\ pc[r] = "call" => Ordered(r)
    BY DEF RoutingInv, RequestInv
  <2>2. QED BY <2>1, Zenon DEF CostWalk, Ordered, Left
<1>2. QED BY RoutingSafe, <1>1, PTL

=============================================================================
