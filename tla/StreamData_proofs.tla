-------------------------- MODULE StreamData_proofs --------------------------
(***************************************************************************)
(* Theorems of the data plane (StreamData): its types, its acks, its timer *)
(* and its counter, and that it keeps the promise of ReliableStream.       *)
(*                                                                         *)
(* Base, the inductive invariant, speaks of offsets: everything in log, in *)
(* the queues, in flight and kept by the receiver lies within sent_offset, *)
(* and two packets of a stream with the same offset are the same.  Books,  *)
(* in the second half, adds the tiling of what is not acked.               *)
(***************************************************************************)
EXTENDS StreamData, AckRanges_proofs, FiniteSetTheorems

-----------------------------------------------------------------------------
(* Numbers, lists and sets                                                 *)

(* A finite set of numbers has a greatest.                                 *)
LEMMA Greatest ==
  ASSUME NEW S, S \subseteq Nat, IsFiniteSet(S), S # {}
  PROVE  Max(S) \in S /\ \A y \in S : y <= Max(S)
<1>1. PICK n \in Nat : ExistsBijection(1 .. n, S)
  BY FS_NatBijection
<1>2. PICK f \in [1 .. n -> S] : \A y \in S : \E i \in 1 .. n : f[i] = y
  BY <1>1 DEF ExistsBijection, Bijection, Surjection
<1>. DEFINE Top(k) == \E i \in 1 .. n : \A j \in 1 .. k : f[j] <= f[i]
            bad == {k \in 1 .. n : ~Top(k)}
<1>3. n # 0 /\ n \in 1 .. n /\ 1 \in 1 .. n
  <2>1. PICK y \in S : TRUE
    OBVIOUS
  <2>2. PICK i \in 1 .. n : f[i] = y
    BY <1>2, <2>1
  <2>. QED BY <2>2
<1>4. bad = {}
  <2>1. SUFFICES ASSUME bad # {} PROVE FALSE
    OBVIOUS
  <2>2. bad \in SUBSET Nat
    OBVIOUS
  <2>3. PICK k \in bad : \A j \in bad : k <= j
    <3>. HIDE DEF bad
    <3>. QED BY <2>1, <2>2, LeastNumber
  <2>4. \A j \in 1 .. n : f[j] \in Nat
    OBVIOUS
  <2>5. CASE k = 1
    <3>1. \A j \in 1 .. k : f[j] <= f[1]
      BY <2>4, <2>5, <1>3
    <3>. QED BY <1>3, <2>3, <3>1
  <2>6. CASE k # 1
    <3>0. k \in 1 .. n
      OBVIOUS
    <3>1. k - 1 \in 1 .. n /\ k - 1 \notin bad
      <4>. HIDE DEF bad
      <4>. QED BY <2>3, <2>6, <3>0
    <3>2. PICK i \in 1 .. n : \A j \in 1 .. k - 1 : f[j] <= f[i]
      BY <3>1
    <3>3. f[k] \in Nat /\ f[i] \in Nat /\ k \in 1 .. n
      BY <2>3, <2>4
    <3>4. CASE f[k] <= f[i]
      <4>1. \A j \in 1 .. k : f[j] <= f[i]
        BY <3>2, <3>3, <3>4
      <4>. QED BY <2>3, <4>1
    <3>5. CASE f[i] < f[k]
      <4>1. \A j \in 1 .. k : f[j] <= f[k]
        BY <2>4, <3>2, <3>3, <3>5
      <4>. QED BY <2>3, <3>3, <4>1
    <3>. QED BY <3>3, <3>4, <3>5
  <2>. QED BY <2>5, <2>6
<1>5. PICK i \in 1 .. n : \A j \in 1 .. n : f[j] <= f[i]
  BY <1>3, <1>4
<1>6. f[i] \in S /\ \A y \in S : y <= f[i]
  BY <1>2, <1>5
<1>7. \E x \in S : \A y \in S : x >= y
  BY <1>6
<1>. QED BY <1>7 DEF Max

(* Max is what it says of a set bounded by a number.                       *)
LEMMA GreatestBelow ==
  ASSUME NEW n \in Nat, NEW S, S \subseteq 0 .. n, S # {}
  PROVE  Max(S) \in S /\ \A y \in S : y <= Max(S)
<1>1. IsFiniteSet(0 .. n)
  BY FS_Interval
<1>2. IsFiniteSet(S) /\ S \subseteq Nat
  <2>1. S \in SUBSET (0 .. n)
    OBVIOUS
  <2>2. IsFiniteSet(S)
    BY <1>1, <2>1, FS_Subset
  <2>. QED BY <2>2
<1>. QED BY <1>2, Greatest

(* Min is what it says of a set of numbers.                                *)
LEMMA Least ==
  ASSUME NEW S, S \subseteq Nat, S # {}
  PROVE  Min(S) \in S /\ \A y \in S : Min(S) <= y
<1>1. PICK x \in S : \A y \in S : x <= y
  BY LeastNumber
<1>2. \E z \in S : \A y \in S : z <= y
  BY <1>1
<1>. QED BY <1>2 DEF Min

(* The rest of a queue begins at the first of the positions; none of them  *)
(* lies before.                                                            *)
LEMMA FromIs ==
  ASSUME NEW S, NEW queue \in Seq(S), NEW positions, positions \subseteq DOMAIN queue
  PROVE  \E m \in 1 .. Len(queue) + 1 :
           /\ m = Min(positions \cup {Len(queue) + 1})
           /\ From(queue, positions) \in Seq(S)
           /\ Len(From(queue, positions)) = Len(queue) - m + 1
           /\ \A i \in 1 .. Len(queue) - m + 1 : From(queue, positions)[i] = queue[m + i - 1]
           /\ \A i \in 1 .. m - 1 : i \notin positions
<1>. DEFINE n == Len(queue)  T == positions \cup {n + 1}  m == Min(T)
<1>1. n \in Nat /\ DOMAIN queue = 1 .. n /\ \A i \in 1 .. n : queue[i] \in S
  BY LenProperties, ElementOfSeq
<1>2. T \subseteq 1 .. n + 1 /\ T \subseteq Nat /\ T # {} /\ n + 1 \in T
  BY <1>1
<1>. HIDE DEF n
<1>3. m \in T /\ \A y \in T : m <= y
  <2>. HIDE DEF T
  <2>. QED BY <1>2, Least
<1>. HIDE DEF m
<1>4. m \in 1 .. n + 1 /\ \A i \in 1 .. m - 1 : i \notin positions
  <2>1. m \in 1 .. n + 1
    BY <1>2, <1>3
  <2>2. \A i \in 1 .. m - 1 : ~(m <= i)
    BY <1>1, <2>1
  <2>. QED BY <1>3, <2>1, <2>2
<1>5. From(queue, positions) = SubSeq(queue, m, n)
  BY DEF From, m, n
<1>6. m \in Int /\ n \in Int /\ \A i \in m .. n : queue[i] \in S
  BY <1>1, <1>4
<1>7. /\ SubSeq(queue, m, n) \in Seq(S)
      /\ Len(SubSeq(queue, m, n)) = IF m <= n THEN n - m + 1 ELSE 0
      /\ \A i \in 1 .. n - m + 1 : SubSeq(queue, m, n)[i] = queue[m + i - 1]
  BY <1>6, SubSeqProperties
<1>8. Len(SubSeq(queue, m, n)) = n - m + 1
  BY <1>1, <1>4, <1>7
<1>. QED BY <1>4, <1>5, <1>7, <1>8 DEF m, n

-----------------------------------------------------------------------------
(* Putting a set in order                                                  *)

(* Keys that tell the elements of a finite set apart.                      *)
Keyed(key) ==
  /\ IsFiniteSet(DOMAIN key) /\ key \in [DOMAIN key -> Nat \X Nat]
  /\ \A x, y \in DOMAIN key : key[x] = key[y] => x = y

(* The position of x among the elements of DOMAIN key.                     *)
Rank(key, x) == Cardinality({y \in DOMAIN key : Before(key[y], key[x])})

(* Pairs of numbers are in a linear order.                                 *)
LEMMA BeforeOrders ==
  /\ \A a \in Nat \X Nat : ~Before(a, a)
  /\ \A a, b \in Nat \X Nat : Before(a, b) \/ Before(b, a) \/ a = b
  /\ \A a, b, c \in Nat \X Nat : Before(a, b) /\ Before(b, c) => Before(a, c)
<1>1. \A a \in Nat \X Nat : ~Before(a, a)
  BY DEF Before
<1>2. \A a, b \in Nat \X Nat : Before(a, b) \/ Before(b, a) \/ a = b
  BY DEF Before
<1>3. \A a, b, c \in Nat \X Nat : Before(a, b) /\ Before(b, c) => Before(a, c)
  BY DEF Before
<1>. QED BY <1>1, <1>2, <1>3

(* Of two elements the one with the lesser key has the lower rank.         *)
LEMMA RanksOrder ==
  ASSUME NEW key, Keyed(key), NEW x \in DOMAIN key, NEW y \in DOMAIN key
  PROVE  /\ Rank(key, x) \in 0 .. Cardinality(DOMAIN key) - 1
         /\ Before(key[x], key[y]) => Rank(key, x) < Rank(key, y)
<1>. DEFINE D == DOMAIN key  below(z) == {w \in D : Before(key[w], key[z])}
<1>1. IsFiniteSet(D) /\ \A z \in D : key[z] \in Nat \X Nat
  BY DEF Keyed
<1>2. ASSUME NEW z \in D PROVE IsFiniteSet(below(z)) /\ Cardinality(below(z)) \in Nat
  <2>1. below(z) \in SUBSET D
    OBVIOUS
  <2>. HIDE DEF D, below
  <2>2. IsFiniteSet(below(z))
    BY <1>1, <2>1, FS_Subset
  <2>. QED BY <2>2, FS_CardinalityType
<1>3. Cardinality(below(x)) <= Cardinality(D) - 1
  <2>1. x \notin below(x)
    BY <1>1, BeforeOrders
  <2>2. below(x) \cup {x} \in SUBSET D
    OBVIOUS
  <2>. HIDE DEF D, below
  <2>3. Cardinality(below(x) \cup {x}) = Cardinality(below(x)) + 1
    BY <1>2, <2>1, FS_AddElement DEF D
  <2>4. Cardinality(below(x) \cup {x}) <= Cardinality(D)
    BY <1>1, <2>2, FS_Subset
  <2>5. Cardinality(D) \in Nat /\ Cardinality(below(x)) \in Nat
    BY <1>1, <1>2, FS_CardinalityType DEF D
  <2>. QED BY <2>3, <2>4, <2>5
<1>4. ASSUME Before(key[x], key[y]) PROVE Cardinality(below(x)) < Cardinality(below(y))
  <2>1. x \notin below(x)
    BY <1>1, BeforeOrders
  <2>2. below(x) \cup {x} \in SUBSET below(y)
    <3>1. SUFFICES ASSUME NEW w \in below(x) PROVE w \in below(y)
      BY <1>4
    <3>2. w \in D /\ key[w] \in Nat \X Nat /\ key[x] \in Nat \X Nat /\ key[y] \in Nat \X Nat
      BY <1>1
    <3>3. Before(key[w], key[x])
      OBVIOUS
    <3>4. Before(key[w], key[y])
      BY <1>4, <3>2, <3>3, BeforeOrders
    <3>. QED BY <3>2, <3>4
  <2>. HIDE DEF D, below
  <2>3. Cardinality(below(x) \cup {x}) = Cardinality(below(x)) + 1
    BY <1>2, <2>1, FS_AddElement DEF D
  <2>4. Cardinality(below(x) \cup {x}) <= Cardinality(below(y))
    BY <1>2, <2>2, FS_Subset DEF D
  <2>5. Cardinality(below(y)) \in Nat /\ Cardinality(below(x)) \in Nat
    BY <1>2 DEF D
  <2>. QED BY <2>3, <2>4, <2>5
<1>5. Cardinality(D) \in Nat
  BY <1>1, FS_CardinalityType
<1>6. Cardinality(below(x)) \in 0 .. Cardinality(D) - 1
  <2>1. Cardinality(below(x)) \in Nat
    BY <1>2
  <2>. HIDE DEF D, below
  <2>. QED BY <1>3, <1>5, <2>1
<1>. QED BY <1>4, <1>6 DEF Rank

(* InOrder lists every element once, by increasing key.                    *)
LEMMA InOrderIs ==
  ASSUME NEW key, Keyed(key)
  PROVE  /\ Cardinality(DOMAIN key) \in Nat
         /\ InOrder(key) \in [1 .. Cardinality(DOMAIN key) -> DOMAIN key]
         /\ InOrder(key) \in Seq(DOMAIN key) /\ Len(InOrder(key)) = Cardinality(DOMAIN key)
         /\ \A x \in DOMAIN key : \E i \in 1 .. Cardinality(DOMAIN key) : InOrder(key)[i] = x
         /\ \A i \in 1 .. Cardinality(DOMAIN key) : Rank(key, InOrder(key)[i]) = i - 1
<1>. DEFINE D == DOMAIN key  n == Cardinality(D)  q == InOrder(key)
            r == [x \in D |-> Rank(key, x)]
<1>1. IsFiniteSet(D) /\ n \in Nat
  BY FS_CardinalityType DEF Keyed
<1>2. \A x, y \in D : x # y => Before(key[x], key[y]) \/ Before(key[y], key[x])
  <2>1. \A x \in D : key[x] \in Nat \X Nat
    BY DEF Keyed
  <2>2. \A x, y \in D : key[x] = key[y] => x = y
    BY DEF Keyed
  <2>. QED BY <2>1, <2>2, BeforeOrders
<1>3. \A x \in D : Rank(key, x) \in 0 .. n - 1
  BY RanksOrder
<1>4. \A x, y \in D : x # y => Rank(key, x) # Rank(key, y)
  <2>1. SUFFICES ASSUME NEW x \in D, NEW y \in D, Before(key[x], key[y])
                 PROVE  Rank(key, x) # Rank(key, y)
    BY <1>2
  <2>2. Rank(key, x) < Rank(key, y)
    BY <2>1, RanksOrder
  <2>. QED BY <1>3, <2>2
<1>. HIDE DEF D, n
<1>5. r \in Injection(D, 0 .. n - 1)
  BY <1>3, <1>4 DEF Injection, IsInjective
<1>6. IsFiniteSet(0 .. n - 1) /\ Cardinality(0 .. n - 1) = n
  BY <1>1, FS_Interval
<1>7. r \in Surjection(D, 0 .. n - 1)
  <2>. HIDE DEF r
  <2>1. Cardinality(D) = Cardinality(0 .. n - 1)
    BY <1>6 DEF n
  <2>. QED BY <1>5, <1>6, <2>1, FS_Injection
<1>8. \A k \in 0 .. n - 1 : \E x \in D : Rank(key, x) = k
  BY <1>7 DEF Surjection
<1>9. q = [i \in 1 .. n |-> CHOOSE x \in D : Rank(key, x) = i - 1]
  BY DEF InOrder, Rank, D, n
<1>10. \A i \in 1 .. n : q[i] \in D /\ Rank(key, q[i]) = i - 1
  <2>1. SUFFICES ASSUME NEW i \in 1 .. n PROVE q[i] \in D /\ Rank(key, q[i]) = i - 1
    OBVIOUS
  <2>2. i - 1 \in 0 .. n - 1
    BY <1>1
  <2>3. q[i] = CHOOSE x \in D : Rank(key, x) = i - 1
    BY <1>9
  <2>. HIDE DEF q
  <2>. QED BY <1>8, <2>2, <2>3
<1>11. q \in [1 .. n -> D]
  BY <1>9, <1>10
<1>. HIDE DEF q, r
<1>12. q \in Seq(D)
  BY <1>1, <1>11, SeqDef
<1>13. Len(q) = n
  BY <1>1, <1>11, <1>12, LenProperties
<1>14. ASSUME NEW x \in D PROVE \E i \in 1 .. n : q[i] = x
  <2>1. Rank(key, x) + 1 \in 1 .. n /\ (Rank(key, x) + 1) - 1 = Rank(key, x)
    BY <1>1, <1>3
  <2>2. Rank(key, q[Rank(key, x) + 1]) = Rank(key, x) /\ q[Rank(key, x) + 1] \in D
    BY <1>10, <2>1
  <2>3. q[Rank(key, x) + 1] = x
    BY <1>4, <2>2
  <2>. QED BY <2>1, <2>3
<1>. QED BY <1>1, <1>10, <1>11, <1>12, <1>13, <1>14 DEF D, n, q

(* Earlier in the list means a lesser key.                                 *)
LEMMA InOrderOrders ==
  ASSUME NEW key, Keyed(key), NEW i \in 1 .. Cardinality(DOMAIN key),
         NEW j \in 1 .. Cardinality(DOMAIN key)
  PROVE  i < j <=> Before(key[InOrder(key)[i]], key[InOrder(key)[j]])
<1>. DEFINE q == InOrder(key)  n == Cardinality(DOMAIN key)
<1>1. /\ n \in Nat /\ q[i] \in DOMAIN key /\ q[j] \in DOMAIN key
      /\ Rank(key, q[i]) = i - 1 /\ Rank(key, q[j]) = j - 1
  BY InOrderIs
<1>. HIDE DEF q, n
<1>2. key[q[i]] \in Nat \X Nat /\ key[q[j]] \in Nat \X Nat
  BY <1>1 DEF Keyed
<1>3. i \in Int /\ j \in Int
  OBVIOUS
<1>4. Before(key[q[i]], key[q[j]]) => i < j
  <2>1. Before(key[q[i]], key[q[j]]) => Rank(key, q[i]) < Rank(key, q[j])
    BY <1>1, RanksOrder
  <2>. QED BY <1>1, <1>3, <2>1
<1>5. Before(key[q[j]], key[q[i]]) => j < i
  <2>1. Before(key[q[j]], key[q[i]]) => Rank(key, q[j]) < Rank(key, q[i])
    BY <1>1, RanksOrder
  <2>. QED BY <1>1, <1>3, <2>1
<1>6. key[q[i]] = key[q[j]] => i = j
  <2>1. key[q[i]] = key[q[j]] => q[i] = q[j]
    BY <1>1 DEF Keyed
  <2>. QED BY <1>1, <1>3, <2>1
<1>7. Before(key[q[i]], key[q[j]]) \/ Before(key[q[j]], key[q[i]]) \/ key[q[i]] = key[q[j]]
  BY <1>2, BeforeOrders
<1>8. i < j <=> Before(key[q[i]], key[q[j]])
  BY <1>3, <1>4, <1>5, <1>6, <1>7
<1>. QED BY <1>8 DEF q

-----------------------------------------------------------------------------
(* Sums                                                                    *)

(* Totals of the same numbers are the same.                                *)
LEMMA TotalSame ==
  ASSUME NEW n \in Nat, NEW d, NEW e, \A i \in 1 .. n : d[i] \in Int /\ e[i] = d[i]
  PROVE  Total(e, n) = Total(d, n)
<1>. DEFINE L == [i \in 0 .. n |-> Total(d, i)]
<1>1. /\ Total(d, 0) = 0
      /\ \A i \in 1 .. n : Total(d, i) = Total(d, i - 1) + d[i]
  BY Totals
<1>2. L[0] = 0 /\ \A i \in 1 .. n : L[i] = L[i - 1] + e[i]
  BY <1>1
<1>3. \A i \in 1 .. n : e[i] \in Int
  OBVIOUS
<1>. HIDE DEF L
<1>4. \A k \in 0 .. n : Total(e, k) = L[k]
  BY <1>2, <1>3, TotalIs
<1>5. n \in 0 .. n
  OBVIOUS
<1>. QED BY <1>4, <1>5 DEF L

(* Totals add up.                                                          *)
LEMMA TotalAdds ==
  ASSUME NEW n \in Nat, NEW a, NEW b, NEW c,
         \A i \in 1 .. n : a[i] \in Int /\ b[i] \in Int /\ c[i] = a[i] + b[i]
  PROVE  Total(c, n) = Total(a, n) + Total(b, n)
<1>. DEFINE L == [i \in 0 .. n |-> Total(a, i) + Total(b, i)]
<1>1. (\A i \in 1 .. n : a[i] \in Int) /\ (\A i \in 1 .. n : b[i] \in Int)
      /\ (\A i \in 1 .. n : c[i] \in Int)
  OBVIOUS
<1>2. /\ Total(a, 0) = 0 /\ \A i \in 0 .. n : Total(a, i) \in Int
      /\ \A i \in 1 .. n : Total(a, i) = Total(a, i - 1) + a[i]
  BY <1>1, Totals
<1>3. /\ Total(b, 0) = 0 /\ \A i \in 0 .. n : Total(b, i) \in Int
      /\ \A i \in 1 .. n : Total(b, i) = Total(b, i - 1) + b[i]
  BY <1>1, Totals
<1>4. L[0] = 0
  BY <1>2, <1>3
<1>5. ASSUME NEW i \in 1 .. n PROVE L[i] = L[i - 1] + c[i]
  <2>1. i \in 0 .. n /\ i - 1 \in 0 .. n
    OBVIOUS
  <2>2. L[i] = Total(a, i) + Total(b, i) /\ L[i - 1] = Total(a, i - 1) + Total(b, i - 1)
    BY <2>1
  <2>3. /\ Total(a, i) = Total(a, i - 1) + a[i] /\ Total(b, i) = Total(b, i - 1) + b[i]
        /\ Total(a, i - 1) \in Int /\ Total(b, i - 1) \in Int
        /\ a[i] \in Int /\ b[i] \in Int /\ c[i] = a[i] + b[i]
    BY <1>2, <1>3, <2>1
  <2>. HIDE DEF L
  <2>. QED BY <2>2, <2>3
<1>. HIDE DEF L
<1>6. \A k \in 0 .. n : Total(c, k) = L[k]
  BY <1>1, <1>4, <1>5, TotalIs
<1>7. n \in 0 .. n
  OBVIOUS
<1>. QED BY <1>6, <1>7 DEF L

(* Totals lie between those of lesser and greater numbers.                 *)
LEMMA TotalBetween ==
  ASSUME NEW n \in Nat, NEW d, NEW top \in Nat, \A i \in 1 .. n : d[i] \in 0 .. top
  PROVE  Total(d, n) \in Nat /\ Total(d, n) <= n * top
<1>. DEFINE bad == {i \in 0 .. n : ~(0 <= Total(d, i) /\ Total(d, i) <= i * top)}
<1>0. \A i \in 1 .. n : d[i] \in Int
  OBVIOUS
<1>1. /\ Total(d, 0) = 0 /\ \A i \in 0 .. n : Total(d, i) \in Int
      /\ \A i \in 1 .. n : Total(d, i) = Total(d, i - 1) + d[i]
  BY <1>0, Totals
<1>2. bad = {}
  <2>1. SUFFICES ASSUME bad # {} PROVE FALSE
    OBVIOUS
  <2>2. bad \in SUBSET Nat
    OBVIOUS
  <2>3. PICK k \in bad : \A j \in bad : k <= j
    <3>. HIDE DEF bad
    <3>. QED BY <2>1, <2>2, LeastNumber
  <2>4. k \in 0 .. n
    OBVIOUS
  <2>5. k # 0
    <3>1. 0 * top = 0
      OBVIOUS
    <3>. QED BY <1>1, <2>3, <3>1
  <2>6. k - 1 \in 0 .. n /\ k \in 1 .. n /\ k - 1 \notin bad
    <3>. HIDE DEF bad
    <3>. QED BY <2>3, <2>4, <2>5
  <2>7. 0 <= Total(d, k - 1) /\ Total(d, k - 1) <= (k - 1) * top
    BY <2>6
  <2>8. Total(d, k) = Total(d, k - 1) + d[k] /\ d[k] \in 0 .. top /\ Total(d, k - 1) \in Int
    BY <1>1, <2>6
  <2>9. (k - 1) * top + top = k * top
    BY <2>4
  <2>10. (k - 1) * top \in Int
    BY <2>4
  <2>11. k * top \in Int
    BY <2>4
  <2>12. 0 <= Total(d, k) /\ Total(d, k) <= k * top
    <3>. DEFINE u == (k - 1) * top  v == k * top
    <3>1. u \in Int /\ v \in Int /\ u + top = v /\ Total(d, k - 1) <= u
      BY <2>7, <2>9, <2>10, <2>11
    <3>. HIDE DEF u, v
    <3>2. 0 <= Total(d, k) /\ Total(d, k) <= v
      BY <2>7, <2>8, <3>1
    <3>. QED BY <3>2 DEF v
  <2>. QED BY <2>3, <2>12
<1>3. n \in 0 .. n
  OBVIOUS
<1>. QED BY <1>1, <1>2, <1>3

(* The total of numbers put behind others.                                 *)
LEMMA TotalSplits ==
  ASSUME NEW m \in Nat, NEW n \in Nat, NEW d, NEW a, NEW b,
         \A i \in 1 .. m : a[i] \in Int /\ d[i] = a[i],
         \A i \in 1 .. n : b[i] \in Int /\ d[m + i] = b[i]
  PROVE  Total(d, m + n) = Total(a, m) + Total(b, n)
<1>. DEFINE L == [i \in 0 .. m + n |-> IF i <= m THEN Total(a, i) ELSE Total(a, m) + Total(b, i - m)]
<1>1. (\A i \in 1 .. m : a[i] \in Int) /\ (\A i \in 1 .. n : b[i] \in Int)
  OBVIOUS
<1>2. /\ Total(a, 0) = 0 /\ \A i \in 0 .. m : Total(a, i) \in Int
      /\ \A i \in 1 .. m : Total(a, i) = Total(a, i - 1) + a[i]
  BY <1>1, Totals
<1>3. /\ Total(b, 0) = 0 /\ \A i \in 0 .. n : Total(b, i) \in Int
      /\ \A i \in 1 .. n : Total(b, i) = Total(b, i - 1) + b[i]
  BY <1>1, Totals
<1>4. L[0] = 0
  BY <1>2
<1>5. ASSUME NEW i \in 1 .. m + n PROVE d[i] \in Int /\ L[i] = L[i - 1] + d[i]
  <2>0. i \in 0 .. m + n /\ i - 1 \in 0 .. m + n
    OBVIOUS
  <2>1. CASE i <= m
    <3>1. i \in 1 .. m /\ i - 1 <= m
      BY <2>1
    <3>2. L[i] = Total(a, i) /\ L[i - 1] = Total(a, i - 1)
      BY <2>0, <3>1
    <3>. HIDE DEF L
    <3>. QED BY <1>2, <3>1, <3>2
  <2>2. CASE i > m
    <3>1. i - m \in 1 .. n /\ m + (i - m) = i /\ (i - m) - 1 = (i - 1) - m
      BY <2>2
    <3>2. L[i] = Total(a, m) + Total(b, i - m)
      BY <2>0, <2>2
    <3>3. L[i - 1] = Total(a, m) + Total(b, (i - m) - 1)
      <4>1. CASE i - 1 = m
        <5>1. L[i - 1] = Total(a, m) /\ Total(b, (i - m) - 1) = 0 /\ Total(a, m) \in Int
          BY <1>2, <1>3, <2>0, <3>1, <4>1
        <5>. HIDE DEF L
        <5>. QED BY <5>1
      <4>2. CASE i - 1 # m
        <5>1. ~(i - 1 <= m)
          BY <2>2, <4>2
        <5>. QED BY <2>0, <3>1, <5>1
      <4>. QED BY <4>1, <4>2
    <3>4. d[i] = b[i - m] /\ d[i] \in Int
      BY <3>1
    <3>5. /\ Total(b, i - m) = Total(b, (i - m) - 1) + b[i - m]
          /\ Total(b, (i - m) - 1) \in Int /\ Total(a, m) \in Int
      BY <1>2, <1>3, <3>1
    <3>. HIDE DEF L
    <3>. QED BY <3>2, <3>3, <3>4, <3>5
  <2>. QED BY <2>1, <2>2
<1>6. m + n \in Nat /\ m + n \in 0 .. m + n
  OBVIOUS
<1>7. L[m + n] = Total(a, m) + Total(b, n)
  <2>1. CASE n = 0
    <3>1. L[m + n] = Total(a, m) /\ Total(b, n) = 0 /\ Total(a, m) \in Int
      BY <1>2, <1>3, <1>6, <2>1
    <3>. HIDE DEF L
    <3>. QED BY <3>1
  <2>2. CASE n # 0
    <3>1. ~(m + n <= m) /\ (m + n) - m = n
      BY <2>2
    <3>. QED BY <1>6, <3>1
  <2>. QED BY <2>1, <2>2
<1>. HIDE DEF L
<1>8. \A k \in 0 .. m + n : Total(d, k) = L[k]
  <2>. DEFINE all == m + n
  <2>1. all \in Nat /\ (\A i \in 1 .. all : d[i] \in Int) /\ \A i \in 1 .. all : L[i] = L[i - 1] + d[i]
    BY <1>5, <1>6
  <2>. HIDE DEF all
  <2>2. \A k \in 0 .. all : Total(d, k) = L[k]
    BY <1>4, <2>1, TotalIs
  <2>. QED BY <2>2 DEF all
<1>. QED BY <1>6, <1>7, <1>8

-----------------------------------------------------------------------------
(* Ranges of bytes                                                         *)

(* Ranges of bytes, finitely many.                                         *)
Spans(ranges) ==
  /\ IsFiniteSet(ranges)
  /\ \A k \in ranges : k.offset \in Nat /\ k.length \in Nat \ {0}

(* The offset reached from r0 lies at r0 or at the end of a range, no      *)
(* range reaches over it, and everything up to it is covered.              *)
LEMMA ExtendIs ==
  ASSUME NEW r0 \in Nat, NEW ranges, Spans(ranges)
  PROVE  /\ Extend(r0, ranges) \in Nat /\ Extend(r0, ranges) >= r0
         /\ Extend(r0, ranges) = r0 \/ \E k \in ranges : Extend(r0, ranges) = End(k)
         /\ \A k \in ranges : k.offset <= Extend(r0, ranges) => End(k) <= Extend(r0, ranges)
         /\ \A byte \in r0 .. Extend(r0, ranges) - 1 : \E k \in ranges : Covers(k, byte)
<1>. DEFINE Ends == {End(k) : k \in ranges}
            Shut(r) == r >= r0 /\ \A k \in ranges : k.offset <= r => End(k) <= r
            T == {r \in {r0} \cup Ends : Shut(r)}
            e == Extend(r0, ranges)
<1>1. \A k \in ranges : k.offset \in Nat /\ k.length \in Nat \ {0} /\ End(k) \in Nat /\ k.offset < End(k)
  BY DEF Spans, End
<1>2. IsFiniteSet({r0} \cup Ends) /\ {r0} \cup Ends \subseteq Nat
  <2>1. DEFINE f == [k \in ranges |-> End(k)]
  <2>2. f \in Surjection(ranges, Ends)
    BY DEF Surjection
  <2>3. IsFiniteSet(Ends)
    <3>. HIDE DEF f, Ends
    <3>. QED BY <2>2, FS_Surjection DEF Spans
  <2>4. Ends \subseteq Nat
    BY <1>1
  <2>. HIDE DEF Ends
  <2>5. IsFiniteSet(Ends \cup {r0})
    BY <2>3, FS_AddElement
  <2>6. Ends \cup {r0} = {r0} \cup Ends
    OBVIOUS
  <2>. QED BY <2>4, <2>5, <2>6
<1>3. ASSUME NEW C, C \subseteq {r0} \cup Ends, r0 \in C, NEW b \in Nat, b >= r0,
             \A c \in {r0} \cup Ends : c \in C <=> c <= b,
             \A k \in ranges : ~Covers(k, b)
      PROVE  \E r \in T : r <= b
  <2>1. IsFiniteSet(C) /\ C \subseteq Nat /\ C # {}
    <3>1. C \in SUBSET ({r0} \cup Ends)
      BY <1>3
    <3>2. IsFiniteSet(C)
      <4>. HIDE DEF Ends
      <4>. QED BY <1>2, <3>1, FS_Subset
    <3>. QED BY <1>2, <1>3, <3>2
  <2>2. Max(C) \in C /\ \A y \in C : y <= Max(C)
    BY <2>1, Greatest
  <2>3. Max(C) \in Nat /\ Max(C) >= r0 /\ Max(C) <= b /\ Max(C) \in {r0} \cup Ends
    <3>. HIDE DEF Ends
    <3>. QED BY <1>2, <1>3, <2>1, <2>2
  <2>4. ASSUME NEW k \in ranges, k.offset <= Max(C) PROVE End(k) <= Max(C)
    <3>1. k.offset <= b
      BY <1>1, <2>3, <2>4
    <3>2. End(k) <= b
      BY <1>1, <1>3, <3>1 DEF Covers
    <3>3. End(k) \in Ends
      OBVIOUS
    <3>. HIDE DEF Ends
    <3>. QED BY <1>3, <2>2, <3>2, <3>3
  <2>. HIDE DEF Ends
  <2>. QED BY <2>3, <2>4
<1>4. T # {}
  <2>1. Max({r0} \cup Ends) \in {r0} \cup Ends /\ \A y \in {r0} \cup Ends : y <= Max({r0} \cup Ends)
    <3>. HIDE DEF Ends
    <3>. QED BY <1>2, Greatest
  <2>2. Shut(Max({r0} \cup Ends))
    BY <1>2, <2>1
  <2>. QED BY <2>1, <2>2
<1>5. T \subseteq Nat
  BY <1>2
<1>6. e = Min(T)
  BY DEF Extend
<1>. HIDE DEF e
<1>7. e \in T /\ \A r \in T : e <= r
  <2>. HIDE DEF T
  <2>. QED BY <1>4, <1>5, <1>6, Least
<1>8. e \in Nat /\ e >= r0 /\ (e = r0 \/ \E k \in ranges : e = End(k))
      /\ \A k \in ranges : k.offset <= e => End(k) <= e
  BY <1>5, <1>7
<1>9. ASSUME NEW b \in r0 .. e - 1 PROVE \E k \in ranges : Covers(k, b)
  <2>1. SUFFICES ASSUME \A k \in ranges : ~Covers(k, b) PROVE FALSE
    OBVIOUS
  <2>. DEFINE C == {c \in {r0} \cup Ends : c <= b}
  <2>2. b \in Nat /\ b >= r0 /\ b < e
    BY <1>8
  <2>3. C \subseteq {r0} \cup Ends /\ r0 \in C /\ \A c \in {r0} \cup Ends : c \in C <=> c <= b
    BY <2>2
  <2>. HIDE DEF C, T, Ends
  <2>4. \E r \in T : r <= b
    BY <1>3, <2>1, <2>2, <2>3
  <2>. QED BY <1>5, <1>7, <1>8, <2>2, <2>4
<1>. QED BY <1>8, <1>9 DEF e

-----------------------------------------------------------------------------
(* Fragments                                                               *)

(* What a packet carries.                                                  *)
Packets == [stream : Streams, offset : Offset, length : 1 .. Fragment]

(* Multiples of a number lie at least that number apart.                   *)
LEMMA Multiples ==
  ASSUME NEW f \in Nat \ {0}, NEW i \in Nat, NEW j \in Nat
  PROVE  i * f \in Nat /\ i <= i * f /\ (i < j => i * f + f <= j * f)
<1>1. i * f \in Nat /\ j * f \in Nat /\ i <= i * f
  OBVIOUS
<1>2. ASSUME i < j PROVE i * f + f <= j * f
  <2>1. (j - i) * f = j * f - i * f
    OBVIOUS
  <2>2. j - i = 1 \/ j - i > 1
    BY <1>2
  <2>3. (j - i) * f >= f
    BY <1>2
  <2>. QED BY <1>1, <2>1, <2>3
<1>. QED BY <1>1, <1>2

(* The fragments of an item lie in it, cover it and do not overlap.        *)
LEMMA FragmentsAre ==
  ASSUME NEW s \in Streams, NEW item \in Item, item.offset + item.size <= MaxBytes
  PROVE  /\ \A f \in Fragments(s, item) :
              /\ f \in Packets /\ f.stream = s
              /\ item.offset <= f.offset /\ End(f) <= item.offset + item.size
         /\ \A f, g \in Fragments(s, item) :
              (f.offset < g.offset => End(f) <= g.offset) /\ (f.offset = g.offset => f = g)
         /\ \A byte \in item.offset .. item.offset + item.size - 1 :
              \E f \in Fragments(s, item) : Covers(f, byte)
<1>. DEFINE I == {j \in 0 .. item.size - 1 : j * Fragment < item.size}
            Piece(i) == [stream |-> s, offset |-> item.offset + i * Fragment,
                         length |-> Min({Fragment, item.size - i * Fragment})]
<1>1. item.offset \in Nat /\ item.size \in Nat \ {0} /\ Fragment \in Nat \ {0} /\ MaxBytes \in Nat
  BY SizesAssumption, BoundsAssumption DEF Item, Offset
<1>2. Fragments(s, item) = {Piece(i) : i \in I}
  BY DEF Fragments
<1>3. ASSUME NEW i \in I
      PROVE  /\ Piece(i).stream = s /\ Piece(i).offset = item.offset + i * Fragment
             /\ i * Fragment \in Nat /\ i * Fragment < item.size
             /\ Piece(i).length \in 1 .. Fragment /\ Piece(i).length <= item.size - i * Fragment
             /\ (Piece(i).length = Fragment \/ Piece(i).length = item.size - i * Fragment)
  <2>1. i * Fragment \in Nat /\ i * Fragment < item.size
    BY <1>1, Multiples
  <2>2. item.size - i * Fragment \in Nat \ {0}
    BY <1>1, <2>1
  <2>. DEFINE rest == item.size - i * Fragment
  <2>3. Piece(i).length = Min({Fragment, rest})
    OBVIOUS
  <2>4. rest \in Nat \ {0} /\ rest = item.size - i * Fragment
    BY <2>2
  <2>. HIDE DEF rest
  <2>5. Min({Fragment, rest}) = IF Fragment <= rest THEN Fragment ELSE rest
    BY <1>1, <2>4, SmallerOf
  <2>6. Piece(i).stream = s /\ Piece(i).offset = item.offset + i * Fragment
    OBVIOUS
  <2>. HIDE DEF Piece, I
  <2>. QED BY <1>1, <2>1, <2>3, <2>4, <2>5, <2>6
<1>4. ASSUME NEW i \in I
      PROVE  /\ Piece(i) \in Packets /\ item.offset <= Piece(i).offset
             /\ End(Piece(i)) <= item.offset + item.size
  <2>. DEFINE f == Piece(i)
  <2>1. f = [stream |-> f.stream, offset |-> f.offset, length |-> f.length]
    OBVIOUS
  <2>2. /\ f.stream = s /\ f.offset = item.offset + i * Fragment /\ i * Fragment \in Nat
        /\ i * Fragment < item.size /\ f.length \in 1 .. Fragment /\ f.length <= item.size - i * Fragment
    BY <1>3
  <2>. HIDE DEF f
  <2>3. f.offset \in Offset /\ item.offset <= f.offset
    BY <1>1, <2>2 DEF Offset
  <2>4. f \in Packets
    BY <2>1, <2>2, <2>3 DEF Packets
  <2>5. f.length \in Int
    BY <1>1, <2>2
  <2>6. f.offset + f.length <= item.offset + item.size
    BY <1>1, <2>2, <2>5
  <2>. QED BY <2>3, <2>4, <2>6 DEF f, End
<1>5. ASSUME NEW i \in I, NEW j \in I
      PROVE  /\ (Piece(i).offset < Piece(j).offset => End(Piece(i)) <= Piece(j).offset)
             /\ (Piece(i).offset = Piece(j).offset => Piece(i) = Piece(j))
  <2>1. i \in Nat /\ j \in Nat /\ (i < j \/ i = j \/ j < i)
    BY <1>1
  <2>. DEFINE u == i * Fragment  v == j * Fragment
  <2>2. u \in Nat /\ v \in Nat /\ (i < j => u + Fragment <= v) /\ (j < i => v + Fragment <= u)
    BY <1>1, <2>1, Multiples
  <2>3. Piece(i).offset = item.offset + u /\ Piece(j).offset = item.offset + v /\ Piece(i).length \in 1 .. Fragment
    BY <1>3
  <2>4. i = j => Piece(i) = Piece(j) /\ u = v
    OBVIOUS
  <2>. HIDE DEF Piece, u, v, I
  <2>. QED BY <1>1, <2>1, <2>2, <2>3, <2>4 DEF End
<1>6. ASSUME NEW byte \in item.offset .. item.offset + item.size - 1
      PROVE  \E i \in I : Covers(Piece(i), byte)
  <2>. DEFINE x == byte - item.offset
              K == {k \in 0 .. x + 1 : x < k * Fragment}
  <2>1. x \in Nat /\ x < item.size /\ byte = item.offset + x
    BY <1>1
  <2>. HIDE DEF x
  <2>2. x + 1 \in K
    <3>1. x + 1 \in Nat /\ x + 1 <= (x + 1) * Fragment /\ (x + 1) * Fragment \in Nat
      BY <1>1, <2>1, Multiples
    <3>. QED BY <2>1, <3>1
  <2>3. K \in SUBSET Nat /\ K # {}
    BY <2>1, <2>2
  <2>4. PICK k \in K : \A y \in K : k <= y
    <3>. HIDE DEF K
    <3>. QED BY <2>3, LeastNumber
  <2>5. k \in 0 .. x + 1 /\ x < k * Fragment /\ k # 0
    <3>1. 0 * Fragment = 0
      BY <1>1
    <3>. QED BY <2>1, <3>1
  <2>6. k - 1 \in 0 .. x + 1 /\ k - 1 \notin K
    <3>. HIDE DEF K
    <3>. QED BY <2>1, <2>4, <2>5
  <2>. DEFINE i == k - 1  u == i * Fragment  v == k * Fragment
  <2>7. u \in Nat /\ i <= u /\ v = u + Fragment /\ i \in Nat
    <3>1. i \in Nat
      BY <2>1, <2>6
    <3>2. (i + 1) * Fragment = i * Fragment + Fragment
      BY <1>1, <3>1
    <3>3. i + 1 = k
      BY <2>1, <2>5
    <3>. HIDE DEF i
    <3>4. i * Fragment \in Nat /\ i <= i * Fragment
      BY <1>1, <3>1, Multiples
    <3>. QED BY <3>1, <3>2, <3>3, <3>4
  <2>8. u <= x /\ x < v
    <3>1. ~(x < u)
      BY <2>6
    <3>2. x < v
      BY <2>5
    <3>. HIDE DEF i, u, v
    <3>. QED BY <2>1, <2>7, <3>1, <3>2
  <2>9. i \in I
    <3>1. u < item.size /\ i \in 0 .. item.size - 1
      <4>. HIDE DEF i, u, v
      <4>. QED BY <1>1, <2>1, <2>7, <2>8
    <3>. QED BY <3>1
  <2>10. Covers(Piece(i), byte)
    <3>1. /\ Piece(i).offset = item.offset + u
          /\ (Piece(i).length = Fragment \/ Piece(i).length = item.size - u)
      BY <1>3, <2>9
    <3>. HIDE DEF i, u, v, Piece
    <3>. QED BY <1>1, <2>1, <2>7, <2>8, <3>1 DEF Covers, End
  <2>. QED BY <2>9, <2>10
<1>. HIDE DEF Piece, I
<1>. QED BY <1>2, <1>3, <1>4, <1>5, <1>6

-----------------------------------------------------------------------------
(* The backlog                                                             *)

(* The items of a stream lie one behind the other, up to queue_offset.     *)
InPlace(st) ==
  /\ \A i \in 1 .. Len(st.data_queue) :
       st.data_queue[i].offset + st.data_queue[i].size <= st.queue_offset
  /\ \A i, j \in 1 .. Len(st.data_queue) :
       i < j => st.data_queue[i].offset + st.data_queue[i].size <= st.data_queue[j].offset

(* What the order of the new data rests on.                                *)
Ready == send_queue \in Seq(Streams) /\ \A s \in Streams : snd[s] \in SendStream /\ InPlace(snd[s])

(* What a stream has left to send: fragments apart from each other.        *)
LEMMA UnsentIs ==
  ASSUME NEW s \in Streams, snd[s] \in SendStream, InPlace(snd[s])
  PROVE  /\ \A f \in Unsent(s) :
              /\ f \in Packets /\ f.stream = s
              /\ snd[s].sent_offset <= f.offset /\ End(f) <= snd[s].queue_offset
         /\ \A f, g \in Unsent(s) :
              (f.offset < g.offset => End(f) <= g.offset) /\ (f.offset = g.offset => f = g)
<1>. DEFINE dq == snd[s].data_queue
<1>1. /\ dq \in Seq(Item) /\ snd[s].queue_offset \in 0 .. MaxBytes /\ snd[s].sent_offset \in Nat
      /\ MaxBytes \in Nat
  BY BoundsAssumption DEF SendStream, Offset
<1>2. Len(dq) \in Nat /\ DOMAIN dq = 1 .. Len(dq) /\ \A i \in 1 .. Len(dq) : dq[i] \in Item
  BY <1>1, LenProperties, ElementOfSeq
<1>3. /\ \A i \in 1 .. Len(dq) : dq[i].offset + dq[i].size <= snd[s].queue_offset
      /\ \A i, j \in 1 .. Len(dq) : i < j => dq[i].offset + dq[i].size <= dq[j].offset
  BY DEF InPlace
<1>4. Unsent(s) = {f \in UNION {Fragments(s, dq[i]) : i \in 1 .. Len(dq)} : f.offset >= snd[s].sent_offset}
  BY <1>2 DEF Unsent
<1>. HIDE DEF dq
<1>5. \A i \in 1 .. Len(dq) : /\ dq[i].offset \in Nat /\ dq[i].size \in Nat \ {0}
                              /\ dq[i].offset + dq[i].size <= MaxBytes
  BY <1>1, <1>2, <1>3 DEF Item, Offset
<1>6. ASSUME NEW i \in 1 .. Len(dq)
      PROVE  /\ \A f \in Fragments(s, dq[i]) :
                  /\ f \in Packets /\ f.stream = s
                  /\ dq[i].offset <= f.offset /\ End(f) <= dq[i].offset + dq[i].size
             /\ \A f, g \in Fragments(s, dq[i]) :
                  (f.offset < g.offset => End(f) <= g.offset) /\ (f.offset = g.offset => f = g)
  <2>. DEFINE item == dq[i]
  <2>1. item \in Item /\ item.offset + item.size <= MaxBytes
    BY <1>2, <1>5
  <2>. HIDE DEF item
  <2>2. /\ \A f \in Fragments(s, item) :
             /\ f \in Packets /\ f.stream = s
             /\ item.offset <= f.offset /\ End(f) <= item.offset + item.size
        /\ \A f, g \in Fragments(s, item) :
             (f.offset < g.offset => End(f) <= g.offset) /\ (f.offset = g.offset => f = g)
    BY <2>1, FragmentsAre
  <2>. QED BY <2>2 DEF item
<1>7. ASSUME NEW f \in Unsent(s)
      PROVE  /\ f \in Packets /\ f.stream = s
             /\ snd[s].sent_offset <= f.offset /\ End(f) <= snd[s].queue_offset
  <2>1. PICK i \in 1 .. Len(dq) : f \in Fragments(s, dq[i])
    BY <1>4
  <2>2. f \in Packets /\ f.stream = s /\ End(f) <= dq[i].offset + dq[i].size
    BY <1>6, <2>1
  <2>3. f.offset \in Nat /\ f.length \in Nat /\ End(f) \in Nat
    BY <2>2, SizesAssumption DEF Packets, Offset, End
  <2>4. f.offset >= snd[s].sent_offset
    BY <1>4
  <2>5. dq[i].offset + dq[i].size <= snd[s].queue_offset /\ dq[i].offset + dq[i].size \in Nat
    BY <1>3, <1>5
  <2>. QED BY <1>1, <2>2, <2>3, <2>4, <2>5
<1>8. ASSUME NEW f \in Unsent(s), NEW g \in Unsent(s)
      PROVE  (f.offset < g.offset => End(f) <= g.offset) /\ (f.offset = g.offset => f = g)
  <2>1. PICK i \in 1 .. Len(dq) : f \in Fragments(s, dq[i])
    BY <1>4
  <2>2. PICK j \in 1 .. Len(dq) : g \in Fragments(s, dq[j])
    BY <1>4
  <2>3. CASE i = j
    BY <1>6, <2>1, <2>2, <2>3
  <2>4. CASE i # j
    <3>1. /\ f \in Packets /\ dq[i].offset <= f.offset /\ End(f) <= dq[i].offset + dq[i].size
          /\ g \in Packets /\ dq[j].offset <= g.offset /\ End(g) <= dq[j].offset + dq[j].size
      BY <1>6, <2>1, <2>2
    <3>2. /\ f.offset \in Nat /\ End(f) \in Nat /\ f.offset < End(f)
          /\ g.offset \in Nat /\ End(g) \in Nat /\ g.offset < End(g)
      BY <3>1, SizesAssumption DEF Packets, Offset, End
    <3>3. /\ dq[i].offset \in Nat /\ dq[i].size \in Nat /\ dq[j].offset \in Nat /\ dq[j].size \in Nat
      BY <1>5
    <3>4. dq[i].offset + dq[i].size <= dq[j].offset \/ dq[j].offset + dq[j].size <= dq[i].offset
      <4>1. i < j \/ j < i
        BY <1>2, <2>4
      <4>. QED BY <1>3, <4>1
    <3>. QED BY SMTT(30), <3>1, <3>2, <3>3, <3>4
  <2>. QED BY <2>3, <2>4
<1>. QED BY <1>7, <1>8

(* The packets to retransmit, by their numbers.                            *)
LostOrder == InOrder([pn \in lost_packets |-> <<0, pn>>])

(* The packets to retransmit are the lost ones, each once, oldest first.   *)
LEMMA RetransmissionsAre ==
  ASSUME log \in Seq(Packets), lost_packets \subseteq 0 .. Len(log) - 1
  PROVE  /\ IsFiniteSet(lost_packets) /\ Cardinality(lost_packets) \in Nat
         /\ Retransmissions \in Seq(Packets) /\ Len(Retransmissions) = Cardinality(lost_packets)
         /\ \A i \in 1 .. Cardinality(lost_packets) :
              LostOrder[i] \in lost_packets /\ Retransmissions[i] = Packet(LostOrder[i])
         /\ \A pn \in lost_packets : \E i \in 1 .. Cardinality(lost_packets) : LostOrder[i] = pn
         /\ \A i, j \in 1 .. Cardinality(lost_packets) : i < j <=> LostOrder[i] < LostOrder[j]
<1>. DEFINE key == [pn \in lost_packets |-> <<0, pn>>]  n == Cardinality(lost_packets)
<1>1. Len(log) \in Nat /\ \A i \in 1 .. Len(log) : log[i] \in Packets
  BY LenProperties, ElementOfSeq
<1>2. IsFiniteSet(lost_packets)
  <2>1. IsFiniteSet(0 .. Len(log) - 1) /\ lost_packets \in SUBSET (0 .. Len(log) - 1)
    BY <1>1, FS_Interval
  <2>. QED BY <2>1, FS_Subset
<1>3. DOMAIN key = lost_packets /\ \A pn \in lost_packets : key[pn] = <<0, pn>> /\ pn \in Nat
  BY <1>1
<1>4. Keyed(key)
  <2>1. key \in [DOMAIN key -> Nat \X Nat]
    BY <1>3
  <2>. QED BY <1>2, <1>3, <2>1 DEF Keyed
<1>5. LostOrder = InOrder(key)
  BY DEF LostOrder
<1>. HIDE DEF key
<1>6. /\ n \in Nat /\ LostOrder \in Seq(lost_packets) /\ Len(LostOrder) = n
      /\ LostOrder \in [1 .. n -> lost_packets]
      /\ \A x \in lost_packets : \E i \in 1 .. n : LostOrder[i] = x
  BY <1>3, <1>4, <1>5, InOrderIs
<1>7. ASSUME NEW i \in 1 .. n, NEW j \in 1 .. n PROVE i < j <=> LostOrder[i] < LostOrder[j]
  <2>1. i < j <=> Before(key[LostOrder[i]], key[LostOrder[j]])
    BY <1>3, <1>4, <1>5, InOrderOrders
  <2>2. LostOrder[i] \in lost_packets /\ LostOrder[j] \in lost_packets
    BY <1>6
  <2>3. Before(<<0, LostOrder[i]>>, <<0, LostOrder[j]>>) <=> LostOrder[i] < LostOrder[j]
    BY DEF Before
  <2>. QED BY <1>3, <2>1, <2>2, <2>3
<1>8. Retransmissions = [i \in DOMAIN LostOrder |-> Packet(LostOrder[i])]
  BY DEF Retransmissions, LostOrder
<1>. HIDE DEF n
<1>9. DOMAIN LostOrder = 1 .. n
  BY <1>6
<1>10. \A pn \in lost_packets : Packet(pn) \in Packets
  BY <1>1 DEF Packet
<1>11. Retransmissions \in [1 .. n -> Packets]
  BY <1>6, <1>8, <1>9, <1>10
<1>12. Retransmissions \in Seq(Packets) /\ Len(Retransmissions) = n
  <2>1. Retransmissions \in Seq(Packets)
    BY <1>6, <1>11, SeqDef
  <2>. QED BY <1>6, <1>11, <2>1, LenProperties
<1>13. \A i \in 1 .. n : LostOrder[i] \in lost_packets /\ Retransmissions[i] = Packet(LostOrder[i])
  BY <1>6, <1>8, <1>9
<1>. QED BY <1>2, <1>6, <1>7, <1>12, <1>13 DEF n

(* All new data of the queued streams.                                     *)
Pending == UNION {Unsent(s) : s \in ToSet(send_queue)}

(* The new data to send: all of it, and of each stream in order.           *)
LEMMA NewDataIs ==
  ASSUME Ready
  PROVE  /\ NewData \in Seq(Packets)
         /\ \A i \in 1 .. Len(NewData) :
              NewData[i] \in Unsent(NewData[i].stream) /\ NewData[i].stream \in ToSet(send_queue)
         /\ \A s \in ToSet(send_queue) : \A f \in Unsent(s) :
              \E i \in 1 .. Len(NewData) : NewData[i] = f
         /\ \A i, j \in 1 .. Len(NewData) :
              /\ NewData[i] = NewData[j] => i = j
              /\ NewData[i].stream = NewData[j].stream /\ NewData[i].offset < NewData[j].offset => i < j
<1>. DEFINE turn(s) == CHOOSE i \in DOMAIN send_queue : send_queue[i] = s
            key == [f \in Pending |-> <<turn(f.stream), f.offset>>]
            n == Cardinality(Pending)
<1>1. /\ Len(send_queue) \in Nat /\ DOMAIN send_queue = 1 .. Len(send_queue)
      /\ \A i \in 1 .. Len(send_queue) : send_queue[i] \in Streams
  BY LenProperties, ElementOfSeq DEF Ready
<1>2. ASSUME NEW s \in ToSet(send_queue)
      PROVE  s \in Streams /\ turn(s) \in 1 .. Len(send_queue) /\ send_queue[turn(s)] = s
  BY <1>1 DEF ToSet
<1>3. ASSUME NEW f \in Pending
      PROVE  f \in Packets /\ f.stream \in ToSet(send_queue) /\ f \in Unsent(f.stream)
  <2>1. PICK s \in ToSet(send_queue) : f \in Unsent(s)
    BY DEF Pending
  <2>2. s \in Streams /\ snd[s] \in SendStream /\ InPlace(snd[s])
    BY <1>2 DEF Ready
  <2>3. f \in Packets /\ f.stream = s
    BY <2>1, <2>2, UnsentIs
  <2>. QED BY <2>1, <2>3
<1>. HIDE DEF turn
<1>4. IsFiniteSet(Pending)
  <2>. DEFINE T == ToSet(send_queue)
              A == (T \X Offset) \X (1 .. Fragment)
              h == [x \in A |-> [stream |-> x[1][1], offset |-> x[1][2], length |-> x[2]]]
              B == [stream : T, offset : Offset, length : 1 .. Fragment]
  <2>1. IsFiniteSet(T)
    <3>1. send_queue \in Surjection(1 .. Len(send_queue), T)
      BY <1>1, LenProperties DEF Surjection, ToSet, Ready
    <3>2. IsFiniteSet(1 .. Len(send_queue))
      BY <1>1, FS_Interval
    <3>. HIDE DEF T
    <3>. QED BY <3>1, <3>2, FS_Surjection
  <2>2. IsFiniteSet(Offset) /\ IsFiniteSet(1 .. Fragment)
    BY FS_Interval, BoundsAssumption, SizesAssumption DEF Offset
  <2>3. IsFiniteSet(A)
    <3>1. IsFiniteSet(T \X Offset)
      <4>. HIDE DEF T
      <4>. QED BY <2>1, <2>2, FS_Product
    <3>. HIDE DEF T
    <3>. QED BY <2>2, <3>1, FS_Product
  <2>4. h \in Surjection(A, B)
    <3>1. h \in [A -> B]
      OBVIOUS
    <3>2. ASSUME NEW f \in B PROVE \E x \in A : h[x] = f
      <4>1. <<<<f.stream, f.offset>>, f.length>> \in A
        OBVIOUS
      <4>2. h[<<<<f.stream, f.offset>>, f.length>>] = f
        BY <4>1
      <4>. QED BY <4>1, <4>2
    <3>. HIDE DEF h, A, B
    <3>. QED BY <3>1, <3>2 DEF Surjection
  <2>5. IsFiniteSet(B)
    <3>. HIDE DEF h, A, B
    <3>. QED BY <2>3, <2>4, FS_Surjection
  <2>6. Pending \in SUBSET B
    BY <1>3 DEF Packets
  <2>. HIDE DEF B
  <2>. QED BY <2>5, <2>6, FS_Subset
<1>5. Keyed(key)
  <2>1. DOMAIN key = Pending /\ \A f \in Pending : key[f] = <<turn(f.stream), f.offset>>
    OBVIOUS
  <2>2. \A f \in Pending : turn(f.stream) \in Nat /\ f.offset \in Nat
    BY <1>1, <1>2, <1>3 DEF Packets, Offset
  <2>3. ASSUME NEW f \in Pending, NEW g \in Pending, key[f] = key[g] PROVE f = g
    <3>1. turn(f.stream) = turn(g.stream) /\ f.offset = g.offset
      BY <2>1, <2>3
    <3>2. f.stream = g.stream
      BY <1>2, <1>3, <3>1
    <3>3. /\ f.stream \in Streams /\ snd[f.stream] \in SendStream /\ InPlace(snd[f.stream])
          /\ f \in Unsent(f.stream) /\ g \in Unsent(f.stream)
      BY <1>2, <1>3, <3>2 DEF Ready
    <3>. QED BY <3>1, <3>3, UnsentIs
  <2>4. key \in [DOMAIN key -> Nat \X Nat]
    BY <2>1, <2>2
  <2>. HIDE DEF key
  <2>. QED BY <1>4, <2>1, <2>3, <2>4 DEF Keyed
<1>6. NewData = InOrder(key) /\ DOMAIN key = Pending /\ \A f \in Pending : key[f] = <<turn(f.stream), f.offset>>
  BY DEF NewData, Pending, turn
<1>. HIDE DEF key
<1>7. /\ n \in Nat /\ NewData \in Seq(Pending) /\ Len(NewData) = n
      /\ NewData \in [1 .. n -> Pending]
      /\ \A f \in Pending : \E i \in 1 .. n : NewData[i] = f
      /\ \A i \in 1 .. n : Rank(key, NewData[i]) = i - 1
  BY <1>5, <1>6, InOrderIs
<1>8. ASSUME NEW i \in 1 .. n, NEW j \in 1 .. n
      PROVE  /\ NewData[i] = NewData[j] => i = j
             /\ NewData[i].stream = NewData[j].stream /\ NewData[i].offset < NewData[j].offset => i < j
  <2>1. i < j <=> Before(key[NewData[i]], key[NewData[j]])
    BY <1>5, <1>6, InOrderOrders
  <2>2. NewData[i] \in Pending /\ NewData[j] \in Pending
    BY <1>7
  <2>3. ASSUME NewData[i].stream = NewData[j].stream, NewData[i].offset < NewData[j].offset
        PROVE  Before(key[NewData[i]], key[NewData[j]])
    BY <1>6, <2>2, <2>3 DEF Before
  <2>4. NewData[i] = NewData[j] => i = j
    <3>1. Rank(key, NewData[i]) = i - 1 /\ Rank(key, NewData[j]) = j - 1
      BY <1>7
    <3>2. i \in Int /\ j \in Int
      OBVIOUS
    <3>. QED BY <3>1, <3>2
  <2>. QED BY <2>1, <2>3, <2>4
<1>9. NewData \in Seq(Packets)
  <2>1. Pending \subseteq Packets
    BY <1>3
  <2>. QED BY <1>7, <2>1, SeqMonotonic
<1>10. \A i \in 1 .. n : NewData[i] \in Unsent(NewData[i].stream) /\ NewData[i].stream \in ToSet(send_queue)
  BY <1>3, <1>7
<1>11. \A s \in ToSet(send_queue) : \A f \in Unsent(s) : \E i \in 1 .. n : NewData[i] = f
  BY <1>7 DEF Pending
<1>. QED BY <1>7, <1>8, <1>9, <1>10, <1>11

-----------------------------------------------------------------------------
(* The invariant                                                           *)

(* What was sent, in flight or lost: within sent_offset, and the same      *)
(* packet for the same offset of a stream.                                 *)
LogOK ==
  /\ log \in Seq(Packets) /\ Len(log) <= MaxPackets
  /\ sent_packets \subseteq 0 .. Len(log) - 1 /\ lost_packets \subseteq 0 .. Len(log) - 1
  /\ sent_packets \cap lost_packets = {}
  /\ \A i \in 1 .. Len(log) : End(log[i]) <= snd[log[i].stream].sent_offset
  /\ \A i, j \in 1 .. Len(log) :
       log[i].stream = log[j].stream /\ log[i].offset = log[j].offset => log[i] = log[j]

(* The offsets of a sending stream are in order.                           *)
StreamOK(st) ==
  /\ st \in SendStream /\ InPlace(st)
  /\ st.acked_offset <= st.sent_offset /\ st.sent_offset <= st.queue_offset
  /\ \A r \in st.outstanding_acks : End(r) <= st.sent_offset
SndOK ==
  /\ DOMAIN snd = Streams /\ snd = [s \in Streams |-> snd[s]]
  /\ \A s \in Streams : StreamOK(snd[s])
  /\ flushed \in [Streams -> Offset] /\ \A s \in Streams : flushed[s] <= snd[s].sent_offset

ControlOK ==
  /\ bytes_in_flight \in 0 .. Word - 1 /\ congestion_window \in Cwnds
  /\ largest_acked \in PacketNumber /\ send_queue \in Seq(Streams)
  /\ is_pacing_timer_active \in BOOLEAN /\ tlp \in Nat /\ tlp_interval \in Nat \ {0}
  /\ up \in BOOLEAN /\ ack_timer_active \in BOOLEAN
  /\ flushes \in 0 .. MaxFlushes /\ skips \in 0 .. MaxSkips /\ lost \in 0 .. MaxLosses

(* What a message says is, or once was, so.                                *)
MessageOK(m) ==
  /\ m \in Message
  /\ m.type = "DATA" => m.packet_number < Len(log)
  /\ m.type = "ACK" => Seen(m) \subseteq arrived
  /\ m.type \in {"SKIPSTREAM", "FLUSHSTREAM"} => m.offset <= snd[m.stream].sent_offset
NetOK == \A m \in net : MessageOK(m)

(* The receiver has the byte, handed over, skipped or kept.                *)
Received(s, byte) ==
  byte < rcv[s].read_offset \/ \E r \in rcv[s].recv_packets : Covers(r, byte)

(* The receiver keeps only what arrived, and has what it took.             *)
RcvOK ==
  /\ rcv \in [Streams -> RecvStream] /\ handed \in [Streams -> SUBSET Offset]
  /\ arrived \subseteq 0 .. Len(log) - 1
  /\ \A s \in Streams :
       /\ rcv[s].read_offset <= snd[s].sent_offset
       /\ \A r \in rcv[s].recv_packets :
            \E pn \in arrived : Packet(pn).stream = s /\ RangeOf(Packet(pn)) = r
  /\ \A pn \in arrived : \A byte \in Nat :
       Covers(Packet(pn), byte) => Received(Packet(pn).stream, byte)

AckOK ==
  /\ WellFormed(ack_ranges) /\ ack_ranges.largest \in PacketNumber
  /\ AckRangesExact

(* The inductive invariant of the data plane.                              *)
Base == LogOK /\ SndOK /\ ControlOK /\ NetOK /\ RcvOK /\ AckOK

(* What only ever grows.                                                   *)
Grows ==
  /\ Len(log) <= Len(log)' /\ \A i \in 1 .. Len(log) : log'[i] = log[i]
  /\ \A s \in Streams : snd[s].sent_offset <= snd'[s].sent_offset
  /\ arrived \subseteq arrived'

-----------------------------------------------------------------------------
(* A round of sending                                                      *)

(* Packets that were sent before, and fragments sent for the first time.   *)
OldPacket(p) == \E i \in 1 .. Len(log) : p = log[i]
NewPacket(p) == p.stream \in Streams /\ p \in Unsent(p.stream)

(* The backlog: packets to retransmit, then new ones.                      *)
LEMMA BacklogIs ==
  ASSUME LogOK, SndOK, ControlOK
  PROVE  /\ Cardinality(lost_packets) \in Nat /\ Backlog \in Seq(Packets)
         /\ Cardinality(lost_packets) <= Len(Backlog) /\ Len(Backlog) \in Nat
         /\ \A i \in 1 .. Cardinality(lost_packets) : OldPacket(Backlog[i])
         /\ \A i \in Cardinality(lost_packets) + 1 .. Len(Backlog) : NewPacket(Backlog[i])
<1>. DEFINE k == Cardinality(lost_packets)  m == Len(NewData)
<1>1. /\ k \in Nat /\ Retransmissions \in Seq(Packets) /\ Len(Retransmissions) = k
      /\ \A i \in 1 .. k : LostOrder[i] \in lost_packets /\ Retransmissions[i] = Packet(LostOrder[i])
  BY RetransmissionsAre DEF LogOK
<1>2. Ready
  BY DEF Ready, SndOK, StreamOK, ControlOK
<1>3. /\ NewData \in Seq(Packets)
      /\ \A i \in 1 .. m : NewData[i] \in Unsent(NewData[i].stream)
  BY <1>2, NewDataIs
<1>4. m \in Nat /\ \A i \in 1 .. m : NewData[i] \in Packets
  BY <1>3, LenProperties, ElementOfSeq
<1>5. /\ Backlog \in Seq(Packets) /\ Len(Backlog) = k + m
      /\ \A i \in 1 .. k + m : Backlog[i] = IF i <= k THEN Retransmissions[i] ELSE NewData[i - k]
  <2>1. /\ Retransmissions \o NewData \in Seq(Packets)
        /\ Len(Retransmissions \o NewData) = Len(Retransmissions) + Len(NewData)
        /\ \A i \in 1 .. Len(Retransmissions) + Len(NewData) :
             (Retransmissions \o NewData)[i] =
               IF i <= Len(Retransmissions) THEN Retransmissions[i] ELSE NewData[i - Len(Retransmissions)]
    BY <1>1, <1>3, ConcatProperties
  <2>. QED BY <1>1, <2>1 DEF Backlog
<1>. HIDE DEF k, m
<1>6. ASSUME NEW i \in 1 .. k PROVE OldPacket(Backlog[i])
  <2>1. i \in 1 .. k + m /\ i <= k
    BY <1>1, <1>4
  <2>2. Backlog[i] = Packet(LostOrder[i]) /\ LostOrder[i] \in lost_packets
    BY <1>1, <1>5, <2>1
  <2>3. LostOrder[i] + 1 \in 1 .. Len(log)
    <3>1. LostOrder[i] \in 0 .. Len(log) - 1 /\ Len(log) \in Nat
      BY <2>2, LenProperties DEF LogOK
    <3>. QED BY <3>1
  <2>. QED BY <2>2, <2>3 DEF Packet, OldPacket
<1>7. ASSUME NEW i \in k + 1 .. k + m PROVE NewPacket(Backlog[i])
  <2>1. i \in 1 .. k + m /\ ~(i <= k) /\ i - k \in 1 .. m
    BY <1>1, <1>4
  <2>2. Backlog[i] = NewData[i - k]
    BY <1>5, <2>1
  <2>. QED BY <1>3, <1>4, <2>1, <2>2 DEF NewPacket, Packets
<1>8. k <= k + m /\ k + m \in Nat
  BY <1>1, <1>4
<1>. QED BY <1>1, <1>5, <1>6, <1>7, <1>8 DEF k

(* A round of sending in terms of single packets and streams.              *)
Sent(n) ==
  /\ n \in Nat /\ Len(log) \in Nat
  /\ log' \in Seq(Packets) /\ Len(log') = Len(log) + n
  /\ \A i \in 1 .. Len(log) : log'[i] = log[i]
  /\ \A i \in 1 .. n : log'[Len(log) + i] = Backlog[i]
  /\ \A s \in Streams :
       /\ snd'[s] = [snd[s] EXCEPT !.sent_offset = snd'[s].sent_offset]
       /\ snd'[s].sent_offset \in snd[s].sent_offset .. snd[s].queue_offset
       /\ snd'[s].sent_offset = snd[s].sent_offset
            \/ \E i \in Cardinality(lost_packets) + 1 .. n :
                 Backlog[i].stream = s /\ snd'[s].sent_offset = End(Backlog[i])
       /\ \A i \in Cardinality(lost_packets) + 1 .. n :
            Backlog[i].stream = s => End(Backlog[i]) <= snd'[s].sent_offset
  /\ snd' = [s \in Streams |-> snd'[s]]

(* A pacing round does that.                                               *)
LEMMA RoundSends ==
  ASSUME LogOK, SndOK, ControlOK, NEW n \in 0 .. Len(Backlog), SendRound(Backlog, n)
  PROVE  Sent(n)
<1>. DEFINE k == Cardinality(lost_packets)  work == Backlog
            T(s) == {snd[s].sent_offset}
                      \cup {End(work[i]) : i \in {j \in k + 1 .. n : work[j].stream = s}}
<1>1. /\ k \in Nat /\ work \in Seq(Packets) /\ Len(work) \in Nat /\ k <= Len(work)
      /\ \A i \in k + 1 .. Len(work) : NewPacket(work[i])
  BY BacklogIs
<1>2. log' = log \o SubSeq(work, 1, n) /\ snd' = [s \in Streams |-> [snd[s] EXCEPT !.sent_offset = Max(T(s))]]
  BY DEF SendRound
<1>3. /\ log \in Seq(Packets) /\ Len(log) \in Nat /\ n \in Nat
  BY <1>1, LenProperties DEF LogOK
<1>. HIDE DEF work, k
<1>4. n <= Len(work)
  BY <1>1 DEF work
<1>5. /\ SubSeq(work, 1, n) \in Seq(Packets) /\ Len(SubSeq(work, 1, n)) = n
      /\ \A i \in 1 .. n : SubSeq(work, 1, n)[i] = work[i]
  <2>1. 1 \in Int /\ n \in Int /\ \A i \in 1 .. n : work[i] \in Packets
    BY <1>1, <1>3, <1>4, ElementOfSeq
  <2>2. /\ SubSeq(work, 1, n) \in Seq(Packets)
        /\ Len(SubSeq(work, 1, n)) = (IF 1 <= n THEN n - 1 + 1 ELSE 0)
        /\ \A i \in 1 .. n - 1 + 1 : SubSeq(work, 1, n)[i] = work[1 + i - 1]
    BY <2>1, SubSeqProperties
  <2>3. n - 1 + 1 = n /\ \A i \in 1 .. n : 1 + i - 1 = i
    BY <1>3
  <2>. QED BY <1>3, <2>2, <2>3
<1>. DEFINE head == SubSeq(work, 1, n)
<1>. HIDE DEF head
<1>6. /\ log' \in Seq(Packets) /\ Len(log') = Len(log) + n
      /\ \A i \in 1 .. Len(log) : log'[i] = log[i]
      /\ \A i \in 1 .. n : log'[Len(log) + i] = work[i]
  <2>1. /\ head \in Seq(Packets) /\ Len(head) = n /\ \A i \in 1 .. n : head[i] = work[i]
        /\ log' = log \o head
    BY <1>2, <1>5 DEF head
  <2>2. /\ log \o head \in Seq(Packets) /\ Len(log \o head) = Len(log) + Len(head)
        /\ \A i \in 1 .. Len(log) + Len(head) :
             (log \o head)[i] = IF i <= Len(log) THEN log[i] ELSE head[i - Len(log)]
    BY <1>3, <2>1, ConcatProperties
  <2>3. \A i \in 1 .. Len(log) : i \in 1 .. Len(log) + n /\ i <= Len(log)
    BY <1>3
  <2>4. \A i \in 1 .. n : /\ Len(log) + i \in 1 .. Len(log) + n /\ ~(Len(log) + i <= Len(log))
                          /\ (Len(log) + i) - Len(log) = i
    BY <1>3
  <2>. QED BY <2>1, <2>2, <2>3, <2>4
<1>7. ASSUME NEW s \in Streams
      PROVE  /\ snd'[s] = [snd[s] EXCEPT !.sent_offset = snd'[s].sent_offset]
             /\ snd'[s].sent_offset \in snd[s].sent_offset .. snd[s].queue_offset
             /\ snd'[s].sent_offset = snd[s].sent_offset
                  \/ \E i \in k + 1 .. n : work[i].stream = s /\ snd'[s].sent_offset = End(work[i])
             /\ \A i \in k + 1 .. n : work[i].stream = s => End(work[i]) <= snd'[s].sent_offset
  <2>1. snd[s] \in SendStream /\ InPlace(snd[s]) /\ snd[s].sent_offset <= snd[s].queue_offset
    BY DEF SndOK, StreamOK
  <2>2. snd[s].sent_offset \in Nat /\ snd[s].queue_offset \in Nat
    BY <2>1, BoundsAssumption DEF SendStream, Offset
  <2>3. ASSUME NEW i \in k + 1 .. n, work[i].stream = s
        PROVE  End(work[i]) \in 0 .. snd[s].queue_offset
    <3>1. i \in k + 1 .. Len(work)
      BY <1>1, <1>3, <1>4
    <3>2. work[i] \in Unsent(s)
      BY <1>1, <2>3, <3>1 DEF NewPacket
    <3>3. work[i] \in Packets /\ End(work[i]) <= snd[s].queue_offset
      BY <2>1, <3>2, UnsentIs
    <3>4. End(work[i]) \in Nat
      BY SMTT(30), <3>3, BoundsAssumption, SizesAssumption DEF Packets, Offset, End
    <3>. QED BY <2>2, <3>3, <3>4
  <2>4. T(s) \subseteq 0 .. snd[s].queue_offset /\ snd[s].sent_offset \in T(s)
    BY <2>1, <2>2, <2>3
  <2>5. \A i \in k + 1 .. n : work[i].stream = s => End(work[i]) \in T(s)
    OBVIOUS
  <2>6. \A t \in T(s) : t = snd[s].sent_offset \/ \E i \in k + 1 .. n : work[i].stream = s /\ t = End(work[i])
    OBVIOUS
  <2>7. snd'[s] = [snd[s] EXCEPT !.sent_offset = Max(T(s))]
    BY <1>2
  <2>. HIDE DEF T
  <2>8. Max(T(s)) \in T(s) /\ \A y \in T(s) : y <= Max(T(s))
    BY <2>2, <2>4, GreatestBelow
  <2>9. snd'[s].sent_offset = Max(T(s))
    BY <2>1, <2>7 DEF SendStream
  <2>10. Max(T(s)) \in snd[s].sent_offset .. snd[s].queue_offset
    BY <2>2, <2>4, <2>8
  <2>. QED BY <2>5, <2>6, <2>7, <2>8, <2>9, <2>10
<1>8. snd' = [s \in Streams |-> snd'[s]]
  BY <1>2
<1>. QED BY <1>3, <1>6, <1>7, <1>8 DEF Sent, work, k

-----------------------------------------------------------------------------
(* What growing keeps                                                      *)

(* Plain consequences of the invariant.                                    *)
LEMMA Facts ==
  ASSUME LogOK, SndOK
  PROVE  /\ Len(log) \in Nat /\ Fragment \in Nat \ {0} /\ MaxBytes \in Nat
         /\ \A i \in 1 .. Len(log) :
              /\ log[i] \in Packets /\ log[i].stream \in Streams
              /\ log[i].offset \in Nat /\ log[i].length \in Nat \ {0} /\ log[i].length <= Fragment
              /\ End(log[i]) \in Nat /\ log[i].offset < End(log[i])
         /\ \A s \in Streams :
              /\ snd[s] \in SendStream /\ snd[s].sent_offset \in Nat /\ snd[s].queue_offset \in Nat
              /\ snd[s].acked_offset \in Nat /\ flushed[s] \in Nat
<1>1. Fragment \in Nat \ {0} /\ MaxBytes \in Nat
  BY SizesAssumption, BoundsAssumption
<1>2. Len(log) \in Nat /\ \A i \in 1 .. Len(log) : log[i] \in Packets
  BY LenProperties, ElementOfSeq DEF LogOK
<1>3. ASSUME NEW p \in Packets
      PROVE  /\ p.stream \in Streams /\ p.offset \in Nat /\ p.length \in Nat \ {0} /\ p.length <= Fragment
             /\ End(p) \in Nat /\ p.offset < End(p)
  BY <1>1 DEF Packets, Offset, End
<1>4. ASSUME NEW s \in Streams
      PROVE  /\ snd[s] \in SendStream /\ snd[s].sent_offset \in Nat /\ snd[s].queue_offset \in Nat
             /\ snd[s].acked_offset \in Nat /\ flushed[s] \in Nat
  BY <1>1 DEF SndOK, StreamOK, SendStream, Offset
<1>. QED BY <1>1, <1>2, <1>3, <1>4

(* A message stays true.                                                   *)
LEMMA MessageGrows ==
  ASSUME LogOK, SndOK, Grows, NEW m, MessageOK(m), Len(log)' \in Nat,
         \A s \in Streams : snd'[s].sent_offset \in Nat
  PROVE  MessageOK(m)'
<1>1. Len(log) \in Nat /\ Len(log) <= Len(log)'
  BY Facts DEF Grows
<1>2. m \in Message
  BY DEF MessageOK
<1>3. ASSUME m.type = "DATA" PROVE m.packet_number < Len(log)'
  <2>1. m.packet_number \in Nat
    BY <1>2, <1>3 DEF Message, PacketNumber
  <2>2. m.packet_number < Len(log)
    BY <1>3 DEF MessageOK
  <2>. QED BY <1>1, <2>1, <2>2
<1>4. ASSUME m.type = "ACK" PROVE Seen(m) \subseteq arrived'
  BY <1>4 DEF MessageOK, Grows
<1>5. ASSUME m.type \in {"SKIPSTREAM", "FLUSHSTREAM"} PROVE m.offset <= snd'[m.stream].sent_offset
  <2>1. m.stream \in Streams /\ m.offset \in Nat
    BY <1>2, <1>5, BoundsAssumption DEF Message, Offset
  <2>2. m.offset <= snd[m.stream].sent_offset /\ snd[m.stream].sent_offset \in Nat
    BY <1>5, <2>1, Facts DEF MessageOK
  <2>3. snd[m.stream].sent_offset <= snd'[m.stream].sent_offset /\ snd'[m.stream].sent_offset \in Nat
    BY <2>1 DEF Grows
  <2>. QED BY <2>1, <2>2, <2>3
<1>. QED BY <1>2, <1>3, <1>4, <1>5 DEF MessageOK

(* A receiver that did nothing keeps its promises.                         *)
LEMMA RcvGrows ==
  ASSUME LogOK, SndOK, RcvOK, Grows, Len(log)' \in Nat,
         \A s \in Streams : snd'[s].sent_offset \in Nat,
         rcv' = rcv, handed' = handed, arrived' = arrived
  PROVE  RcvOK'
<1>1. Len(log) \in Nat /\ Len(log) <= Len(log)'
  BY Facts DEF Grows
<1>2. arrived \subseteq 0 .. Len(log)' - 1
  BY <1>1 DEF RcvOK
<1>3. ASSUME NEW pn \in arrived PROVE Packet(pn)' = Packet(pn)
  <2>1. pn \in 0 .. Len(log) - 1
    BY DEF RcvOK
  <2>2. pn + 1 \in 1 .. Len(log)
    BY <1>1, <2>1
  <2>. QED BY <2>2 DEF Grows, Packet
<1>4. ASSUME NEW s \in Streams PROVE rcv[s].read_offset <= snd'[s].sent_offset
  <2>1. rcv[s].read_offset \in Nat /\ snd[s].sent_offset \in Nat /\ snd'[s].sent_offset \in Nat
    BY Facts, BoundsAssumption DEF RcvOK, RecvStream, Offset
  <2>. QED BY <2>1 DEF RcvOK, Grows
<1>5. ASSUME NEW s \in Streams, NEW r \in rcv[s].recv_packets
      PROVE  \E pn \in arrived : Packet(pn)'.stream = s /\ RangeOf(Packet(pn)') = r
  BY <1>3 DEF RcvOK
<1>6. ASSUME NEW pn \in arrived, NEW byte \in Nat, Covers(Packet(pn)', byte)
      PROVE  Received(Packet(pn)'.stream, byte)
  BY <1>3, <1>6 DEF RcvOK
<1>7. \A s, byte : Received(s, byte)' <=> Received(s, byte)
  BY DEF Received
<1>8. rcv \in [Streams -> RecvStream] /\ handed \in [Streams -> SUBSET Offset]
  BY DEF RcvOK
<1>9. \A pn \in arrived : (Packet(pn).stream)' = Packet(pn)'.stream
  OBVIOUS
<1>10. \A pn, byte : Covers(Packet(pn), byte)' <=> Covers(Packet(pn)', byte)
  BY DEF Covers, End
<1>11. \A pn : RangeOf(Packet(pn))' = RangeOf(Packet(pn)')
  BY DEF RangeOf
<1>. QED BY <1>2, <1>4, <1>5, <1>6, <1>7, <1>8, <1>10, <1>11 DEF RcvOK

(* Packets change hands but none is sent.                                  *)
LEMMA LogStays ==
  ASSUME LogOK, SndOK, log' = log,
         sent_packets' \subseteq sent_packets \cup lost_packets,
         lost_packets' \subseteq sent_packets \cup lost_packets,
         sent_packets' \cap lost_packets' = {},
         \A s \in Streams : snd'[s].sent_offset \in Nat /\ snd[s].sent_offset <= snd'[s].sent_offset
  PROVE  LogOK'
<1>1. ASSUME NEW i \in 1 .. Len(log) PROVE End(log[i]) <= snd'[log[i].stream].sent_offset
  <2>1. /\ log[i].stream \in Streams /\ End(log[i]) \in Nat
        /\ snd[log[i].stream].sent_offset \in Nat /\ snd'[log[i].stream].sent_offset \in Nat
        /\ snd[log[i].stream].sent_offset <= snd'[log[i].stream].sent_offset
    BY Facts
  <2>2. End(log[i]) <= snd[log[i].stream].sent_offset
    BY DEF LogOK
  <2>. QED BY <2>1, <2>2
<1>2. sent_packets' \subseteq 0 .. Len(log) - 1 /\ lost_packets' \subseteq 0 .. Len(log) - 1
  BY DEF LogOK
<1>3. \A i : End(log[i])' = End(log[i])
  BY DEF End
<1>. QED BY <1>1, <1>2, <1>3 DEF LogOK

(* When no packet is sent and none arrives, things grow if sent_offset     *)
(* does.                                                                   *)
LEMMA Growing ==
  ASSUME LogOK, SndOK, log' = log, arrived' = arrived,
         \A s \in Streams : snd[s].sent_offset <= snd'[s].sent_offset
  PROVE  Grows /\ Len(log)' \in Nat
<1>1. Len(log) \in Nat
  BY Facts
<1>. QED BY <1>1 DEF Grows

-----------------------------------------------------------------------------
(* Counting bytes                                                          *)

(* Counters wrap around within their word.                                 *)
LEMMA Wraps ==
  ASSUME NEW x \in Int, NEW y \in Int
  PROVE  Plus(x, y) \in 0 .. Word - 1 /\ Minus(x, y) \in 0 .. Word - 1
<1>. DEFINE w == Word  u == x + y  v == x - y
<1>1. w \in Nat \ {0}
  <2>1. MaxPackets * Fragment \in Nat
    BY BoundsAssumption, SizesAssumption
  <2>. QED BY <2>1, BoundsAssumption
<1>2. u \in Int /\ v \in Int
  OBVIOUS
<1>3. u % w \in 0 .. w - 1 /\ v % w \in 0 .. w - 1
  <2>. HIDE DEF u, v, w
  <2>. QED BY <1>1, <1>2
<1>. QED BY <1>3 DEF Plus, Minus

(* What packets carry is a number of bytes, less than the counter holds.   *)
LEMMA LengthIs ==
  ASSUME LogOK, SndOK, NEW pns
  PROVE  Length(pns) \in Nat /\ Length(pns) < Word
<1>. DEFINE d == [i \in 1 .. Len(log) |-> IF i - 1 \in pns THEN log[i].length ELSE 0]
            n == Len(log)
<1>1. n \in Nat /\ Fragment \in Nat \ {0} /\ n <= MaxPackets
  BY Facts DEF LogOK
<1>2. \A i \in 1 .. n : d[i] \in 0 .. Fragment
  BY Facts
<1>3. Length(pns) = Total(d, n)
  BY DEF Length
<1>. HIDE DEF d, n
<1>4. Total(d, n) \in Nat /\ Total(d, n) <= n * Fragment
  BY <1>1, <1>2, TotalBetween
<1>5. n * Fragment <= MaxPackets * Fragment
  <2>1. MaxPackets \in Nat /\ (n < MaxPackets \/ n = MaxPackets)
    BY <1>1, BoundsAssumption
  <2>2. /\ n * Fragment \in Nat /\ MaxPackets * Fragment \in Nat
        /\ (n < MaxPackets => n * Fragment + Fragment <= MaxPackets * Fragment)
    BY <1>1, <2>1, Multiples
  <2>3. n = MaxPackets => n * Fragment = MaxPackets * Fragment
    OBVIOUS
  <2>. QED BY <1>1, <2>1, <2>2, <2>3
<1>6. MaxPackets * Fragment \in Nat /\ n * Fragment \in Nat /\ Word \in Nat /\ Word > MaxPackets * Fragment
  BY <1>1, BoundsAssumption
<1>. HIDE DEF n
<1>7. Total(d, n) < Word
  <2>. DEFINE u == MaxPackets * Fragment  v == n * Fragment
  <2>1. u \in Nat /\ v \in Nat /\ Word > u /\ v <= u /\ Total(d, n) <= v
    BY <1>4, <1>5, <1>6
  <2>. HIDE DEF u, v
  <2>. QED BY <1>4, <1>6, <2>1
<1>. QED BY <1>3, <1>4, <1>7

(* So is what a round sends.                                               *)
LEMMA BytesAre ==
  ASSUME LogOK, SndOK, ControlOK, NEW n \in 0 .. Len(Backlog)
  PROVE  Bytes(Backlog, n) \in Nat
<1>. DEFINE work == Backlog  d == [i \in DOMAIN work |-> work[i].length]
<1>1. Len(work) \in Nat /\ DOMAIN work = 1 .. Len(work) /\ \A i \in 1 .. Len(work) : work[i] \in Packets
  BY BacklogIs, LenProperties, ElementOfSeq
<1>2. n \in Nat /\ Fragment \in Nat
  BY <1>1, Facts
<1>3. \A i \in 1 .. n : d[i] \in 0 .. Fragment
  <2>1. SUFFICES ASSUME NEW i \in 1 .. n PROVE d[i] \in 0 .. Fragment
    OBVIOUS
  <2>2. i \in 1 .. Len(work)
    BY <1>1, <1>2
  <2>. QED BY <1>1, <1>2, <2>2 DEF Packets
<1>4. Bytes(work, n) = Total(d, n)
  BY DEF Bytes
<1>. HIDE DEF d, work
<1>5. Total(d, n) \in Nat
  BY <1>2, <1>3, TotalBetween
<1>. QED BY <1>4, <1>5 DEF work

-----------------------------------------------------------------------------
(* pacing_timer_cb                                                         *)

(* The log after a round.                                                  *)
LEMMA RoundLog ==
  ASSUME LogOK, SndOK, ControlOK, NEW n \in 0 .. Len(Backlog), SendRound(Backlog, n)
  PROVE  LogOK'
<1>. DEFINE k == Len(log)  l == Cardinality(lost_packets)
<1>1. Sent(n)
  BY RoundSends
<1>2. /\ l \in Nat /\ Len(Backlog) \in Nat
      /\ \A i \in 1 .. l : OldPacket(Backlog[i])
      /\ \A i \in l + 1 .. Len(Backlog) : NewPacket(Backlog[i])
  BY BacklogIs
<1>3. /\ k \in Nat
      /\ \A i \in 1 .. k : /\ log[i] \in Packets /\ log[i].stream \in Streams /\ log[i].offset \in Nat
                           /\ End(log[i]) \in Nat /\ log[i].offset < End(log[i])
      /\ \A s \in Streams : snd[s].sent_offset \in Nat /\ snd[s] \in SendStream
  BY Facts
<1>4. /\ n \in Nat /\ n <= Len(Backlog) /\ log' \in Seq(Packets) /\ Len(log') = k + n
      /\ \A i \in 1 .. k : log'[i] = log[i]
      /\ \A i \in 1 .. n : log'[k + i] = Backlog[i]
  BY <1>1, <1>2 DEF Sent
<1>5. \A s \in Streams :
        /\ snd'[s].sent_offset \in Nat /\ snd[s].sent_offset <= snd'[s].sent_offset
        /\ \A i \in l + 1 .. n : Backlog[i].stream = s => End(Backlog[i]) <= snd'[s].sent_offset
  <2>1. SUFFICES ASSUME NEW s \in Streams
                 PROVE  /\ snd'[s].sent_offset \in Nat /\ snd[s].sent_offset <= snd'[s].sent_offset
                        /\ \A i \in l + 1 .. n : Backlog[i].stream = s => End(Backlog[i]) <= snd'[s].sent_offset
    OBVIOUS
  <2>2. /\ snd'[s].sent_offset \in snd[s].sent_offset .. snd[s].queue_offset
        /\ \A i \in l + 1 .. n : Backlog[i].stream = s => End(Backlog[i]) <= snd'[s].sent_offset
    BY <1>1 DEF Sent
  <2>3. snd[s].sent_offset \in Nat /\ snd[s].queue_offset \in Nat
    BY Facts
  <2>. QED BY <2>2, <2>3
<1>. HIDE DEF k, l
\* each packet of the log is an old one or a new one
<1>6. ASSUME NEW i \in 1 .. k + n
      PROVE  (\E j \in 1 .. k : log'[i] = log[j]) \/ (\E j \in l + 1 .. n : log'[i] = Backlog[j] /\ NewPacket(Backlog[j]))
  <2>1. CASE i <= k
    <3>1. i \in 1 .. k
      BY <1>3, <2>1
    <3>. QED BY <1>4, <3>1
  <2>2. CASE i > k
    <3>1. i - k \in 1 .. n /\ k + (i - k) = i
      BY <1>3, <1>4, <2>2
    <3>2. log'[i] = Backlog[i - k]
      BY <1>4, <3>1
    <3>3. CASE i - k <= l
      <4>1. i - k \in 1 .. l
        BY <1>2, <3>1, <3>3
      <4>. QED BY <1>2, <3>2, <4>1 DEF OldPacket, k
    <3>4. CASE i - k > l
      <4>1. i - k \in l + 1 .. n /\ i - k \in l + 1 .. Len(Backlog)
        BY <1>2, <1>4, <3>1, <3>4
      <4>. QED BY <1>2, <3>2, <4>1
    <3>5. i - k \in Int
      BY <3>1
    <3>. QED BY <1>2, <3>3, <3>4, <3>5
  <2>3. i \in Int
    OBVIOUS
  <2>. QED BY <1>3, <2>1, <2>2, <2>3
<1>7. ASSUME NEW p, NewPacket(p)
      PROVE  /\ p.stream \in Streams /\ p.offset \in Nat /\ End(p) \in Nat
             /\ snd[p.stream].sent_offset <= p.offset
  <2>1. p.stream \in Streams /\ p \in Unsent(p.stream) /\ snd[p.stream] \in SendStream /\ InPlace(snd[p.stream])
    BY <1>3, <1>7 DEF NewPacket, SndOK, StreamOK
  <2>2. p \in Packets /\ snd[p.stream].sent_offset <= p.offset
    BY <2>1, UnsentIs
  <2>. QED BY <2>1, <2>2, BoundsAssumption, SizesAssumption DEF Packets, Offset, End
<1>8. \A j \in 1 .. k : End(log[j]) <= snd[log[j].stream].sent_offset
  BY DEF LogOK, k
<1>9. ASSUME NEW i \in 1 .. k + n PROVE End(log'[i]) <= snd'[log'[i].stream].sent_offset
  <2>1. CASE \E j \in 1 .. k : log'[i] = log[j]
    <3>1. PICK j \in 1 .. k : log'[i] = log[j]
      BY <2>1
    <3>2. End(log[j]) <= snd[log[j].stream].sent_offset /\ log[j].stream \in Streams /\ End(log[j]) \in Nat
      BY <1>3, <1>8
    <3>3. /\ snd[log[j].stream].sent_offset \in Nat /\ snd'[log[j].stream].sent_offset \in Nat
          /\ snd[log[j].stream].sent_offset <= snd'[log[j].stream].sent_offset
      BY <1>3, <1>5, <3>2
    <3>. QED BY <3>1, <3>2, <3>3
  <2>2. CASE \E j \in l + 1 .. n : log'[i] = Backlog[j] /\ NewPacket(Backlog[j])
    BY <1>5, <1>7, <2>2
  <2>. QED BY <1>6, <2>1, <2>2
<1>10. ASSUME NEW p, NewPacket(p), NEW j \in 1 .. k, log[j].stream = p.stream
       PROVE  log[j].offset # p.offset
  <2>1. p.stream \in Streams /\ p.offset \in Nat /\ snd[p.stream].sent_offset <= p.offset
    BY <1>7, <1>10
  <2>2. /\ End(log[j]) <= snd[p.stream].sent_offset /\ log[j].offset < End(log[j])
        /\ log[j].offset \in Nat /\ End(log[j]) \in Nat /\ snd[p.stream].sent_offset \in Nat
    BY <1>3, <1>8, <1>10, <2>1
  <2>. QED BY <2>1, <2>2
<1>11. ASSUME NEW i \in 1 .. k + n, NEW j \in 1 .. k + n,
              log'[i].stream = log'[j].stream, log'[i].offset = log'[j].offset
       PROVE  log'[i] = log'[j]
  <2>1. CASE (\E a \in 1 .. k : log'[i] = log[a]) /\ (\E b \in 1 .. k : log'[j] = log[b])
    BY <1>11, <2>1 DEF LogOK, k
  <2>2. CASE (\E a \in 1 .. k : log'[i] = log[a]) /\ (\E b \in l + 1 .. n : log'[j] = Backlog[b] /\ NewPacket(Backlog[b]))
    BY <1>10, <1>11, <2>2
  <2>3. CASE (\E a \in l + 1 .. n : log'[i] = Backlog[a] /\ NewPacket(Backlog[a])) /\ (\E b \in 1 .. k : log'[j] = log[b])
    BY <1>10, <1>11, <2>3
  <2>4. CASE NewPacket(log'[i]) /\ NewPacket(log'[j])
    <3>. DEFINE s == log'[i].stream
    <3>1. /\ s \in Streams /\ log'[i] \in Unsent(s) /\ log'[j] \in Unsent(s)
          /\ snd[s] \in SendStream /\ InPlace(snd[s])
      BY <1>3, <1>11, <2>4 DEF NewPacket, SndOK, StreamOK
    <3>. HIDE DEF s
    <3>. QED BY <1>11, <3>1, UnsentIs
  <2>5. /\ (\E a \in 1 .. k : log'[i] = log[a]) \/ (\E a \in l + 1 .. n : log'[i] = Backlog[a] /\ NewPacket(Backlog[a]))
        /\ (\E b \in 1 .. k : log'[j] = log[b]) \/ (\E b \in l + 1 .. n : log'[j] = Backlog[b] /\ NewPacket(Backlog[b]))
    BY <1>6
  <2>6. \/ NewPacket(log'[i]) /\ NewPacket(log'[j])
        \/ (\E a \in 1 .. k : log'[i] = log[a]) \/ (\E b \in 1 .. k : log'[j] = log[b])
    BY <2>5
  <2>. QED BY <2>1, <2>2, <2>3, <2>4, <2>5, <2>6
<1>12. /\ k + n <= MaxPackets /\ sent_packets' = sent_packets \cup (k .. k + n - 1)
       /\ lost_packets' \subseteq lost_packets
  BY DEF SendRound, k
<1>13. /\ sent_packets \subseteq 0 .. k - 1 /\ lost_packets \subseteq 0 .. k - 1
       /\ sent_packets \cap lost_packets = {}
  BY DEF LogOK, k
<1>14. /\ sent_packets' \subseteq 0 .. (k + n) - 1 /\ lost_packets' \subseteq 0 .. (k + n) - 1
       /\ sent_packets' \cap lost_packets' = {}
  BY <1>3, <1>4, <1>12, <1>13
<1>15. \A i : End(log[i])' = End(log'[i])
  BY DEF End
<1>16. Len(log)' = k + n
  BY <1>4
<1>17. \A i \in 1 .. Len(log)' : End(log[i])' <= snd'[log'[i].stream].sent_offset
  BY <1>9, <1>15, <1>16
<1>18. \A i, j \in 1 .. Len(log)' :
         log'[i].stream = log'[j].stream /\ log'[i].offset = log'[j].offset => log'[i] = log'[j]
  BY <1>11, <1>16
<1>. QED BY <1>4, <1>12, <1>14, <1>16, <1>17, <1>18 DEF LogOK

-----------------------------------------------------------------------------
(* Steps of the two sides                                                  *)

(* A step of the sender: the receiver's part of the invariant follows.     *)
LEMMA SenderSteps ==
  ASSUME Base, Grows, LogOK', SndOK', ControlOK',
         rcv' = rcv, handed' = handed, arrived' = arrived, ack_ranges' = ack_ranges,
         \A m \in net' : m \in net \/ MessageOK(m)'
  PROVE  Base'
<1>1. LogOK /\ SndOK /\ RcvOK /\ AckOK /\ NetOK
  BY DEF Base
<1>2. Len(log)' \in Nat
  <2>1. log' \in Seq(Packets)
    BY DEF LogOK
  <2>. QED BY <2>1, LenProperties
<1>3. ASSUME NEW s \in Streams PROVE snd'[s].sent_offset \in Nat
  <2>1. snd'[s] \in SendStream
    BY DEF SndOK, StreamOK
  <2>. QED BY <2>1, BoundsAssumption DEF SendStream, Offset
<1>4. RcvOK'
  BY <1>1, <1>2, <1>3, RcvGrows
<1>5. AckOK'
  <2>1. /\ WellFormed(ack_ranges) /\ ack_ranges.largest \in PacketNumber
        /\ Seen(ack_ranges) \subseteq arrived /\ (MaxRanges > MaxPackets => Seen(ack_ranges) = arrived)
    BY <1>1 DEF AckOK, AckRangesExact
  <2>2. /\ WellFormed(ack_ranges') /\ ack_ranges'.largest \in PacketNumber
        /\ Seen(ack_ranges') \subseteq arrived' /\ (MaxRanges > MaxPackets => Seen(ack_ranges') = arrived')
    BY <2>1
  <2>. QED BY <2>2 DEF AckOK, AckRangesExact
<1>6. ASSUME NEW m \in net' PROVE MessageOK(m)'
  <2>1. CASE m \in net
    <3>1. MessageOK(m)
      BY <1>1, <2>1 DEF NetOK
    <3>. QED BY <1>1, <1>2, <1>3, <3>1, MessageGrows
  <2>. QED BY <2>1
<1>7. NetOK'
  BY <1>6 DEF NetOK
<1>. QED BY <1>4, <1>5, <1>7 DEF Base

(* A step of the receiver: the sender's part of the invariant follows.     *)
LEMMA ReceiverSteps ==
  ASSUME Base, ControlOK', RcvOK', AckOK', arrived \subseteq arrived',
         log' = log, sent_packets' = sent_packets, lost_packets' = lost_packets,
         snd' = snd, flushed' = flushed,
         \A m \in net' : m \in net \/ MessageOK(m)'
  PROVE  Grows /\ Base'
<1>1. LogOK /\ SndOK /\ NetOK
  BY DEF Base
<1>2. Len(log)' \in Nat /\ \A s \in Streams : snd'[s].sent_offset \in Nat
  BY <1>1, Facts
<1>3. Grows
  BY <1>2 DEF Grows
<1>4. SndOK'
  BY <1>1 DEF SndOK
<1>5. LogOK'
  <2>1. /\ sent_packets' \subseteq sent_packets \cup lost_packets
        /\ lost_packets' \subseteq sent_packets \cup lost_packets
        /\ sent_packets' \cap lost_packets' = {}
    BY <1>1 DEF LogOK
  <2>2. \A s \in Streams : snd'[s].sent_offset \in Nat /\ snd[s].sent_offset <= snd'[s].sent_offset
    BY <1>2
  <2>. QED BY <1>1, <2>1, <2>2, LogStays
<1>6. ASSUME NEW m \in net' PROVE MessageOK(m)'
  <2>1. CASE m \in net
    <3>1. MessageOK(m)
      BY <1>1, <2>1 DEF NetOK
    <3>. QED BY <1>1, <1>2, <1>3, <3>1, MessageGrows
  <2>. QED BY <2>1
<1>7. NetOK'
  BY <1>6 DEF NetOK
<1>. QED BY <1>3, <1>4, <1>5, <1>7 DEF Base

-----------------------------------------------------------------------------
(* The sender's steps                                                      *)

(* A new item lies behind the others.                                      *)
LEMMA Queued ==
  ASSUME NEW st, StreamOK(st), NEW size \in Nat \ {0}, st.queue_offset + size <= MaxBytes
  PROVE  StreamOK([st EXCEPT !.data_queue = Append(@, [offset |-> st.queue_offset, size |-> size]),
                             !.queue_offset = @ + size])
<1>. DEFINE item == [offset |-> st.queue_offset, size |-> size]  dq == st.data_queue
            new == [st EXCEPT !.data_queue = Append(@, item), !.queue_offset = @ + size]
            ndq == Append(dq, item)
<1>1. /\ st \in SendStream /\ st.queue_offset \in 0 .. MaxBytes /\ MaxBytes \in Nat
      /\ st.sent_offset \in 0 .. MaxBytes /\ dq \in Seq(Item)
      /\ st.sent_offset <= st.queue_offset
  BY BoundsAssumption DEF StreamOK, SendStream, Offset
<1>2. item \in Item
  BY <1>1 DEF Item, Offset
<1>3. /\ ndq \in Seq(Item) /\ Len(ndq) = Len(dq) + 1 /\ Len(dq) \in Nat
      /\ \A i \in 1 .. Len(dq) : ndq[i] = dq[i]
      /\ ndq[Len(dq) + 1] = item
  <2>. HIDE DEF item, dq
  <2>. QED BY <1>1, <1>2, AppendProperties, LenProperties
<1>4. st.queue_offset + size \in Offset
  BY <1>1 DEF Offset
<1>5. /\ new.data_queue = ndq /\ new.queue_offset = st.queue_offset + size
      /\ new.sent_offset = st.sent_offset /\ new.acked_offset = st.acked_offset
      /\ new.outstanding_acks = st.outstanding_acks
  BY <1>1 DEF SendStream
<1>6. new \in SendStream
  <2>. HIDE DEF item
  <2>. QED BY <1>1, <1>3, <1>4 DEF SendStream
<1>7. item.offset = st.queue_offset /\ item.size = size
  OBVIOUS
<1>8. /\ \A i \in 1 .. Len(dq) : /\ dq[i].offset + dq[i].size <= st.queue_offset
                                 /\ dq[i].offset \in Nat /\ dq[i].size \in Nat
      /\ \A i, j \in 1 .. Len(dq) : i < j => dq[i].offset + dq[i].size <= dq[j].offset
  <2>1. \A i \in 1 .. Len(dq) : dq[i] \in Item
    BY <1>1, ElementOfSeq
  <2>2. \A i \in 1 .. Len(dq) : dq[i].offset \in Nat /\ dq[i].size \in Nat
    <3>. HIDE DEF dq
    <3>. QED BY <1>1, <2>1 DEF Item, Offset
  <2>. QED BY <2>2 DEF StreamOK, InPlace
<1>. HIDE DEF ndq, item, new, dq
<1>9. InPlace(new)
  <2>1. ASSUME NEW i \in 1 .. Len(ndq) PROVE ndq[i].offset + ndq[i].size <= st.queue_offset + size
    <3>1. i \in 1 .. Len(dq) \/ i = Len(dq) + 1
      BY <1>3
    <3>2. CASE i \in 1 .. Len(dq)
      <4>1. ndq[i] = dq[i] /\ dq[i].offset + dq[i].size <= st.queue_offset
            /\ dq[i].offset \in Nat /\ dq[i].size \in Nat
        BY <1>3, <1>8, <3>2
      <4>. QED BY <1>1, <4>1
    <3>3. CASE i = Len(dq) + 1
      BY <1>1, <1>3, <1>7, <3>3
    <3>. QED BY <3>1, <3>2, <3>3
  <2>2. ASSUME NEW i \in 1 .. Len(ndq), NEW j \in 1 .. Len(ndq), i < j
        PROVE  ndq[i].offset + ndq[i].size <= ndq[j].offset
    <3>1. i \in 1 .. Len(dq) /\ (j \in 1 .. Len(dq) \/ j = Len(dq) + 1)
      BY <1>3, <2>2
    <3>. QED BY <1>3, <1>7, <1>8, <2>2, <3>1
  <2>. QED BY <1>5, <2>1, <2>2 DEF InPlace
<1>10. \A r \in st.outstanding_acks : End(r) <= st.sent_offset
  BY DEF StreamOK
<1>11. st.acked_offset <= st.sent_offset
  BY DEF StreamOK
<1>12. new.sent_offset <= new.queue_offset
  BY <1>1, <1>5
<1>13. StreamOK(new)
  BY <1>5, <1>6, <1>9, <1>10, <1>11, <1>12 DEF StreamOK
<1>. QED BY <1>13 DEF new, item

(* One stream changes, its offsets in order and sent_offset not receding.  *)
LEMMA OneStream ==
  ASSUME LogOK, SndOK, NEW s \in Streams, NEW new,
         StreamOK(new), snd[s].sent_offset <= new.sent_offset,
         snd' = [snd EXCEPT ![s] = new],
         flushed' = flushed \/ (flushed' = [flushed EXCEPT ![s] = snd[s].sent_offset])
  PROVE  /\ SndOK' /\ \A x \in Streams : /\ snd'[x].sent_offset \in Nat
                                         /\ snd[x].sent_offset <= snd'[x].sent_offset
         /\ \A x \in Streams \ {s} : snd'[x] = snd[x]
         /\ snd'[s] = new
<1>1. DOMAIN snd = Streams /\ flushed \in [Streams -> Offset]
  BY DEF SndOK
<1>2. snd'[s] = new /\ (\A x \in Streams \ {s} : snd'[x] = snd[x]) /\ DOMAIN snd' = Streams
      /\ snd' = [x \in Streams |-> snd'[x]]
  BY <1>1
<1>3. \A x \in Streams : StreamOK(snd'[x])
  BY <1>2 DEF SndOK
<1>4. new.sent_offset \in Nat /\ \A x \in Streams : snd[x].sent_offset \in Nat /\ flushed[x] \in Nat
  BY Facts, BoundsAssumption DEF StreamOK, SendStream, Offset
<1>5. \A x \in Streams : snd'[x].sent_offset \in Nat /\ snd[x].sent_offset <= snd'[x].sent_offset
  BY <1>2, <1>4
<1>6. flushed' \in [Streams -> Offset]
  <2>1. snd[s].sent_offset \in Offset
    BY DEF SndOK, StreamOK, SendStream
  <2>. QED BY <1>1, <2>1
<1>7. ASSUME NEW x \in Streams PROVE flushed'[x] <= snd'[x].sent_offset
  <2>1. flushed'[x] = flushed[x] \/ (x = s /\ flushed'[x] = snd[s].sent_offset)
    BY <1>1
  <2>2. flushed[x] <= snd[x].sent_offset
    BY DEF SndOK
  <2>. QED BY <1>4, <1>5, <2>1, <2>2
<1>8. SndOK'
  <2>1. \A x \in Streams : StreamOK(snd[x])'
    BY <1>3
  <2>. QED BY <1>2, <1>3, <1>6, <1>7 DEF SndOK, StreamOK, InPlace, End
<1>. QED BY <1>2, <1>5, <1>8

(* send() adds an item behind all others, and nothing else.                *)
LEMMA SendKeeps ==
  ASSUME Base, NEW s \in Streams, NEW size \in Sizes, send(s, size)
  PROVE  Grows /\ Base'
<1>. DEFINE st == snd[s]
            new == [st EXCEPT !.data_queue = Append(@, [offset |-> st.queue_offset, size |-> size]),
                              !.queue_offset = @ + size]
<1>1. LogOK /\ SndOK /\ ControlOK
  BY DEF Base
<1>2. /\ log' = log /\ sent_packets' = sent_packets /\ lost_packets' = lost_packets
      /\ rcv' = rcv /\ handed' = handed /\ arrived' = arrived /\ ack_ranges' = ack_ranges
      /\ net' = net /\ flushed' = flushed
      /\ st.queue_offset + size <= MaxBytes
  BY DEF send, receiver
<1>3. StreamOK(st) /\ size \in Nat \ {0}
  BY <1>1, SizesAssumption DEF SndOK
<1>4. snd' = [snd EXCEPT ![s] = new]
  <2>1. snd' = [snd EXCEPT
          ![s].data_queue = Append(@, [offset |-> st.queue_offset, size |-> size]),
          ![s].queue_offset = @ + size]
    BY DEF send
  <2>2. DOMAIN snd = Streams
    BY <1>1 DEF SndOK
  <2>3. st \in SendStream
    BY <1>3 DEF StreamOK
  <2>. QED BY <2>1, <2>2, <2>3, Zenon DEF SendStream
<1>5. StreamOK(new)
  <2>. HIDE DEF st
  <2>. QED BY <1>2, <1>3, Queued
<1>6. snd[s].sent_offset <= new.sent_offset
  BY <1>1, <1>3, Facts DEF StreamOK, SendStream
<1>. HIDE DEF new
<1>7. SndOK' /\ \A x \in Streams : snd'[x].sent_offset \in Nat /\ snd[x].sent_offset <= snd'[x].sent_offset
  BY <1>1, <1>2, <1>4, <1>5, <1>6, OneStream
<1>8. Grows
  BY <1>1, <1>2, <1>7, Growing
<1>9. LogOK'
  <2>1. sent_packets \cap lost_packets = {}
    BY <1>1 DEF LogOK
  <2>. QED BY <1>1, <1>2, <1>7, <2>1, LogStays
<1>10. ControlOK'
  <2>1. send_queue' \in Seq(Streams)
    <3>1. send_queue \in Seq(Streams) /\ (send_queue' = send_queue \/ send_queue' = Append(send_queue, s))
      BY <1>1 DEF send, ControlOK
    <3>. QED BY <3>1, AppendProperties
  <2>2. /\ bytes_in_flight' = bytes_in_flight /\ congestion_window' = congestion_window
        /\ largest_acked' = largest_acked /\ tlp_interval' = tlp_interval /\ up' = up
        /\ ack_timer_active' = ack_timer_active /\ flushes' = flushes /\ skips' = skips
        /\ lost' = lost /\ is_pacing_timer_active' = TRUE
        /\ tlp' \in {tlp, tlp_interval}
    BY DEF send, receiver, congestion
  <2>. QED BY <1>1, <2>1, <2>2 DEF ControlOK
<1>. QED BY <1>2, <1>8, <1>9, <1>7, <1>10, SenderSteps

(* Requests and answers about a stream, as they will hold.                 *)
LEMMA Requests ==
  ASSUME NEW s \in Streams, NEW o \in Offset
  PROVE  /\ o <= snd'[s].sent_offset => MessageOK(FLUSHSTREAM(s, o))' /\ MessageOK(SKIPSTREAM(s, o))'
         /\ MessageOK(FLUSHCONF(s))'
<1>1. FLUSHSTREAM(s, o) \in Message /\ SKIPSTREAM(s, o) \in Message /\ FLUSHCONF(s) \in Message
  BY DEF Message, FLUSHSTREAM, SKIPSTREAM, FLUSHCONF
<1>2. /\ FLUSHSTREAM(s, o).type = "FLUSHSTREAM" /\ SKIPSTREAM(s, o).type = "SKIPSTREAM"
      /\ FLUSHCONF(s).type = "FLUSHCONF"
      /\ FLUSHSTREAM(s, o).stream = s /\ SKIPSTREAM(s, o).stream = s
      /\ FLUSHSTREAM(s, o).offset = o /\ SKIPSTREAM(s, o).offset = o
  BY DEF FLUSHSTREAM, SKIPSTREAM, FLUSHCONF
<1>3. ASSUME o <= snd'[s].sent_offset PROVE MessageOK(FLUSHSTREAM(s, o))'
  BY <1>1, <1>2, <1>3 DEF MessageOK
<1>4. ASSUME o <= snd'[s].sent_offset PROVE MessageOK(SKIPSTREAM(s, o))'
  BY <1>1, <1>2, <1>4 DEF MessageOK
<1>5. MessageOK(FLUSHCONF(s))'
  BY <1>1, <1>2 DEF MessageOK
<1>. QED BY <1>3, <1>4, <1>5

(* tlp_timer_cb.                                                           *)
LEMMA ProbeKeeps ==
  ASSUME Base, tlp_timer_cb
  PROVE  Grows /\ Base'
<1>1. LogOK /\ SndOK /\ ControlOK
  BY DEF Base
<1>2. /\ log' = log /\ snd' = snd /\ flushed' = flushed /\ net' = net
      /\ rcv' = rcv /\ handed' = handed /\ arrived' = arrived /\ ack_ranges' = ack_ranges
      /\ send_queue' = send_queue /\ flushes' = flushes /\ skips' = skips /\ lost' = lost
      /\ ack_timer_active' = ack_timer_active
  BY DEF tlp_timer_cb, receiver
<1>3. Grows
  <2>1. \A s \in Streams : snd[s].sent_offset <= snd'[s].sent_offset
    BY <1>1, <1>2, Facts
  <2>. QED BY <1>1, <1>2, <2>1, Growing
<1>4. /\ sent_packets' \subseteq sent_packets \cup lost_packets
      /\ lost_packets' \subseteq sent_packets \cup lost_packets
      /\ sent_packets' \cap lost_packets' = {}
  BY <1>1 DEF tlp_timer_cb, LogOK
<1>5. \A s \in Streams : snd'[s].sent_offset \in Nat /\ snd[s].sent_offset <= snd'[s].sent_offset
  BY <1>1, <1>2, Facts
<1>6. LogOK'
  BY <1>1, <1>2, <1>4, <1>5, LogStays
<1>7. SndOK'
  BY <1>1, <1>2 DEF SndOK
<1>8. bytes_in_flight' \in 0 .. Word - 1
  <2>1. CASE bytes_in_flight' = bytes_in_flight
    BY <1>1, <2>1 DEF ControlOK
  <2>2. CASE bytes_in_flight' = Minus(bytes_in_flight, Length(sent_packets))
    <3>1. bytes_in_flight \in Int /\ Length(sent_packets) \in Int
      BY <1>1, LengthIs, BoundsAssumption DEF ControlOK
    <3>. QED BY <2>2, <3>1, Wraps
  <2>. QED BY <2>1, <2>2 DEF tlp_timer_cb, congestion
<1>9. congestion_window' \in Cwnds
  BY <1>1 DEF tlp_timer_cb, congestion, ControlOK
<1>10. tlp' \in Nat /\ tlp_interval' \in Nat \ {0}
  <2>1. tlp \in Nat /\ tlp_interval \in Nat \ {0}
    BY <1>1 DEF ControlOK
  <2>2. \/ tlp' = 0 /\ tlp_interval' = 1
        \/ tlp_interval' = 2 * tlp_interval /\ tlp' = tlp_interval'
        \/ tlp' = tlp /\ tlp_interval' = tlp_interval
    BY DEF tlp_timer_cb
  <2>. QED BY <2>1, <2>2
<1>11. largest_acked' = largest_acked /\ is_pacing_timer_active' \in BOOLEAN /\ up' \in BOOLEAN
  BY <1>1 DEF tlp_timer_cb, congestion, GiveUp, ControlOK
<1>12. ControlOK'
  BY <1>1, <1>2, <1>8, <1>9, <1>10, <1>11 DEF ControlOK
<1>. QED BY <1>2, <1>3, <1>6, <1>7, <1>12, SenderSteps

(* flush_stream and did_recv_SKIPSTREAM's flush.                           *)
LEMMA FlushKeeps ==
  ASSUME Base, NEW s \in Streams, NEW request, Flush(s, request)
  PROVE  Grows /\ Base'
<1>. DEFINE st == snd[s]  new == Emptied(st)
<1>1. LogOK /\ SndOK /\ ControlOK
  BY DEF Base
<1>2. /\ log' = log /\ flushed' = [flushed EXCEPT ![s] = snd[s].sent_offset]
      /\ rcv' = rcv /\ handed' = handed /\ arrived' = arrived /\ ack_ranges' = ack_ranges
      /\ send_queue' = send_queue /\ skips' = skips /\ lost' = lost
      /\ ack_timer_active' = ack_timer_active
      /\ snd' = [snd EXCEPT ![s] = new]
  <2>1. snd' = [snd EXCEPT ![s] = Emptied(@)]
    BY DEF Flush
  <2>2. snd' = [snd EXCEPT ![s] = new]
    BY <2>1
  <2>. QED BY <2>2 DEF Flush, receiver
<1>3. /\ st \in SendStream /\ st.sent_offset \in Nat /\ st.sent_offset \in Offset
      /\ st.flush_timer \in Nat
  BY <1>1, Facts DEF SendStream
<1>4. StreamOK(new) /\ new.sent_offset = st.sent_offset
  <2>1. /\ new.data_queue = <<>> /\ new.queue_offset = st.sent_offset
        /\ new.acked_offset = st.sent_offset /\ new.outstanding_acks = {}
        /\ new.sent_offset = st.sent_offset
    BY <1>3 DEF Emptied, SendStream
  <2>2. new \in SendStream
    <3>1. <<>> \in Seq(Item)
      BY EmptySeq
    <3>. QED BY <1>3, <3>1 DEF Emptied, SendStream
  <2>3. Len(<<>>) = 0
    BY EmptySeq
  <2>4. InPlace(new)
    BY <2>1, <2>3 DEF InPlace
  <2>. HIDE DEF new
  <2>. QED BY <1>3, <2>1, <2>2, <2>4 DEF StreamOK
<1>. HIDE DEF new
<1>5. SndOK' /\ snd'[s] = new
      /\ \A x \in Streams : snd'[x].sent_offset \in Nat /\ snd[x].sent_offset <= snd'[x].sent_offset
  <2>1. snd[s].sent_offset <= new.sent_offset
    BY <1>3, <1>4
  <2>. QED BY <1>1, <1>2, <1>4, <2>1, OneStream
<1>6. Grows
  BY <1>1, <1>2, <1>5, Growing
<1>7. LogOK'
  <2>1. /\ sent_packets' \subseteq sent_packets \cup lost_packets
        /\ lost_packets' \subseteq sent_packets \cup lost_packets
        /\ sent_packets' \cap lost_packets' = {}
    BY <1>1 DEF Flush, LogOK
  <2>. QED BY <1>1, <1>2, <1>5, <2>1, LogStays
<1>8. ControlOK'
  <2>1. bytes_in_flight' \in 0 .. Word - 1
    <3>1. bytes_in_flight \in Int /\ Length(PacketsOf(s)) \in Int
      BY <1>1, LengthIs, BoundsAssumption DEF ControlOK
    <3>2. bytes_in_flight' = Minus(bytes_in_flight, Length(PacketsOf(s)))
      BY DEF Flush
    <3>. QED BY <3>1, <3>2, Wraps
  <2>2. flushes' \in 0 .. MaxFlushes
    BY <1>1, BoundsAssumption DEF Flush, ControlOK
  <2>3. /\ congestion_window' = congestion_window /\ largest_acked' = largest_acked
        /\ is_pacing_timer_active' = is_pacing_timer_active /\ tlp' = tlp
        /\ tlp_interval' = tlp_interval /\ up' = up
    BY DEF Flush, timers
  <2>. QED BY <1>1, <1>2, <2>1, <2>2, <2>3 DEF ControlOK
<1>9. ASSUME NEW m \in net' PROVE m \in net \/ MessageOK(m)'
  <2>0. PICK o \in Offset : o = st.sent_offset
    BY <1>3
  <2>1. net' \subseteq net \cup {FLUSHSTREAM(s, o)}
    BY <2>0 DEF Flush, Exchange
  <2>2. MessageOK(FLUSHSTREAM(s, o))'
    <3>1. o <= snd'[s].sent_offset
      BY <1>3, <1>4, <1>5, <2>0
    <3>. QED BY <3>1, Requests
  <2>. QED BY <2>1, <2>2
<1>. QED BY <1>2, <1>5, <1>6, <1>7, <1>8, <1>9, SenderSteps

(* A stream gets another flush_timer.                                      *)
LEMMA TimerOnly ==
  ASSUME SndOK, NEW s \in Streams, NEW new, NEW timer \in Nat,
         new = [snd[s] EXCEPT !.flush_timer = timer]
  PROVE  StreamOK(new) /\ new.sent_offset = snd[s].sent_offset
<1>. DEFINE st == snd[s]
<1>1. StreamOK(st) /\ st \in SendStream
  BY DEF SndOK, StreamOK
<1>2. /\ new.data_queue = st.data_queue /\ new.queue_offset = st.queue_offset
      /\ new.sent_offset = st.sent_offset /\ new.acked_offset = st.acked_offset
      /\ new.outstanding_acks = st.outstanding_acks /\ new \in SendStream
  BY <1>1 DEF SendStream
<1>. HIDE DEF st
<1>3. InPlace(new)
  BY <1>1, <1>2 DEF StreamOK, InPlace
<1>4. StreamOK(new)
  BY <1>1, <1>2, <1>3 DEF StreamOK
<1>. QED BY <1>2, <1>4 DEF st

(* A step of the sender that sends and drops no packet and leaves the      *)
(* counters alone.                                                         *)
LEMMA ControlSteps ==
  ASSUME Base, NEW s \in Streams, NEW timer \in Nat,
         snd' = snd \/ snd' = [snd EXCEPT ![s].flush_timer = timer],
         log' = log, sent_packets' = sent_packets, lost_packets' = lost_packets,
         flushed' = flushed, rcv' = rcv, handed' = handed, arrived' = arrived,
         ack_ranges' = ack_ranges, ControlOK'
  PROVE  /\ Grows /\ SndOK' /\ snd'[s].sent_offset = snd[s].sent_offset
         /\ ((\A m \in net' : m \in net \/ MessageOK(m)') => Base')
<1>. DEFINE new == [snd[s] EXCEPT !.flush_timer = timer]
<1>1. LogOK /\ SndOK
  BY DEF Base
<1>2. /\ SndOK' /\ snd'[s].sent_offset = snd[s].sent_offset
      /\ \A x \in Streams : snd'[x].sent_offset \in Nat /\ snd[x].sent_offset <= snd'[x].sent_offset
  <2>1. CASE snd' = snd
    <3>1. SndOK'
      BY <1>1, <2>1 DEF SndOK
    <3>. QED BY <1>1, <2>1, <3>1, Facts
  <2>2. CASE snd' = [snd EXCEPT ![s].flush_timer = timer]
    <3>1. DOMAIN snd = Streams
      BY <1>1 DEF SndOK
    <3>2. snd' = [snd EXCEPT ![s] = new]
      BY <2>2, <3>1
    <3>3. StreamOK(new) /\ new.sent_offset = snd[s].sent_offset
      BY <1>1, TimerOnly
    <3>4. snd[s].sent_offset <= new.sent_offset
      BY <1>1, <3>3, Facts
    <3>. HIDE DEF new
    <3>. QED BY <1>1, <3>2, <3>3, <3>4, OneStream
  <2>. QED BY <2>1, <2>2
<1>3. Grows
  BY <1>1, <1>2, Growing
<1>4. LogOK'
  <2>1. /\ sent_packets' \subseteq sent_packets \cup lost_packets
        /\ lost_packets' \subseteq sent_packets \cup lost_packets
        /\ sent_packets' \cap lost_packets' = {}
    BY <1>1 DEF LogOK
  <2>. QED BY <1>1, <1>2, <2>1, LogStays
<1>. QED BY <1>2, <1>3, <1>4, SenderSteps

(* A FLUSHSTREAM that is repeated names what was sent so far.              *)
LEMMA FlushTimerKeeps ==
  ASSUME Base, NEW s \in Streams, flush_timer_cb(s)
  PROVE  Grows /\ Base'
<1>1. LogOK /\ SndOK /\ ControlOK
  BY DEF Base
<1>2. snd[s] \in SendStream /\ snd[s].flush_timer \in Nat
  BY <1>1, Facts DEF SendStream
<1>3. PICK o \in Offset : o = snd[s].sent_offset
  BY <1>2 DEF SendStream
<1>4. PICK timer \in Nat : snd' = snd \/ snd' = [snd EXCEPT ![s].flush_timer = timer]
  <2>1. snd' = snd \/ snd' = [snd EXCEPT ![s].flush_timer = 2 * @]
    BY DEF flush_timer_cb
  <2>2. DOMAIN snd = Streams /\ 2 * snd[s].flush_timer \in Nat
    BY <1>1, <1>2 DEF SndOK
  <2>3. [snd EXCEPT ![s].flush_timer = 2 * @] = [snd EXCEPT ![s].flush_timer = 2 * snd[s].flush_timer]
    OBVIOUS
  <2>. QED BY <2>1, <2>2, <2>3
<1>5. /\ log' = log /\ sent_packets' = sent_packets /\ lost_packets' = lost_packets
      /\ flushed' = flushed /\ rcv' = rcv /\ handed' = handed /\ arrived' = arrived
      /\ ack_ranges' = ack_ranges
  BY DEF flush_timer_cb, receiver
<1>6. ControlOK'
  <2>1. /\ bytes_in_flight' = bytes_in_flight /\ congestion_window' = congestion_window
        /\ largest_acked' = largest_acked /\ send_queue' = send_queue
        /\ is_pacing_timer_active' = is_pacing_timer_active /\ tlp' = tlp
        /\ tlp_interval' = tlp_interval /\ ack_timer_active' = ack_timer_active
        /\ flushes' = flushes /\ skips' = skips /\ lost' = lost
    BY DEF flush_timer_cb, congestion, timers, receiver
  <2>2. up' \in BOOLEAN
    BY <1>1 DEF flush_timer_cb, GiveUp, ControlOK
  <2>. QED BY <1>1, <2>1, <2>2 DEF ControlOK
<1>7. /\ Grows /\ snd'[s].sent_offset = o
      /\ ((\A m \in net' : m \in net \/ MessageOK(m)') => Base')
  BY <1>3, <1>4, <1>5, <1>6, ControlSteps
<1>8. ASSUME NEW m \in net' PROVE m \in net \/ MessageOK(m)'
  <2>1. net' \subseteq net \cup {FLUSHSTREAM(s, o)}
    BY <1>3 DEF flush_timer_cb
  <2>2. o <= snd'[s].sent_offset
    BY <1>7, BoundsAssumption DEF Offset
  <2>3. MessageOK(FLUSHSTREAM(s, o))'
    BY <2>2, Requests
  <2>. QED BY <2>1, <2>3
<1>. QED BY <1>7, <1>8

(* A FLUSHCONF stops a timer.                                              *)
LEMMA FlushConfirmedKeeps ==
  ASSUME Base, NEW m \in net, did_recv_FLUSHCONF(m)
  PROVE  Grows /\ Base'
<1>1. m \in Message /\ m.type = "FLUSHCONF" /\ LogOK /\ SndOK /\ ControlOK
  BY DEF Base, NetOK, MessageOK, did_recv_FLUSHCONF
<1>2. m.stream \in Streams
  BY <1>1 DEF Message
<1>3. snd' = [snd EXCEPT ![m.stream].flush_timer = 0] /\ net' \subseteq net
  BY DEF did_recv_FLUSHCONF, Reply, Exchange
<1>4. /\ log' = log /\ sent_packets' = sent_packets /\ lost_packets' = lost_packets
      /\ flushed' = flushed /\ rcv' = rcv /\ handed' = handed /\ arrived' = arrived
      /\ ack_ranges' = ack_ranges
  BY DEF did_recv_FLUSHCONF, receiver
<1>5. ControlOK'
  <2>1. /\ bytes_in_flight' = bytes_in_flight /\ congestion_window' = congestion_window
        /\ largest_acked' = largest_acked /\ send_queue' = send_queue
        /\ is_pacing_timer_active' = is_pacing_timer_active /\ tlp' = tlp
        /\ tlp_interval' = tlp_interval /\ ack_timer_active' = ack_timer_active
        /\ flushes' = flushes /\ skips' = skips /\ lost' = lost /\ up' = up
    BY DEF did_recv_FLUSHCONF, congestion, timers, receiver
  <2>. QED BY <1>1, <2>1 DEF ControlOK
<1>6. 0 \in Nat
  OBVIOUS
<1>7. Grows /\ ((\A x \in net' : x \in net \/ MessageOK(x)') => Base')
  BY <1>2, <1>3, <1>4, <1>5, <1>6, ControlSteps
<1>8. \A x \in net' : x \in net \/ MessageOK(x)'
  BY <1>3
<1>. QED BY <1>7, <1>8

(* did_recv_SKIPSTREAM for what was acked already: only an answer.         *)
LEMMA SkippedKeeps ==
  ASSUME Base, NEW m \in net, did_recv_SKIPSTREAM(m)
  PROVE  Grows /\ Base'
<1>1. m \in Message /\ m.type = "SKIPSTREAM" /\ LogOK /\ SndOK /\ ControlOK
  BY DEF Base, NetOK, MessageOK, did_recv_SKIPSTREAM
<1>2. m.stream \in Streams
  BY <1>1 DEF Message
<1>3. CASE Flush(m.stream, {m})
  BY <1>2, <1>3, FlushKeeps
<1>4. CASE Reply(m, {FLUSHSTREAM(m.stream, snd[m.stream].acked_offset)}) /\ UNCHANGED <<sender, receiver, up, lost>>
  <2>1. snd[m.stream] \in SendStream /\ snd[m.stream].acked_offset <= snd[m.stream].sent_offset
    BY <1>1, <1>2 DEF SndOK, StreamOK
  <2>2. PICK o \in Offset : o = snd[m.stream].acked_offset
    BY <2>1 DEF SendStream
  <2>3. /\ snd' = snd /\ log' = log /\ sent_packets' = sent_packets /\ lost_packets' = lost_packets
        /\ flushed' = flushed /\ rcv' = rcv /\ handed' = handed /\ arrived' = arrived
        /\ ack_ranges' = ack_ranges
    BY <1>4 DEF sender, receiver
  <2>4. ControlOK'
    BY <1>1, <1>4 DEF sender, receiver, congestion, timers, ControlOK
  <2>5. Grows /\ ((\A x \in net' : x \in net \/ MessageOK(x)') => Base')
    <3>1. 0 \in Nat
      OBVIOUS
    <3>. QED BY <1>2, <2>3, <2>4, <3>1, ControlSteps
  <2>6. net' \subseteq net \cup {FLUSHSTREAM(m.stream, o)}
    BY <1>4, <2>2 DEF Reply, Exchange
  <2>7. MessageOK(FLUSHSTREAM(m.stream, o))'
    <3>1. o <= snd'[m.stream].sent_offset
      BY <2>1, <2>2, <2>3
    <3>. QED BY <1>2, <3>1, Requests
  <2>8. \A x \in net' : x \in net \/ MessageOK(x)'
    BY <2>6, <2>7
  <2>. QED BY <2>5, <2>8
<1>. QED BY <1>3, <1>4 DEF did_recv_SKIPSTREAM

(* A message goes astray.                                                  *)
LEMMA LoseKeeps ==
  ASSUME Base, NEW m \in net, Lose(m)
  PROVE  Grows /\ Base'
<1>1. LogOK /\ SndOK /\ ControlOK /\ RcvOK /\ AckOK
  BY DEF Base
<1>2. /\ net' \subseteq net /\ snd' = snd /\ log' = log /\ sent_packets' = sent_packets
      /\ lost_packets' = lost_packets /\ flushed' = flushed /\ rcv' = rcv /\ handed' = handed
      /\ arrived' = arrived /\ ack_ranges' = ack_ranges
  BY DEF Lose, sender, receiver
<1>3. ControlOK'
  <2>1. lost' \in 0 .. MaxLosses
    BY <1>1, BoundsAssumption DEF Lose, ControlOK
  <2>2. /\ bytes_in_flight' = bytes_in_flight /\ congestion_window' = congestion_window
        /\ largest_acked' = largest_acked /\ send_queue' = send_queue
        /\ is_pacing_timer_active' = is_pacing_timer_active /\ tlp' = tlp
        /\ tlp_interval' = tlp_interval /\ ack_timer_active' = ack_timer_active
        /\ flushes' = flushes /\ skips' = skips /\ up' = up
    BY DEF Lose, sender, receiver, congestion, timers
  <2>. QED BY <1>1, <2>1, <2>2 DEF ControlOK
<1>4. SndOK'
  BY <1>1, <1>2 DEF SndOK
<1>5. LogOK'
  BY <1>1, <1>2 DEF LogOK, End
<1>6. Grows
  <2>1. \A s \in Streams : snd[s].sent_offset <= snd'[s].sent_offset
    BY <1>1, <1>2, Facts
  <2>. QED BY <1>1, <1>2, <2>1, Growing
<1>7. \A x \in net' : x \in net \/ MessageOK(x)'
  BY <1>2
<1>. QED BY <1>2, <1>3, <1>4, <1>5, <1>6, <1>7, SenderSteps

-----------------------------------------------------------------------------
(* The receiver's steps                                                    *)

(* There are finitely many ranges of bytes.                                *)
LEMMA RangesSpan ==
  ASSUME NEW ranges, ranges \subseteq Ranges
  PROVE  Spans(ranges)
<1>. DEFINE A == Offset \X (1 .. Fragment)
            h == [x \in A |-> [offset |-> x[1], length |-> x[2]]]
<1>1. IsFiniteSet(A)
  <2>1. MaxBytes \in Nat /\ Fragment \in Nat
    BY BoundsAssumption, SizesAssumption
  <2>2. IsFiniteSet(0 .. MaxBytes) /\ IsFiniteSet(1 .. Fragment)
    BY <2>1, FS_Interval
  <2>. QED BY <2>2, FS_Product DEF Offset
<1>2. h \in Surjection(A, Ranges)
  <2>1. h \in [A -> Ranges]
    BY DEF Ranges
  <2>2. ASSUME NEW r \in Ranges PROVE \E x \in A : h[x] = r
    <3>1. <<r.offset, r.length>> \in A
      BY DEF Ranges
    <3>2. h[<<r.offset, r.length>>] = r
      BY <3>1 DEF Ranges
    <3>. QED BY <3>1, <3>2
  <2>. HIDE DEF h, A
  <2>. QED BY <2>1, <2>2 DEF Surjection
<1>3. IsFiniteSet(Ranges)
  <2>. HIDE DEF h, A
  <2>. QED BY <1>1, <1>2, FS_Surjection
<1>4. IsFiniteSet(ranges)
  <2>1. ranges \in SUBSET Ranges
    OBVIOUS
  <2>. QED BY <1>3, <2>1, FS_Subset
<1>5. \A k \in ranges : k.offset \in Nat /\ k.length \in Nat \ {0}
  BY BoundsAssumption, SizesAssumption DEF Ranges, Offset
<1>. QED BY <1>4, <1>5 DEF Spans

(* What the receiver keeps was sent.                                       *)
LEMMA KeptWasSent ==
  ASSUME LogOK, SndOK, RcvOK, NEW s \in Streams
  PROVE  /\ rcv[s] \in RecvStream /\ rcv[s].read_offset \in Nat
         /\ \A r \in rcv[s].recv_packets :
              /\ r \in Ranges /\ r.offset \in Nat /\ r.length \in Nat \ {0}
              /\ End(r) \in Nat /\ End(r) <= snd[s].sent_offset
              /\ \E i \in 1 .. Len(log) : log[i].stream = s /\ RangeOf(log[i]) = r
<1>1. rcv[s] \in RecvStream /\ rcv[s].read_offset \in Nat
  BY BoundsAssumption DEF RcvOK, RecvStream, Offset
<1>2. ASSUME NEW r \in rcv[s].recv_packets
      PROVE  /\ r \in Ranges /\ r.offset \in Nat /\ r.length \in Nat \ {0}
             /\ End(r) \in Nat /\ End(r) <= snd[s].sent_offset
             /\ \E i \in 1 .. Len(log) : log[i].stream = s /\ RangeOf(log[i]) = r
  <2>1. r \in Ranges
    BY <1>1 DEF RecvStream
  <2>2. PICK pn \in arrived : Packet(pn).stream = s /\ RangeOf(Packet(pn)) = r
    BY DEF RcvOK
  <2>3. pn \in 0 .. Len(log) - 1 /\ Len(log) \in Nat
    BY Facts DEF RcvOK
  <2>4. pn + 1 \in 1 .. Len(log) /\ Packet(pn) = log[pn + 1]
    BY <2>3 DEF Packet
  <2>5. End(log[pn + 1]) <= snd[s].sent_offset
    BY <2>2, <2>4 DEF LogOK
  <2>6. End(r) = End(log[pn + 1])
    BY <2>2, <2>4 DEF RangeOf, End
  <2>7. r.offset \in Nat /\ r.length \in Nat \ {0} /\ End(r) \in Nat
    BY <2>1, BoundsAssumption, SizesAssumption DEF Ranges, Offset, End
  <2>. QED BY <2>1, <2>2, <2>4, <2>5, <2>6, <2>7
<1>. QED BY <1>1, <1>2

(* A stream of the receiver changes: nothing it had is forgotten, and what *)
(* is new arrived with the packets taken.                                  *)
LEMMA RcvSteps ==
  ASSUME LogOK, SndOK, RcvOK, NEW s \in Streams, NEW new \in RecvStream,
         NEW taken, taken \subseteq 0 .. Len(log) - 1,
         \A pn \in taken : Packet(pn).stream = s,
         new.read_offset <= snd[s].sent_offset,
         \A r \in new.recv_packets : r \in rcv[s].recv_packets \/ \E pn \in taken : r = RangeOf(Packet(pn)),
         \A byte \in Nat : Received(s, byte) \/ (\E pn \in taken : Covers(Packet(pn), byte)) =>
            byte < new.read_offset \/ \E r \in new.recv_packets : Covers(r, byte),
         rcv' = [rcv EXCEPT ![s] = new], arrived' = arrived \cup taken,
         handed' \in [Streams -> SUBSET Offset], log' = log, snd' = snd
  PROVE  RcvOK' /\ arrived \subseteq arrived'
<1>1. rcv \in [Streams -> RecvStream] /\ arrived \subseteq 0 .. Len(log) - 1
  BY DEF RcvOK
<1>2. /\ rcv' \in [Streams -> RecvStream] /\ rcv'[s] = new
      /\ \A x \in Streams \ {s} : rcv'[x] = rcv[x]
  BY <1>1
<1>3. ASSUME NEW x \in Streams PROVE rcv'[x].read_offset <= snd[x].sent_offset
  BY <1>2 DEF RcvOK
<1>4. ASSUME NEW x \in Streams, NEW r \in rcv'[x].recv_packets
      PROVE  \E pn \in arrived' : Packet(pn).stream = x /\ RangeOf(Packet(pn)) = r
  <2>1. CASE r \in rcv[x].recv_packets
    BY <2>1 DEF RcvOK
  <2>2. CASE x = s /\ \E pn \in taken : r = RangeOf(Packet(pn))
    BY <2>2
  <2>. QED BY <1>2, <2>1, <2>2
<1>5. ASSUME NEW x \in Streams, NEW byte \in Nat, Received(x, byte) \/ (x = s /\ \E pn \in taken : Covers(Packet(pn), byte))
      PROVE  Received(x, byte)'
  <2>1. CASE x = s
    <3>1. byte < new.read_offset \/ \E r \in new.recv_packets : Covers(r, byte)
      BY <1>5, <2>1
    <3>2. rcv'[x] = new /\ \A r : Covers(r, byte)' <=> Covers(r, byte)
      BY <1>2, <2>1 DEF Covers, End
    <3>. QED BY <3>1, <3>2 DEF Received
  <2>2. CASE x # s
    <3>1. rcv'[x] = rcv[x]
      BY <1>2, <2>2
    <3>. QED BY <1>5, <2>2, <3>1 DEF Received, Covers, End
  <2>. QED BY <2>1, <2>2
<1>6. ASSUME NEW pn \in arrived', NEW byte \in Nat, Covers(Packet(pn), byte)
      PROVE  Received(Packet(pn).stream, byte)'
  <2>1. Packet(pn).stream \in Streams
    <3>1. pn \in 0 .. Len(log) - 1 /\ Len(log) \in Nat
      BY <1>1, Facts
    <3>2. pn + 1 \in 1 .. Len(log)
      BY <3>1
    <3>. QED BY <3>2, Facts DEF Packet
  <2>2. PICK x \in Streams : x = Packet(pn).stream
    BY <2>1
  <2>3. CASE pn \in arrived
    <3>1. Received(x, byte)
      BY <1>6, <2>2, <2>3 DEF RcvOK
    <3>2. Received(x, byte)'
      BY <1>5, <3>1
    <3>. QED BY <2>2, <3>2 DEF Received, Packet
  <2>4. CASE pn \in taken
    <3>1. x = s
      BY <2>2, <2>4
    <3>2. Received(x, byte)'
      BY <1>5, <1>6, <2>4, <3>1
    <3>. QED BY <2>2, <3>2 DEF Received, Packet
  <2>. QED BY <2>3, <2>4
<1>7. \A pn : Packet(pn)' = Packet(pn)
  BY DEF Packet
<1>8. \A pn : \A byte : Covers(Packet(pn), byte)' <=> Covers(Packet(pn), byte)
  BY <1>7 DEF Covers, End
<1>9. \A pn : RangeOf(Packet(pn))' = RangeOf(Packet(pn))
  BY <1>7 DEF RangeOf
<1>10. \A pn \in arrived' : \A byte \in Nat : (Covers(Packet(pn), byte) => Received(Packet(pn).stream, byte))'
  BY <1>6, <1>8
<1>. QED BY <1>1, <1>2, <1>3, <1>4, <1>7, <1>9, <1>10 DEF RcvOK

(* Accept: read_offset moves to the end of something held, and no byte     *)
(* that was there is lost.                                                 *)
LEMMA AcceptIs ==
  ASSUME NEW st \in RecvStream, NEW pkt \in Packets, NEW top \in Offset,
         st.read_offset <= top, End(pkt) <= top,
         \A r \in st.recv_packets : End(r) <= top,
         \A r \in st.recv_packets : r.offset = pkt.offset => r = RangeOf(pkt)
  PROVE  /\ Accept(st, pkt) \in RecvStream
         /\ st.read_offset <= Accept(st, pkt).read_offset /\ Accept(st, pkt).read_offset <= top
         /\ Accept(st, pkt).recv_packets \subseteq st.recv_packets \cup {RangeOf(pkt)}
         /\ \A byte \in Nat :
              byte < st.read_offset \/ (\E r \in st.recv_packets : Covers(r, byte)) \/ Covers(pkt, byte) =>
                byte < Accept(st, pkt).read_offset
                  \/ \E r \in Accept(st, pkt).recv_packets : Covers(r, byte)
<1>. DEFINE all == st.recv_packets \cup {RangeOf(pkt)}
            read == Extend(st.read_offset, all)
            known == \E k \in st.recv_packets : k.offset = pkt.offset
            OK(new) == /\ new \in RecvStream
                       /\ st.read_offset <= new.read_offset /\ new.read_offset <= top
                       /\ new.recv_packets \subseteq all
                       /\ \A byte \in Nat :
                            byte < st.read_offset \/ (\E r \in st.recv_packets : Covers(r, byte)) \/ Covers(pkt, byte) =>
                              byte < new.read_offset \/ \E r \in new.recv_packets : Covers(r, byte)
<1>1. /\ st.read_offset \in 0 .. MaxBytes /\ MaxBytes \in Nat /\ top \in 0 .. MaxBytes
      /\ st.recv_packets \subseteq Ranges
      /\ pkt.offset \in Nat /\ pkt.length \in Nat \ {0} /\ End(pkt) \in Nat
  BY BoundsAssumption, SizesAssumption DEF RecvStream, Packets, Offset, End
<1>2. RangeOf(pkt) \in Ranges /\ RangeOf(pkt).offset = pkt.offset /\ RangeOf(pkt).length = pkt.length
  BY DEF RangeOf, Packets, Ranges
<1>3. End(RangeOf(pkt)) = End(pkt) /\ \A byte : Covers(RangeOf(pkt), byte) <=> Covers(pkt, byte)
  BY <1>2 DEF End, Covers
<1>4. all \subseteq Ranges /\ \A r \in all : End(r) <= top
  BY <1>1, <1>2, <1>3
<1>5. \A r \in all : r.offset \in Nat /\ End(r) \in Nat
  BY <1>4, BoundsAssumption, SizesAssumption DEF Ranges, Offset, End
<1>6. Accept(st, pkt) =
        CASE End(pkt) <= st.read_offset -> st
          [] pkt.offset <= st.read_offset /\ End(pkt) > st.read_offset ->
               [st EXCEPT !.read_offset = read, !.recv_packets = Beyond(read, all)]
          [] OTHER -> [st EXCEPT !.recv_packets = IF known THEN @ ELSE all]
  BY DEF Accept
<1>7. /\ read \in Nat /\ read >= st.read_offset
      /\ read = st.read_offset \/ \E k \in all : read = End(k)
      /\ \A k \in all : k.offset <= read => End(k) <= read
  <2>1. Spans(all)
    <3>. HIDE DEF all
    <3>. QED BY <1>4, RangesSpan
  <2>2. st.read_offset \in Nat
    BY <1>1
  <2>. HIDE DEF all
  <2>. QED BY <2>1, <2>2, ExtendIs
<1>8. read <= top /\ read \in Offset
  <2>1. read <= top
    <3>. HIDE DEF all, read
    <3>. QED BY <1>4, <1>7
  <2>. HIDE DEF read
  <2>. QED BY <1>1, <1>7, <2>1 DEF Offset
<1>9. ASSUME NEW byte \in Nat, NEW r \in all, Covers(r, byte)
      PROVE  byte < read \/ r \in Beyond(read, all)
  <2>1. r.offset <= byte /\ byte < End(r) /\ r.offset \in Nat /\ End(r) \in Nat
    BY <1>5, <1>9 DEF Covers
  <2>2. CASE r.offset <= read
    <3>1. End(r) <= read
      BY <1>7, <2>2
    <3>. HIDE DEF read, all
    <3>. QED BY <1>7, <2>1, <3>1
  <2>3. CASE ~(r.offset <= read)
    <3>. HIDE DEF read, all
    <3>. QED BY <1>7, <2>1, <2>3 DEF Beyond
  <2>. QED BY <2>2, <2>3
<1>10. ASSUME NEW byte \in Nat, (\E r \in st.recv_packets : Covers(r, byte)) \/ Covers(pkt, byte)
       PROVE  \E r \in all : Covers(r, byte)
  BY <1>3, <1>10
<1>. HIDE DEF read
<1>11. CASE End(pkt) <= st.read_offset
  <2>1. Accept(st, pkt) = st
    <3>1. ~(End(pkt) > st.read_offset)
      BY <1>1, <1>11
    <3>. HIDE DEF all, known
    <3>. QED BY <1>6, <1>11, <3>1
  <2>2. OK(st)
    <3>1. ASSUME NEW byte \in Nat, Covers(pkt, byte) PROVE byte < st.read_offset
      BY <1>1, <1>11, <3>1 DEF Covers
    <3>. QED BY <1>1, <3>1
  <2>. QED BY <2>1, <2>2
<1>12. CASE ~(End(pkt) <= st.read_offset) /\ pkt.offset <= st.read_offset
  <2>. DEFINE new == [st EXCEPT !.read_offset = read, !.recv_packets = Beyond(read, all)]
  <2>1. Accept(st, pkt) = new
    <3>1. End(pkt) > st.read_offset
      BY <1>1, <1>12
    <3>. QED BY <1>6, <1>12, <3>1
  <2>2. Beyond(read, all) \subseteq all
    BY DEF Beyond
  <2>3. new.read_offset = read /\ new.recv_packets = Beyond(read, all)
    BY DEF RecvStream
  <2>4. new \in RecvStream
    <3>1. Beyond(read, all) \in SUBSET Ranges
      <4>. HIDE DEF all
      <4>. QED BY <1>4, <2>2
    <3>. HIDE DEF all
    <3>. QED BY <1>8, <3>1 DEF RecvStream
  <2>5. ASSUME NEW byte \in Nat,
               byte < st.read_offset \/ (\E r \in st.recv_packets : Covers(r, byte)) \/ Covers(pkt, byte)
        PROVE  byte < read \/ \E r \in Beyond(read, all) : Covers(r, byte)
    <3>1. CASE byte < st.read_offset
      BY <1>1, <1>7, <3>1
    <3>2. CASE (\E r \in st.recv_packets : Covers(r, byte)) \/ Covers(pkt, byte)
      <4>1. PICK r \in all : Covers(r, byte)
        BY <1>10, <3>2
      <4>2. byte < read \/ r \in Beyond(read, all)
        BY <1>9, <4>1
      <4>. QED BY <4>1, <4>2
    <3>. QED BY <2>5, <3>1, <3>2
  <2>. HIDE DEF new, all
  <2>6. OK(new)
    BY <1>7, <1>8, <2>2, <2>3, <2>4, <2>5
  <2>. QED BY <2>1, <2>6 DEF all
<1>13. CASE ~(End(pkt) <= st.read_offset) /\ ~(pkt.offset <= st.read_offset)
  <2>. DEFINE packets == IF known THEN st.recv_packets ELSE all
              new == [st EXCEPT !.recv_packets = packets]
  <2>1. Accept(st, pkt) = new
    <3>1. Accept(st, pkt) = [st EXCEPT !.recv_packets = IF known THEN @ ELSE all]
      <4>. HIDE DEF known, all
      <4>. QED BY <1>6, <1>13
    <3>. HIDE DEF known, all
    <3>. QED BY <3>1
  <2>2. packets = all
    <3>1. CASE known
      <4>1. RangeOf(pkt) \in st.recv_packets
        BY <3>1
      <4>. QED BY <3>1, <4>1
    <3>. QED BY <3>1
  <2>3. new.read_offset = st.read_offset /\ new.recv_packets = all
    <3>. HIDE DEF packets
    <3>. QED BY <2>2 DEF RecvStream
  <2>4. new \in RecvStream
    <3>. HIDE DEF packets, all
    <3>. QED BY <1>4, <2>2 DEF RecvStream
  <2>5. ASSUME NEW byte \in Nat,
               byte < st.read_offset \/ (\E r \in st.recv_packets : Covers(r, byte)) \/ Covers(pkt, byte)
        PROVE  byte < st.read_offset \/ \E r \in all : Covers(r, byte)
    BY <1>10, <2>5
  <2>. HIDE DEF new, all, packets
  <2>6. OK(new)
    BY <1>1, <2>3, <2>4, <2>5
  <2>. QED BY <2>1, <2>6 DEF all
<1>. QED BY <1>11, <1>12, <1>13

(* The acks after a packet that was taken.                                 *)
LEMMA AckSteps ==
  ASSUME AckOK, NEW pn \in PacketNumber,
         ack_ranges' = add_packet_number(ack_ranges, pn), arrived' = arrived \cup {pn}
  PROVE  AckOK'
<1>. DEFINE ar == ack_ranges  new == add_packet_number(ar, pn)
<1>1. /\ WellFormed(ar) /\ ar.largest \in 0 .. MaxPackets - 1 /\ pn \in 0 .. MaxPackets - 1
      /\ Seen(ar) \subseteq arrived /\ (MaxRanges > MaxPackets => Seen(ar) = arrived)
      /\ MaxPackets \in Nat /\ MaxRanges \in Nat /\ pn \in Nat
  BY BoundsAssumption, RangesAssumption DEF AckOK, AckRangesExact, PacketNumber
<1>2. Marked(ar, new, pn)
  <2>. HIDE DEF ar
  <2>. QED BY <1>1, AddedExactly
<1>. HIDE DEF new
<1>3. /\ WellFormed(new) /\ new.largest \in {ar.largest, pn}
      /\ Seen(new) \subseteq Seen(ar) \cup {pn}
      /\ (new.largest < MaxRanges => Seen(new) = Seen(ar) \cup {pn})
  BY <1>2 DEF Marked
<1>4. new.largest \in 0 .. MaxPackets - 1
  BY <1>1, <1>3
<1>5. MaxRanges > MaxPackets => Seen(new) = arrived \cup {pn}
  BY <1>1, <1>3, <1>4
<1>6. Seen(new) \subseteq arrived \cup {pn}
  BY <1>1, <1>3
<1>7. ack_ranges' = new
  BY DEF new
<1>8. /\ WellFormed(ack_ranges') /\ ack_ranges'.largest \in PacketNumber
      /\ Seen(ack_ranges') \subseteq arrived'
      /\ (MaxRanges > MaxPackets => Seen(ack_ranges') = arrived')
  BY <1>3, <1>4, <1>5, <1>6, <1>7 DEF PacketNumber
<1>. QED BY <1>8 DEF AckOK, AckRangesExact

(* The packet a DATA message brings.                                       *)
LEMMA BroughtIs ==
  ASSUME LogOK, SndOK, RcvOK, NEW m, MessageOK(m), m.type = "DATA"
  PROVE  /\ m.packet_number \in 0 .. Len(log) - 1 /\ m.packet_number \in PacketNumber
         /\ Packet(m.packet_number) \in Packets /\ Packet(m.packet_number).stream \in Streams
         /\ End(Packet(m.packet_number)) <= snd[Packet(m.packet_number).stream].sent_offset
         /\ \A r \in rcv[Packet(m.packet_number).stream].recv_packets :
              r.offset = Packet(m.packet_number).offset => r = RangeOf(Packet(m.packet_number))
<1>. DEFINE pn == m.packet_number  pkt == Packet(pn)
<1>1. m \in Message /\ pn < Len(log)
  BY DEF MessageOK
<1>2. pn \in PacketNumber
  BY <1>1 DEF Message
<1>3. pn \in 0 .. Len(log) - 1 /\ pn + 1 \in 1 .. Len(log)
  BY SMTT(30), <1>1, <1>2, Facts, BoundsAssumption DEF PacketNumber
<1>4. pkt = log[pn + 1] /\ pkt \in Packets /\ pkt.stream \in Streams
  BY <1>3, Facts DEF Packet
<1>5. End(pkt) <= snd[pkt.stream].sent_offset
  BY <1>3, <1>4 DEF LogOK
<1>6. ASSUME NEW r \in rcv[pkt.stream].recv_packets, r.offset = pkt.offset
      PROVE  r = RangeOf(pkt)
  <2>1. PICK i \in 1 .. Len(log) : log[i].stream = pkt.stream /\ RangeOf(log[i]) = r
    <3>. HIDE DEF pkt
    <3>. QED BY <1>4, KeptWasSent
  <2>2. log[i].offset = pkt.offset
    BY <1>6, <2>1 DEF RangeOf
  <2>3. log[i] = pkt
    <3>. HIDE DEF pkt
    <3>. QED BY <1>3, <1>4, <2>1, <2>2 DEF LogOK
  <2>. QED BY <2>1, <2>3
<1>. QED BY <1>2, <1>3, <1>4, <1>5, <1>6

(* DATA is taken into the ack ranges and into its stream, or neither.      *)
LEMMA DataKeeps ==
  ASSUME Base, NEW m \in net, did_recv_DATA(m)
  PROVE  Grows /\ Base'
<1>. DEFINE pn == m.packet_number  pkt == Packet(pn)
<1>1. LogOK /\ SndOK /\ ControlOK /\ RcvOK /\ AckOK /\ MessageOK(m)
  BY DEF Base, NetOK
<1>2. m.type = "DATA"
  BY DEF did_recv_DATA
<1>3. /\ pn \in 0 .. Len(log) - 1 /\ pn \in PacketNumber /\ pkt \in Packets /\ pkt.stream \in Streams
      /\ End(pkt) <= snd[pkt.stream].sent_offset
      /\ \A r \in rcv[pkt.stream].recv_packets : r.offset = pkt.offset => r = RangeOf(pkt)
  BY <1>1, <1>2, BroughtIs
<1>4. /\ log' = log /\ sent_packets' = sent_packets /\ lost_packets' = lost_packets
      /\ snd' = snd /\ flushed' = flushed /\ net' \subseteq net
  BY DEF did_recv_DATA, sender, Reply, Exchange
<1>5. ControlOK'
  <2>1. /\ bytes_in_flight' = bytes_in_flight /\ congestion_window' = congestion_window
        /\ largest_acked' = largest_acked /\ send_queue' = send_queue
        /\ is_pacing_timer_active' = is_pacing_timer_active /\ tlp' = tlp
        /\ tlp_interval' = tlp_interval /\ flushes' = flushes /\ skips' = skips
        /\ lost' = lost /\ up' = up
    BY DEF did_recv_DATA, sender, receiver, congestion, timers
  <2>2. ack_timer_active' \in BOOLEAN
    BY <1>1 DEF did_recv_DATA, receiver, ControlOK
  <2>. QED BY <1>1, <2>1, <2>2 DEF ControlOK
<1>6. \A x \in net' : x \in net \/ MessageOK(x)'
  BY <1>4
<1>7. CASE UNCHANGED receiver
  <2>1. /\ rcv' = rcv /\ handed' = handed /\ arrived' = arrived /\ ack_ranges' = ack_ranges
    BY <1>7 DEF receiver
  <2>2. Grows /\ SndOK' /\ LogOK'
    <3>1. \A s \in Streams : snd[s].sent_offset <= snd'[s].sent_offset
      BY <1>1, <1>4, Facts
    <3>2. Grows
      BY <1>1, <1>4, <2>1, <3>1, Growing
    <3>3. SndOK'
      BY <1>1, <1>4 DEF SndOK
    <3>4. LogOK'
      BY <1>1, <1>4 DEF LogOK, End
    <3>. QED BY <3>2, <3>3, <3>4
  <2>. QED BY <1>5, <1>6, <2>1, <2>2, SenderSteps
<1>8. CASE /\ ack_ranges' = add_packet_number(ack_ranges, pn)
           /\ arrived' = arrived \cup {pn}
           /\ rcv' = [rcv EXCEPT ![pkt.stream] = Accept(rcv[pkt.stream], pkt)]
           /\ handed' = [handed EXCEPT ![pkt.stream] =
                           @ \cup Handed(rcv[pkt.stream], Accept(rcv[pkt.stream], pkt), pkt)]
  <2>. DEFINE s == pkt.stream  new == Accept(rcv[s], pkt)
  <2>1. AckOK'
    BY <1>1, <1>3, <1>8, AckSteps
  <2>2. /\ rcv[s] \in RecvStream /\ rcv[s].read_offset \in Nat
        /\ snd[s].sent_offset \in Offset /\ rcv[s].read_offset <= snd[s].sent_offset
        /\ \A r \in rcv[s].recv_packets : End(r) <= snd[s].sent_offset
    <3>. HIDE DEF s
    <3>1. s \in Streams
      BY <1>3 DEF s
    <3>2. snd[s].sent_offset \in Offset
      BY <1>1, <3>1, Facts DEF SendStream
    <3>3. rcv[s].read_offset <= snd[s].sent_offset
      BY <1>1, <3>1 DEF RcvOK
    <3>. QED BY <1>1, <3>1, <3>2, <3>3, KeptWasSent
  <2>3. /\ new \in RecvStream
        /\ rcv[s].read_offset <= new.read_offset /\ new.read_offset <= snd[s].sent_offset
        /\ new.recv_packets \subseteq rcv[s].recv_packets \cup {RangeOf(pkt)}
        /\ \A byte \in Nat :
             byte < rcv[s].read_offset \/ (\E r \in rcv[s].recv_packets : Covers(r, byte)) \/ Covers(pkt, byte) =>
               byte < new.read_offset \/ \E r \in new.recv_packets : Covers(r, byte)
    BY <1>3, <2>2, AcceptIs
  <2>. HIDE DEF new
  <2>4. handed' \in [Streams -> SUBSET Offset]
    <3>1. Handed(rcv[s], new, pkt) \subseteq Offset
      <4>1. new.read_offset \in 0 .. MaxBytes /\ MaxBytes \in Nat
        BY <2>3, BoundsAssumption DEF RecvStream, Offset
      <4>. QED BY <2>2, <4>1 DEF Handed, Offset
    <3>. QED BY <1>1, <1>8, <3>1 DEF RcvOK, new
  <2>5. RcvOK' /\ arrived \subseteq arrived'
    <3>. DEFINE taken == {pn}
    <3>1. /\ taken \subseteq 0 .. Len(log) - 1 /\ \A x \in taken : Packet(x).stream = s
          /\ \A r \in new.recv_packets : r \in rcv[s].recv_packets \/ \E x \in taken : r = RangeOf(Packet(x))
          /\ arrived' = arrived \cup taken /\ s \in Streams
          /\ rcv' = [rcv EXCEPT ![s] = new]
      BY <1>3, <1>8, <2>3 DEF new
    <3>2. \A byte \in Nat : Received(s, byte) \/ (\E x \in taken : Covers(Packet(x), byte)) =>
            byte < new.read_offset \/ \E r \in new.recv_packets : Covers(r, byte)
      BY <2>3 DEF Received
    <3>. HIDE DEF s, taken
    <3>. QED BY <1>1, <1>4, <2>3, <2>4, <3>1, <3>2, RcvSteps
  <2>. QED BY <1>4, <1>5, <1>6, <2>1, <2>5, ReceiverSteps
<1>. QED BY <1>7, <1>8 DEF did_recv_DATA

(* An ACK says no more than what was seen.                                 *)
LEMMA AcksSeen ==
  ASSUME AckOK
  PROVE  /\ ACK(ack_ranges) \in Message /\ ACK(ack_ranges).type = "ACK"
         /\ Seen(ACK(ack_ranges)) \subseteq arrived
<1>. DEFINE ar == ack_ranges  c == Carried(ar)  m == ACK(ar)
<1>1. WellFormed(ar) /\ ar.largest \in PacketNumber /\ Seen(ar) \subseteq arrived
  BY DEF AckOK, AckRangesExact
<1>2. /\ c \in [ranges : Seq(Nat \ {0}), largest : Nat]
      /\ c.largest = ar.largest /\ Seen(c) \subseteq Seen(ar)
  <2>. HIDE DEF ar
  <2>. QED BY <1>1, CarriedIsSeen
<1>3. m = [type |-> "ACK", ranges |-> c.ranges, largest |-> ar.largest]
  BY DEF ACK
<1>. HIDE DEF m, c, ar
<1>4. m.type = "ACK" /\ m.ranges = c.ranges /\ m.largest = c.largest
  BY <1>2, <1>3
<1>5. m \in Message
  BY <1>1, <1>2, <1>3 DEF Message
<1>6. Seen(m) = Seen(c)
  <2>1. \A i : Low(m, i) = Low(c, i)
    BY <1>4 DEF Low
  <2>2. \A i, num : InRange(m, i, num) <=> InRange(c, i, num)
    BY <2>1 DEF InRange
  <2>. QED BY <1>4, <2>2 DEF Seen
<1>. QED BY <1>1, <1>2, <1>4, <1>5, <1>6 DEF m, ar

(* An ACK that is sent reports only what arrived.                          *)
LEMMA AckTimerKeeps ==
  ASSUME Base, ack_timer_cb
  PROVE  Grows /\ Base'
<1>1. LogOK /\ SndOK /\ ControlOK /\ RcvOK /\ AckOK
  BY DEF Base
<1>2. /\ log' = log /\ sent_packets' = sent_packets /\ lost_packets' = lost_packets
      /\ snd' = snd /\ flushed' = flushed /\ rcv' = rcv /\ handed' = handed
      /\ arrived' = arrived /\ ack_ranges' = ack_ranges
  BY DEF ack_timer_cb, sender
<1>3. ControlOK'
  BY <1>1 DEF ack_timer_cb, sender, congestion, timers, ControlOK
<1>4. Grows
  <2>1. \A s \in Streams : snd[s].sent_offset <= snd'[s].sent_offset
    BY <1>1, <1>2, Facts
  <2>. QED BY <1>1, <1>2, <2>1, Growing
<1>5. SndOK'
  BY <1>1, <1>2 DEF SndOK
<1>6. LogOK'
  BY <1>1, <1>2 DEF LogOK, End
<1>7. PICK a : a = ACK(ack_ranges)
  OBVIOUS
<1>8. a \in Message /\ a.type = "ACK" /\ Seen(a) \subseteq arrived
  BY <1>1, <1>7, AcksSeen
<1>9. MessageOK(a)'
  BY <1>2, <1>8 DEF MessageOK
<1>10. net' = net \cup {a}
  BY <1>7 DEF ack_timer_cb
<1>11. \A x \in net' : x \in net \/ MessageOK(x)'
  BY <1>9, <1>10
<1>. QED BY <1>2, <1>3, <1>4, <1>5, <1>6, <1>11, SenderSteps

(* A step of the receiver that changes one stream and takes no packet.     *)
LEMMA RestSteps ==
  ASSUME Base, NEW s \in Streams, NEW new \in RecvStream,
         rcv[s].read_offset <= new.read_offset, new.read_offset <= snd[s].sent_offset,
         new.recv_packets = rcv[s].recv_packets,
         rcv' = [rcv EXCEPT ![s] = new],
         log' = log, sent_packets' = sent_packets, lost_packets' = lost_packets,
         snd' = snd, flushed' = flushed, handed' = handed, arrived' = arrived,
         ack_ranges' = ack_ranges, ControlOK',
         \A m \in net' : m \in net \/ MessageOK(m)'
  PROVE  Grows /\ Base'
<1>. DEFINE taken == {}
<1>1. LogOK /\ SndOK /\ RcvOK /\ AckOK
  BY DEF Base
<1>2. /\ taken \subseteq 0 .. Len(log) - 1 /\ \A pn \in taken : Packet(pn).stream = s
      /\ \A r \in new.recv_packets : r \in rcv[s].recv_packets \/ \E pn \in taken : r = RangeOf(Packet(pn))
      /\ arrived' = arrived \cup taken
      /\ handed' \in [Streams -> SUBSET Offset]
  BY <1>1 DEF RcvOK
<1>3. \A byte \in Nat : Received(s, byte) \/ (\E pn \in taken : Covers(Packet(pn), byte)) =>
        byte < new.read_offset \/ \E r \in new.recv_packets : Covers(r, byte)
  <2>1. rcv[s].read_offset \in Nat /\ new.read_offset \in Nat
    BY <1>1, KeptWasSent, BoundsAssumption DEF RecvStream, Offset
  <2>2. ASSUME NEW byte \in Nat, byte < rcv[s].read_offset PROVE byte < new.read_offset
    BY <2>1, <2>2
  <2>. QED BY <2>2 DEF Received
<1>. HIDE DEF taken
<1>4. RcvOK' /\ arrived \subseteq arrived'
  BY <1>1, <1>2, <1>3, RcvSteps
<1>5. AckOK'
  <2>1. /\ WellFormed(ack_ranges) /\ ack_ranges.largest \in PacketNumber
        /\ Seen(ack_ranges) \subseteq arrived /\ (MaxRanges > MaxPackets => Seen(ack_ranges) = arrived)
    BY <1>1 DEF AckOK, AckRangesExact
  <2>2. /\ WellFormed(ack_ranges') /\ ack_ranges'.largest \in PacketNumber
        /\ Seen(ack_ranges') \subseteq arrived' /\ (MaxRanges > MaxPackets => Seen(ack_ranges') = arrived')
    BY <2>1
  <2>. QED BY <2>2 DEF AckOK, AckRangesExact
<1>. QED BY <1>4, <1>5, ReceiverSteps

(* A FLUSHSTREAM moves the receiver forward only, and not past what was    *)
(* sent.                                                                   *)
LEMMA FlushStreamKeeps ==
  ASSUME Base, NEW m \in net, did_recv_FLUSHSTREAM(m)
  PROVE  Grows /\ Base'
<1>. DEFINE s == m.stream  st == rcv[s]
            new == [st EXCEPT !.read_offset = m.offset, !.wait_flush = FALSE, !.skip_timer = 0]
<1>1. LogOK /\ SndOK /\ ControlOK /\ RcvOK /\ AckOK /\ MessageOK(m) /\ m.type = "FLUSHSTREAM"
  BY DEF Base, NetOK, did_recv_FLUSHSTREAM
<1>2. s \in Streams /\ m.offset \in Offset /\ m.offset <= snd[s].sent_offset
  BY <1>1 DEF MessageOK, Message
<1>3. st \in RecvStream /\ st.read_offset \in Nat /\ st.read_offset <= snd[s].sent_offset
  BY <1>1, <1>2, KeptWasSent DEF RcvOK
<1>4. /\ log' = log /\ sent_packets' = sent_packets /\ lost_packets' = lost_packets
      /\ snd' = snd /\ flushed' = flushed /\ handed' = handed
      /\ arrived' = arrived /\ ack_ranges' = ack_ranges
  BY DEF did_recv_FLUSHSTREAM, sender
<1>5. ControlOK'
  BY <1>1 DEF did_recv_FLUSHSTREAM, sender, congestion, timers, ControlOK
<1>6. \A x \in net' : x \in net \/ MessageOK(x)'
  <2>1. PICK x \in Streams : x = s
    BY <1>2
  <2>2. MessageOK(FLUSHCONF(x))'
    <3>1. 0 \in Offset
      BY BoundsAssumption DEF Offset
    <3>. QED BY <3>1, Requests
  <2>3. net' \subseteq net \cup {FLUSHCONF(x)}
    BY <2>1 DEF did_recv_FLUSHSTREAM, Reply, Exchange
  <2>. QED BY <2>2, <2>3
<1>7. DOMAIN rcv = Streams
  BY <1>1 DEF RcvOK
<1>8. CASE rcv' = rcv
  <2>1. rcv' = [rcv EXCEPT ![s] = st]
    BY <1>1, <1>2, <1>8 DEF RcvOK
  <2>2. st.read_offset <= st.read_offset
    BY <1>3
  <2>. HIDE DEF s
  <2>. QED BY <1>2, <1>3, <1>4, <1>5, <1>6, <2>1, <2>2, RestSteps
<1>9. CASE ~(st.read_offset >= m.offset) /\ rcv' = [rcv EXCEPT ![m.stream].read_offset = m.offset,
                          ![m.stream].wait_flush = FALSE, ![m.stream].skip_timer = 0]
  <2>1. rcv' = [rcv EXCEPT ![s] = new]
    BY <1>2, <1>3, <1>7, <1>9, Zenon DEF RecvStream
  <2>2. new \in RecvStream /\ new.read_offset = m.offset /\ new.recv_packets = st.recv_packets
    BY <1>2, <1>3 DEF RecvStream
  <2>3. st.read_offset <= new.read_offset /\ new.read_offset <= snd[s].sent_offset
    BY <1>2, <1>3, <1>9, <2>2, BoundsAssumption DEF Offset
  <2>. HIDE DEF s, new
  <2>. QED BY <1>2, <1>3, <1>4, <1>5, <1>6, <2>1, <2>2, <2>3, RestSteps
<1>. QED BY <1>8, <1>9 DEF did_recv_FLUSHSTREAM

(* The receiver asks to skip from no further than what was sent.           *)
LEMMA SkipOffsetIs ==
  ASSUME LogOK, SndOK, RcvOK, NEW s \in Streams
  PROVE  SkipOffset(rcv[s]) \in Offset /\ SkipOffset(rcv[s]) <= snd[s].sent_offset
<1>. DEFINE st == rcv[s]  kept == st.recv_packets  starts == {k.offset : k \in kept}
<1>1. /\ st \in RecvStream /\ snd[s] \in SendStream /\ snd[s].sent_offset \in 0 .. MaxBytes
      /\ MaxBytes \in Nat /\ st.read_offset \in 0 .. MaxBytes
      /\ \A r \in kept : r \in Ranges /\ End(r) \in Nat /\ End(r) <= snd[s].sent_offset
  BY KeptWasSent, Facts DEF SendStream, RecvStream, Offset
<1>2. st.read_offset <= snd[s].sent_offset
  BY DEF RcvOK
<1>3. CASE kept = {}
  <2>1. SkipOffset(st) = st.read_offset
    BY <1>3 DEF SkipOffset
  <2>. QED BY <1>1, <1>2, <2>1 DEF Offset
<1>4. CASE kept # {}
  <2>1. starts \subseteq 0 .. MaxBytes /\ starts # {}
    BY <1>1, <1>4 DEF Ranges, Offset
  <2>2. Max(starts) \in starts /\ \A y \in starts : y <= Max(starts)
    <3>. HIDE DEF starts
    <3>. QED BY <1>1, <2>1, GreatestBelow
  <2>3. \E k \in kept : \A x \in kept : x.offset <= k.offset
    <3>1. PICK k \in kept : k.offset = Max(starts)
      BY <2>2
    <3>2. \A x \in kept : x.offset \in starts
      OBVIOUS
    <3>. QED BY <2>2, <3>1, <3>2
  <2>4. PICK k \in kept : k = CHOOSE x \in kept : \A y \in kept : y.offset <= x.offset
    BY <2>3
  <2>5. SkipOffset(st) = End(k)
    BY <1>4, <2>4 DEF SkipOffset
  <2>6. End(k) \in Nat /\ End(k) <= snd[s].sent_offset
    BY <1>1
  <2>. QED BY <1>1, <2>5, <2>6 DEF Offset
<1>. QED BY <1>3, <1>4

(* skip_stream and skip_timer_cb.                                          *)
LEMMA SkipSteps ==
  ASSUME Base, NEW s \in Streams, NEW new \in RecvStream,
         new.read_offset = rcv[s].read_offset, new.recv_packets = rcv[s].recv_packets,
         rcv' = [rcv EXCEPT ![s] = new],
         net' \subseteq net \cup {SKIPSTREAM(s, SkipOffset(rcv[s]))},
         UNCHANGED <<sender, ack_ranges, ack_timer_active, handed, arrived, lost>>,
         up' \in BOOLEAN, skips' \in 0 .. MaxSkips
  PROVE  Grows /\ Base'
<1>1. LogOK /\ SndOK /\ ControlOK /\ RcvOK
  BY DEF Base
<1>2. /\ log' = log /\ sent_packets' = sent_packets /\ lost_packets' = lost_packets
      /\ snd' = snd /\ flushed' = flushed
  BY DEF sender
<1>3. ControlOK'
  BY <1>1 DEF sender, congestion, timers, ControlOK
<1>4. PICK o \in Offset : o = SkipOffset(rcv[s]) /\ o <= snd[s].sent_offset
  BY <1>1, SkipOffsetIs
<1>5. MessageOK(SKIPSTREAM(s, o))'
  BY <1>2, <1>4, Requests
<1>6. \A x \in net' : x \in net \/ MessageOK(x)'
  BY <1>4, <1>5
<1>7. rcv[s].read_offset \in Nat /\ rcv[s].read_offset <= snd[s].sent_offset
  BY <1>1, KeptWasSent DEF RcvOK
<1>8. rcv[s].read_offset <= new.read_offset /\ new.read_offset <= snd[s].sent_offset
  BY <1>7
<1>. QED BY <1>2, <1>3, <1>6, <1>8, RestSteps

(* skip_stream touches no byte.                                            *)
LEMMA SkipStreamKeeps ==
  ASSUME Base, NEW s \in Streams, skip_stream(s)
  PROVE  Grows /\ Base'
<1>. DEFINE new == [rcv[s] EXCEPT !.wait_flush = TRUE, !.skip_timer = 1]
<1>1. rcv[s] \in RecvStream /\ DOMAIN rcv = Streams /\ skips \in 0 .. MaxSkips /\ up \in BOOLEAN
  BY DEF Base, RcvOK, ControlOK
<1>2. rcv' = [rcv EXCEPT ![s] = new]
  BY <1>1, Zenon DEF skip_stream, RecvStream
<1>3. new \in RecvStream /\ new.read_offset = rcv[s].read_offset /\ new.recv_packets = rcv[s].recv_packets
  BY <1>1 DEF RecvStream
<1>4. /\ net' \subseteq net \cup {SKIPSTREAM(s, SkipOffset(rcv[s]))}
      /\ UNCHANGED <<sender, ack_ranges, ack_timer_active, handed, arrived, lost>>
      /\ up' \in BOOLEAN
  BY <1>1 DEF skip_stream
<1>5. skips' \in 0 .. MaxSkips
  BY <1>1, BoundsAssumption DEF skip_stream
<1>. HIDE DEF new
<1>. QED BY <1>2, <1>3, <1>4, <1>5, SkipSteps

(* Nor does its timer.                                                     *)
LEMMA SkipTimerKeeps ==
  ASSUME Base, NEW s \in Streams, skip_timer_cb(s)
  PROVE  Grows /\ Base'
<1>1. rcv[s] \in RecvStream /\ DOMAIN rcv = Streams /\ skips \in 0 .. MaxSkips /\ up \in BOOLEAN
      /\ rcv \in [Streams -> RecvStream]
  BY DEF Base, RcvOK, ControlOK
<1>2. PICK new \in RecvStream :
        /\ rcv' = [rcv EXCEPT ![s] = new]
        /\ new.read_offset = rcv[s].read_offset /\ new.recv_packets = rcv[s].recv_packets
  <2>1. CASE rcv' = rcv
    <3>1. rcv' = [rcv EXCEPT ![s] = rcv[s]]
      BY <1>1, <2>1
    <3>. QED BY <1>1, <3>1
  <2>2. CASE rcv' = [rcv EXCEPT ![s].skip_timer = 2 * @]
    <3>. DEFINE y == [rcv[s] EXCEPT !.skip_timer = 2 * rcv[s].skip_timer]
    <3>1. rcv' = [rcv EXCEPT ![s] = y]
      BY <1>1, <2>2
    <3>2. y \in RecvStream /\ y.read_offset = rcv[s].read_offset /\ y.recv_packets = rcv[s].recv_packets
      <4>1. 2 * rcv[s].skip_timer \in Nat
        BY <1>1 DEF RecvStream
      <4>. QED BY <1>1, <4>1 DEF RecvStream
    <3>. HIDE DEF y
    <3>. QED BY <3>1, <3>2
  <2>. QED BY <2>1, <2>2 DEF skip_timer_cb
<1>3. /\ net' \subseteq net \cup {SKIPSTREAM(s, SkipOffset(rcv[s]))}
      /\ UNCHANGED <<sender, ack_ranges, ack_timer_active, handed, arrived, lost>>
      /\ up' \in BOOLEAN /\ skips' \in 0 .. MaxSkips
  BY <1>1 DEF skip_timer_cb, GiveUp
<1>. QED BY <1>2, <1>3, SkipSteps

-----------------------------------------------------------------------------
(* did_recv_ACK                                                            *)

(* What is left of a queue lies in place too.                              *)
LEMMA TailInPlace ==
  ASSUME NEW st \in SendStream, InPlace(st), NEW positions, positions \subseteq DOMAIN st.data_queue
  PROVE  /\ From(st.data_queue, positions) \in Seq(Item)
         /\ \A i \in 1 .. Len(From(st.data_queue, positions)) :
              From(st.data_queue, positions)[i].offset + From(st.data_queue, positions)[i].size <= st.queue_offset
         /\ \A i, j \in 1 .. Len(From(st.data_queue, positions)) :
              i < j => From(st.data_queue, positions)[i].offset + From(st.data_queue, positions)[i].size
                         <= From(st.data_queue, positions)[j].offset
<1>. DEFINE dq == st.data_queue  tail == From(dq, positions)
<1>1. dq \in Seq(Item) /\ positions \subseteq DOMAIN dq
  BY DEF SendStream
<1>2. /\ \A i \in 1 .. Len(dq) : dq[i].offset + dq[i].size <= st.queue_offset
      /\ \A i, j \in 1 .. Len(dq) : i < j => dq[i].offset + dq[i].size <= dq[j].offset
  BY DEF InPlace
<1>. HIDE DEF dq
<1>3. PICK m \in 1 .. Len(dq) + 1 :
        /\ tail \in Seq(Item) /\ Len(tail) = Len(dq) - m + 1
        /\ \A i \in 1 .. Len(dq) - m + 1 : tail[i] = dq[m + i - 1]
  <2>1. \E m \in 1 .. Len(dq) + 1 :
           /\ m = Min(positions \cup {Len(dq) + 1})
           /\ From(dq, positions) \in Seq(Item)
           /\ Len(From(dq, positions)) = Len(dq) - m + 1
           /\ \A i \in 1 .. Len(dq) - m + 1 : From(dq, positions)[i] = dq[m + i - 1]
           /\ \A i \in 1 .. m - 1 : i \notin positions
    BY <1>1, FromIs
  <2>. QED BY <2>1
<1>4. Len(dq) \in Nat
  BY <1>1, LenProperties
<1>. HIDE DEF tail
<1>5. \A i \in 1 .. Len(tail) : m + i - 1 \in 1 .. Len(dq) /\ tail[i] = dq[m + i - 1]
  BY <1>3, <1>4
<1>6. \A i \in 1 .. Len(tail) : tail[i].offset + tail[i].size <= st.queue_offset
  BY <1>2, <1>5
<1>7. ASSUME NEW i \in 1 .. Len(tail), NEW j \in 1 .. Len(tail), i < j
      PROVE  tail[i].offset + tail[i].size <= tail[j].offset
  <2>1. m + i - 1 < m + j - 1
    BY <1>4, <1>7
  <2>. DEFINE a == m + i - 1  b == m + j - 1
  <2>2. a \in 1 .. Len(dq) /\ b \in 1 .. Len(dq) /\ a < b /\ tail[i] = dq[a] /\ tail[j] = dq[b]
    BY <1>5, <2>1
  <2>. HIDE DEF a, b
  <2>. QED BY <1>2, <2>2
<1>. QED BY <1>3, <1>6, <1>7 DEF tail, dq

(* The stream after acks: acked_offset moves over what is acked, no        *)
(* further than what was sent.                                             *)
LEMMA AckStreamIs ==
  ASSUME LogOK, SndOK, NEW s \in Streams, NEW pns, pns \subseteq 0 .. Len(log) - 1
  PROVE  LET new == AckStream(pns, s)
             ranges == AckedRanges(pns, s) \cup snd[s].outstanding_acks
         IN /\ StreamOK(new)
            /\ new.sent_offset = snd[s].sent_offset /\ new.queue_offset = snd[s].queue_offset
            /\ new.flush_timer = snd[s].flush_timer
            /\ new.acked_offset \in Nat /\ snd[s].acked_offset <= new.acked_offset
            /\ new.outstanding_acks \subseteq ranges
            /\ \A byte \in snd[s].acked_offset .. new.acked_offset - 1 : \E k \in ranges : Covers(k, byte)
<1>. DEFINE st == snd[s]  ranges == AckedRanges(pns, s) \cup st.outstanding_acks
            acked == Extend(st.acked_offset, ranges)  new == AckStream(pns, s)
            positions == {i \in DOMAIN st.data_queue : st.data_queue[i].offset + st.data_queue[i].size > acked}
            tail == From(st.data_queue, positions)
<1>1. /\ st \in SendStream /\ InPlace(st) /\ st.acked_offset <= st.sent_offset
      /\ st.sent_offset <= st.queue_offset
      /\ \A r \in st.outstanding_acks : End(r) <= st.sent_offset
  BY DEF SndOK, StreamOK
<1>2. /\ st.acked_offset \in Nat /\ st.sent_offset \in 0 .. MaxBytes /\ MaxBytes \in Nat
      /\ st.outstanding_acks \subseteq Ranges
  BY <1>1, BoundsAssumption DEF SendStream, Offset
<1>3. ASSUME NEW r \in AckedRanges(pns, s) PROVE r \in Ranges /\ End(r) <= st.sent_offset
  <2>1. PICK pn \in pns : Packet(pn).stream = s /\ r = RangeOf(Packet(pn))
    BY DEF AckedRanges
  <2>2. pn + 1 \in 1 .. Len(log) /\ Packet(pn) = log[pn + 1]
    BY Facts DEF Packet
  <2>3. End(log[pn + 1]) <= st.sent_offset /\ log[pn + 1] \in Packets
    BY <2>1, <2>2, Facts DEF LogOK
  <2>. QED BY <2>1, <2>2, <2>3 DEF RangeOf, End, Packets, Ranges
<1>4. ranges \subseteq Ranges /\ \A r \in ranges : End(r) <= st.sent_offset
  BY <1>1, <1>2, <1>3
<1>5. new = [st EXCEPT !.acked_offset = acked, !.outstanding_acks = Beyond(acked, ranges),
                       !.data_queue = tail]
  BY DEF AckStream
<1>6. /\ acked \in Nat /\ acked >= st.acked_offset
      /\ acked = st.acked_offset \/ \E k \in ranges : acked = End(k)
      /\ \A byte \in st.acked_offset .. acked - 1 : \E k \in ranges : Covers(k, byte)
  <2>. HIDE DEF ranges, st
  <2>1. Spans(ranges)
    BY <1>4, RangesSpan
  <2>. QED BY <1>2, <2>1, ExtendIs
<1>7. /\ tail \in Seq(Item)
      /\ \A i \in 1 .. Len(tail) : tail[i].offset + tail[i].size <= st.queue_offset
      /\ \A i, j \in 1 .. Len(tail) : i < j => tail[i].offset + tail[i].size <= tail[j].offset
  <2>1. positions \subseteq DOMAIN st.data_queue
    OBVIOUS
  <2>. HIDE DEF positions, st
  <2>. QED BY <1>1, <2>1, TailInPlace
<1>. HIDE DEF acked, tail, new
<1>8. acked <= st.sent_offset /\ acked \in Offset
  <2>1. acked <= st.sent_offset
    <3>. HIDE DEF ranges, st
    <3>. QED BY <1>1, <1>4, <1>6
  <2>. HIDE DEF ranges, st
  <2>. QED BY <1>2, <1>6, <2>1 DEF Offset
<1>9. Beyond(acked, ranges) \subseteq ranges
  BY DEF Beyond
<1>. HIDE DEF ranges, st
<1>10. /\ new.acked_offset = acked /\ new.outstanding_acks = Beyond(acked, ranges)
       /\ new.data_queue = tail /\ new.sent_offset = st.sent_offset
       /\ new.queue_offset = st.queue_offset /\ new.flush_timer = st.flush_timer
  BY <1>1, <1>5 DEF SendStream
<1>11. new \in SendStream
  <2>1. Beyond(acked, ranges) \in SUBSET Ranges
    BY <1>4, <1>9
  <2>. QED BY <1>1, <1>5, <1>7, <1>8, <2>1 DEF SendStream
<1>12. InPlace(new)
  BY <1>7, <1>10 DEF InPlace
<1>13. \A r \in new.outstanding_acks : End(r) <= st.sent_offset
  BY <1>4, <1>9, <1>10
<1>14. StreamOK(new)
  BY <1>1, <1>8, <1>10, <1>11, <1>12, <1>13 DEF StreamOK
<1>. QED BY <1>6, <1>9, <1>10, <1>14 DEF new, ranges, st

(* An ACK moves the sender over ranges of bytes it had sent.               *)
LEMMA AckKeeps ==
  ASSUME Base, NEW m \in net, did_recv_ACK(m)
  PROVE  Grows /\ Base'
<1>1. LogOK /\ SndOK /\ ControlOK /\ RcvOK /\ AckOK /\ MessageOK(m) /\ m.type = "ACK"
  BY DEF Base, NetOK, did_recv_ACK
<1>2. PICK acked, gone :
        /\ acked = NewlyAcked(m) /\ gone \in LostPrefixes(acked)
        /\ snd' = [s \in Streams |-> AckStream(acked, s)]
        /\ sent_packets' = (sent_packets \ acked) \ gone
        /\ lost_packets' = lost_packets \cup gone
        /\ bytes_in_flight' = Minus(bytes_in_flight, Length(acked \cup gone))
        /\ congestion_window' \in Cwnds
  BY DEF did_recv_ACK
<1>3. /\ log' = log /\ flushed' = flushed /\ rcv' = rcv /\ handed' = handed
      /\ arrived' = arrived /\ ack_ranges' = ack_ranges /\ net' \subseteq net
  BY DEF did_recv_ACK, receiver, Reply, Exchange
<1>4. acked \subseteq 0 .. Len(log) - 1 /\ gone \subseteq sent_packets
  BY <1>1, <1>2 DEF NewlyAcked, LostPrefixes, LogOK
<1>5. ASSUME NEW s \in Streams
      PROVE  StreamOK(snd'[s]) /\ snd'[s].sent_offset = snd[s].sent_offset
  <2>1. snd'[s] = AckStream(acked, s)
    BY <1>2
  <2>2. StreamOK(AckStream(acked, s)) /\ AckStream(acked, s).sent_offset = snd[s].sent_offset
    BY <1>1, <1>4, AckStreamIs
  <2>. QED BY <2>1, <2>2
<1>6. \A s \in Streams : snd'[s].sent_offset \in Nat /\ snd[s].sent_offset <= snd'[s].sent_offset
  BY <1>1, <1>5, Facts
<1>7. Grows
  BY <1>1, <1>3, <1>6, Growing
<1>8. SndOK'
  <2>1. DOMAIN snd' = Streams /\ snd' = [s \in Streams |-> snd'[s]]
    BY <1>2
  <2>2. \A s \in Streams : flushed[s] <= snd'[s].sent_offset
    BY <1>1, <1>5 DEF SndOK
  <2>3. flushed \in [Streams -> Offset]
    BY <1>1 DEF SndOK
  <2>. QED BY <1>3, <1>5, <2>1, <2>2, <2>3 DEF SndOK, StreamOK, InPlace, End
<1>9. LogOK'
  <2>1. /\ sent_packets' \subseteq sent_packets \cup lost_packets
        /\ lost_packets' \subseteq sent_packets \cup lost_packets
        /\ sent_packets' \cap lost_packets' = {}
    BY <1>1, <1>2, <1>4 DEF LogOK
  <2>. QED BY <1>1, <1>3, <1>6, <2>1, LogStays
<1>10. ControlOK'
  <2>1. bytes_in_flight' \in 0 .. Word - 1
    <3>1. bytes_in_flight \in Int /\ Length(acked \cup gone) \in Int
      BY <1>1, LengthIs, BoundsAssumption DEF ControlOK
    <3>. QED BY <1>2, <3>1, Wraps
  <2>2. largest_acked' \in PacketNumber
    <3>1. m \in Message /\ m.type = "ACK"
      BY <1>1 DEF MessageOK
    <3>2. m.largest \in PacketNumber
      BY <3>1 DEF Message
    <3>. QED BY <1>1, <3>2 DEF did_recv_ACK, ControlOK
  <2>3. /\ send_queue' = send_queue /\ is_pacing_timer_active' = TRUE /\ tlp' = 1
        /\ tlp_interval' = 1 /\ ack_timer_active' = ack_timer_active
        /\ flushes' = flushes /\ skips' = skips /\ lost' = lost /\ up' = up
    BY DEF did_recv_ACK, receiver
  <2>. QED BY <1>1, <1>2, <2>1, <2>2, <2>3 DEF ControlOK
<1>11. \A x \in net' : x \in net \/ MessageOK(x)'
  BY <1>3
<1>. QED BY <1>3, <1>7, <1>8, <1>9, <1>10, <1>11, SenderSteps

-----------------------------------------------------------------------------
(* The rest of a round                                                     *)

(* A pacing round keeps what the receiver, the network and the acks say.   *)
LEMMA RoundKeeps ==
  ASSUME Base, pacing_timer_cb
  PROVE  Grows /\ Base'
<1>1. LogOK /\ SndOK /\ ControlOK
  BY DEF Base
<1>2. PICK n \in 0 .. Len(Backlog) : SendRound(Backlog, n)
  BY DEF pacing_timer_cb
<1>3. /\ flushed' = flushed /\ rcv' = rcv /\ handed' = handed
      /\ arrived' = arrived /\ ack_ranges' = ack_ranges
  BY DEF pacing_timer_cb, receiver
<1>4. LogOK' /\ Sent(n)
  BY <1>1, <1>2, RoundLog, RoundSends
<1>5. /\ n \in Nat /\ Len(log) \in Nat /\ Len(log') = Len(log) + n
      /\ \A i \in 1 .. Len(log) : log'[i] = log[i]
  BY <1>4 DEF Sent
<1>6. ASSUME NEW s \in Streams
      PROVE  StreamOK(snd'[s]) /\ snd[s].sent_offset <= snd'[s].sent_offset /\ snd'[s].sent_offset \in Nat
  <2>. DEFINE st == snd[s]  new == snd'[s]  o == new.sent_offset
  <2>1. new = [st EXCEPT !.sent_offset = o] /\ o \in st.sent_offset .. st.queue_offset
    BY <1>4 DEF Sent
  <2>2. StreamOK(st) /\ st \in SendStream
    BY <1>1 DEF SndOK, StreamOK
  <2>3. /\ st.queue_offset \in 0 .. MaxBytes /\ MaxBytes \in Nat /\ st.sent_offset \in Nat
        /\ st.acked_offset \in Nat
    <3>1. st.queue_offset \in Offset /\ st.sent_offset \in Offset /\ st.acked_offset \in Offset
      BY <2>2 DEF SendStream
    <3>2. MaxBytes \in Nat
      BY BoundsAssumption
    <3>. HIDE DEF st, new
    <3>. QED BY <3>1, <3>2 DEF Offset
  <2>4. o \in Offset /\ st.sent_offset <= o /\ o <= st.queue_offset /\ o \in Nat
    BY <2>1, <2>3 DEF Offset
  <2>. HIDE DEF o
  <2>5. /\ new.data_queue = st.data_queue /\ new.queue_offset = st.queue_offset
        /\ new.acked_offset = st.acked_offset
        /\ new.outstanding_acks = st.outstanding_acks /\ new \in SendStream
    BY <2>1, <2>2, <2>4 DEF SendStream
  <2>6. new.sent_offset = o
    BY DEF o
  <2>. HIDE DEF st, new
  <2>7. InPlace(new)
    BY <2>2, <2>5 DEF StreamOK, InPlace
  <2>8. \A r \in st.outstanding_acks : End(r) \in Nat /\ End(r) <= st.sent_offset
    <3>1. st.outstanding_acks \subseteq Ranges
      BY <2>2 DEF SendStream
    <3>2. \A r \in Ranges : End(r) \in Nat
      BY <2>3, SizesAssumption DEF Ranges, Offset, End
    <3>. QED BY <2>2, <3>1, <3>2 DEF StreamOK
  <2>9. \A r \in new.outstanding_acks : End(r) <= o
    BY <2>3, <2>4, <2>5, <2>8
  <2>10. st.acked_offset <= o
    BY <2>2, <2>3, <2>4 DEF StreamOK
  <2>11. StreamOK(new)
    BY <2>4, <2>5, <2>6, <2>7, <2>9, <2>10 DEF StreamOK
  <2>. QED BY <2>4, <2>6, <2>11 DEF st, new
<1>7. SndOK'
  <2>1. snd' = [s \in Streams |-> snd'[s]] /\ DOMAIN snd' = Streams
    BY <1>4 DEF Sent
  <2>2. flushed \in [Streams -> Offset]
    BY <1>1 DEF SndOK
  <2>3. ASSUME NEW s \in Streams PROVE flushed[s] <= snd'[s].sent_offset
    <3>1. flushed[s] \in Nat /\ snd[s].sent_offset \in Nat /\ flushed[s] <= snd[s].sent_offset
      BY <1>1, Facts DEF SndOK
    <3>. QED BY <1>6, <3>1
  <2>. QED BY <1>3, <1>6, <2>1, <2>2, <2>3 DEF SndOK, StreamOK, InPlace, End
<1>8. Grows
  <2>1. Len(log) <= Len(log)'
    BY <1>5
  <2>. QED BY <1>3, <1>5, <1>6, <2>1 DEF Grows
<1>9. ControlOK'
  <2>1. bytes_in_flight' \in 0 .. Word - 1
    <3>1. bytes_in_flight \in Int /\ Bytes(Backlog, n) \in Int
      BY SMTT(30), <1>1, BytesAre, BoundsAssumption DEF ControlOK
    <3>2. bytes_in_flight' = Plus(bytes_in_flight, Bytes(Backlog, n))
      BY <1>2 DEF SendRound
    <3>. QED BY <3>1, <3>2, Wraps
  <2>2. send_queue' \in Seq(Streams)
    <3>1. PICK positions \in SUBSET DOMAIN send_queue :
            send_queue' = send_queue \/ send_queue' = From(send_queue, positions)
      BY <1>2 DEF SendRound
    <3>2. send_queue \in Seq(Streams)
      BY <1>1 DEF ControlOK
    <3>3. From(send_queue, positions) \in Seq(Streams)
      BY <3>1, <3>2, FromIs
    <3>. QED BY <3>1, <3>2, <3>3
  <2>3. is_pacing_timer_active' \in BOOLEAN
    BY <1>2 DEF SendRound
  <2>4. /\ congestion_window' = congestion_window /\ largest_acked' = largest_acked
        /\ tlp' = tlp /\ tlp_interval' = tlp_interval /\ ack_timer_active' = ack_timer_active
        /\ flushes' = flushes /\ skips' = skips /\ lost' = lost /\ up' = up
    BY DEF pacing_timer_cb, receiver
  <2>. QED BY <1>1, <2>1, <2>2, <2>3, <2>4 DEF ControlOK
<1>10. ASSUME NEW m \in net' PROVE m \in net \/ MessageOK(m)'
  <2>1. net' = net \cup {DATA(pn) : pn \in Len(log) .. Len(log) + n - 1} /\ Len(log) + n <= MaxPackets
    BY <1>2 DEF SendRound
  <2>2. CASE m \notin net
    <3>1. PICK pn \in Len(log) .. Len(log) + n - 1 : m = DATA(pn)
      BY <2>1, <2>2
    <3>2. pn \in PacketNumber /\ pn < Len(log)'
      BY <1>5, <2>1, BoundsAssumption DEF PacketNumber
    <3>3. m \in Message /\ m.type = "DATA" /\ m.packet_number = pn
      BY <3>1, <3>2 DEF DATA, Message
    <3>. QED BY <3>2, <3>3 DEF MessageOK
  <2>. QED BY <2>2
<1>. QED BY <1>3, <1>4, <1>7, <1>8, <1>9, <1>10, SenderSteps

-----------------------------------------------------------------------------
(* The invariant holds                                                     *)

(* Nothing is sent, kept or acked at first.                                *)
LEMMA InitBase == Init => Base
<1>. SUFFICES ASSUME Init PROVE Base
  OBVIOUS
<1>1. log = <<>> /\ Len(log) = 0 /\ log \in Seq(Packets)
  BY EmptySeq DEF Init
<1>2. LogOK
  BY <1>1, BoundsAssumption DEF Init, LogOK
<1>3. 0 \in Offset /\ MaxBytes \in Nat
  BY BoundsAssumption DEF Offset
<1>4. ASSUME NEW s \in Streams PROVE StreamOK(snd[s])
  <2>1. snd[s] = [data_queue |-> <<>>, queue_offset |-> 0, sent_offset |-> 0,
                  acked_offset |-> 0, outstanding_acks |-> {}, flush_timer |-> 0]
    BY DEF Init
  <2>2. <<>> \in Seq(Item) /\ Len(<<>>) = 0
    BY EmptySeq
  <2>3. snd[s] \in SendStream
    BY <1>3, <2>1, <2>2 DEF SendStream
  <2>4. InPlace(snd[s])
    BY <2>1, <2>2 DEF InPlace
  <2>. QED BY <2>1, <2>3, <2>4 DEF StreamOK
<1>5. SndOK
  <2>1. /\ DOMAIN snd = Streams /\ snd = [s \in Streams |-> snd[s]]
        /\ flushed \in [Streams -> Offset]
    BY <1>3 DEF Init
  <2>2. \A s \in Streams : flushed[s] <= snd[s].sent_offset
    BY DEF Init
  <2>. QED BY <1>4, <2>1, <2>2 DEF SndOK
<1>6. ControlOK
  <2>1. Max(Cwnds) \in Cwnds
    <3>1. Cwnds \subseteq Nat /\ IsFiniteSet(Cwnds) /\ Cwnds # {}
      BY SizesAssumption
    <3>. QED BY <3>1, Greatest
  <2>2. 0 \in 0 .. Word - 1
    <3>1. MaxPackets * Fragment \in Nat
      BY BoundsAssumption, SizesAssumption
    <3>. QED BY <3>1, BoundsAssumption
  <2>3. 0 \in PacketNumber
    BY BoundsAssumption DEF PacketNumber
  <2>4. send_queue \in Seq(Streams)
    BY EmptySeq DEF Init
  <2>5. /\ bytes_in_flight = 0 /\ congestion_window = Max(Cwnds) /\ largest_acked = 0
        /\ is_pacing_timer_active = FALSE /\ tlp = 0 /\ tlp_interval = 1
        /\ up = TRUE /\ ack_timer_active = FALSE
        /\ flushes = 0 /\ skips = 0 /\ lost = 0
    BY DEF Init
  <2>6. 0 \in 0 .. MaxFlushes /\ 0 \in 0 .. MaxSkips /\ 0 \in 0 .. MaxLosses
    BY BoundsAssumption
  <2>7. /\ bytes_in_flight \in 0 .. Word - 1 /\ congestion_window \in Cwnds
        /\ largest_acked \in PacketNumber
    BY <2>1, <2>2, <2>3, <2>5
  <2>8. /\ is_pacing_timer_active \in BOOLEAN /\ up \in BOOLEAN /\ ack_timer_active \in BOOLEAN
        /\ tlp \in Nat /\ tlp_interval \in Nat \ {0}
    <3>1. is_pacing_timer_active \in BOOLEAN /\ up \in BOOLEAN /\ ack_timer_active \in BOOLEAN
      BY <2>5, Zenon
    <3>2. tlp \in Nat /\ tlp_interval \in Nat \ {0}
      <4>1. tlp = 0 /\ tlp_interval = 1
        BY <2>5
      <4>. QED BY <4>1
    <3>. QED BY <3>1, <3>2
  <2>9. flushes \in 0 .. MaxFlushes /\ skips \in 0 .. MaxSkips /\ lost \in 0 .. MaxLosses
    BY <2>5, <2>6
  <2>. QED BY <2>4, <2>7, <2>8, <2>9 DEF ControlOK
<1>7. NetOK
  BY DEF Init, NetOK
<1>8. RcvOK
  <2>1. rcv \in [Streams -> RecvStream]
    BY <1>3 DEF Init, RecvStream
  <2>2. \A s \in Streams : rcv[s].read_offset <= snd[s].sent_offset
    BY DEF Init
  <2>3. handed \in [Streams -> SUBSET Offset] /\ arrived = {} /\ \A s \in Streams : rcv[s].recv_packets = {}
    BY DEF Init
  <2>. QED BY <2>1, <2>2, <2>3 DEF RcvOK
<1>9. AckOK
  <2>1. /\ ack_ranges = [ranges |-> <<>>, largest |-> 0] /\ arrived = {}
        /\ ack_ranges.ranges = <<>> /\ ack_ranges.largest = 0
    BY DEF Init, NoneSeen
  <2>2. WellFormed(ack_ranges)
    <3>1. <<>> \in Seq(Nat \ {0})
      BY EmptySeq
    <3>. QED BY <2>1, <3>1 DEF WellFormed
  <2>3. Seen(ack_ranges) = {}
    BY <2>1 DEF Seen
  <2>4. 0 \in PacketNumber
    BY BoundsAssumption DEF PacketNumber
  <2>. QED BY <2>1, <2>2, <2>3, <2>4 DEF AckOK, AckRangesExact
<1>. QED BY <1>2, <1>5, <1>6, <1>7, <1>8, <1>9 DEF Base

(* Every step keeps the invariant and what only grows.                     *)
LEMMA StepKeeps ==
  ASSUME Base, Next
  PROVE  Grows /\ Base'
<1>1. ASSUME NEW m \in net, did_recv(m) PROVE Grows /\ Base'
  BY <1>1, DataKeeps, AckKeeps, SkippedKeeps, FlushStreamKeeps, FlushConfirmedKeeps DEF did_recv
<1>. QED BY <1>1, SendKeeps, FlushKeeps, FlushTimerKeeps, SkipStreamKeeps, SkipTimerKeeps,
            RoundKeeps, ProbeKeeps, AckTimerKeeps, LoseKeeps DEF Next, Receive, flush_stream

(* Nothing happens.                                                        *)
LEMMA StutterKeeps ==
  ASSUME Base, UNCHANGED vars
  PROVE  Base'
<1>1. LogOK'
  BY DEF vars, sender, Base, LogOK, End
<1>2. SndOK'
  BY DEF vars, sender, Base, SndOK, StreamOK, InPlace, End
<1>3. ControlOK'
  BY DEF vars, sender, receiver, congestion, timers, Base, ControlOK
<1>4. Grows
  <2>1. log' = log /\ snd' = snd /\ arrived' = arrived
    BY DEF vars, sender, receiver
  <2>2. \A s \in Streams : snd[s].sent_offset <= snd'[s].sent_offset
    BY <2>1, Facts DEF Base
  <2>. QED BY <2>1, <2>2, Growing DEF Base
<1>. QED BY <1>1, <1>2, <1>3, <1>4, SenderSteps DEF vars, receiver

(* The invariant includes the types.                                       *)
LEMMA BaseTyped == Base => TypeOK
<1>. SUFFICES ASSUME Base PROVE TypeOK
  OBVIOUS
<1>1. LogOK /\ SndOK /\ ControlOK /\ NetOK /\ RcvOK /\ AckOK
  BY DEF Base
<1>2. log \in Seq([stream : Streams, offset : Offset, length : 1 .. Fragment])
  BY <1>1 DEF LogOK, Packets
<1>3. snd \in [Streams -> SendStream]
  <2>1. snd = [s \in Streams |-> snd[s]] /\ \A s \in Streams : snd[s] \in SendStream
    BY <1>1 DEF SndOK, StreamOK
  <2>. QED BY <2>1
<1>4. ack_ranges \in [ranges : Seq(Nat \ {0}), largest : PacketNumber]
  BY <1>1 DEF AckOK, WellFormed
<1>5. net \subseteq Message
  BY <1>1 DEF NetOK, MessageOK
<1>6. sent_packets \cup lost_packets \subseteq 0 .. Len(log) - 1 /\ Len(log) <= MaxPackets
      /\ arrived \subseteq 0 .. Len(log) - 1
  BY <1>1 DEF LogOK, RcvOK
<1>7. rcv \in [Streams -> RecvStream] /\ handed \in [Streams -> SUBSET Offset]
      /\ flushed \in [Streams -> Offset]
  BY <1>1 DEF RcvOK, SndOK
<1>8. /\ bytes_in_flight \in 0 .. Word - 1 /\ congestion_window \in Cwnds
      /\ largest_acked \in PacketNumber /\ send_queue \in Seq(Streams)
      /\ is_pacing_timer_active \in BOOLEAN /\ tlp \in Nat /\ tlp_interval \in Nat
      /\ up \in BOOLEAN /\ ack_timer_active \in BOOLEAN
      /\ flushes \in 0 .. MaxFlushes /\ skips \in 0 .. MaxSkips /\ lost \in 0 .. MaxLosses
  BY <1>1 DEF ControlOK
<1>. QED BY <1>2, <1>3, <1>4, <1>5, <1>6, <1>7, <1>8 DEF TypeOK

(* The data plane keeps its books in order through every interleaving of   *)
(* sending, loss, retransmission, duplication, reordering, acks, flushes   *)
(* and skips: the inductive invariant.                                     *)
THEOREM BaseAlways == Spec => []Base
<1>1. Base /\ [Next]_vars => Base'
  BY StepKeeps, StutterKeeps
<1>. QED BY <1>1, InitBase, PTL DEF Spec

(* Every variable of the data plane keeps its type, and no counter leaves  *)
(* its word.                                                               *)
THEOREM TypeCorrect == Spec => []TypeOK
<1>. QED BY BaseAlways, BaseTyped, PTL

(* AckRanges never claims a packet that was not taken, and forgets none    *)
(* while it has room for the runs (add_packet_number, did_recv_DATA).      *)
THEOREM AcksExact == Spec => []AckRangesExact
<1>1. Base => AckRangesExact
  BY DEF Base, AckOK
<1>. QED BY <1>1, BaseAlways, PTL

-----------------------------------------------------------------------------
(* The tail loss probe                                                     *)

(* Without lost packets and queued streams there is nothing to send.       *)
LEMMA NothingToSend ==
  ASSUME LogOK, SndOK, ControlOK, lost_packets = {}, send_queue = <<>>
  PROVE  Len(Backlog) = 0
<1>1. /\ Retransmissions \in Seq(Packets) /\ Len(Retransmissions) = 0
  <2>1. Cardinality({}) = 0
    BY FS_EmptySet
  <2>2. Len(Retransmissions) = Cardinality(lost_packets) /\ Retransmissions \in Seq(Packets)
    BY RetransmissionsAre DEF LogOK
  <2>. QED BY <2>1, <2>2
<1>2. NewData \in Seq(Packets) /\ Len(NewData) = 0
  <2>1. Ready
    BY DEF Ready, SndOK, StreamOK, ControlOK
  <2>2. NewData \in Seq(Packets) /\ \A i \in 1 .. Len(NewData) : NewData[i].stream \in ToSet(send_queue)
    BY <2>1, NewDataIs
  <2>3. ToSet(send_queue) = {}
    <3>1. DOMAIN <<>> = {}
      OBVIOUS
    <3>. QED BY <3>1 DEF ToSet
  <2>4. Len(NewData) \in Nat
    BY <2>2, LenProperties
  <2>5. ~(1 \in 1 .. Len(NewData))
    BY <2>2, <2>3
  <2>. QED BY <2>2, <2>4, <2>5
<1>3. Len(Retransmissions \o NewData) = Len(Retransmissions) + Len(NewData)
  BY <1>1, <1>2, ConcatProperties
<1>. QED BY <1>1, <1>2, <1>3 DEF Backlog

(* No step disarms the tail loss probe while something waits for it.       *)
LEMMA ArmedStep ==
  ASSUME Base, RetransmissionArmed, Next
  PROVE  RetransmissionArmed'
<1>1. LogOK /\ SndOK /\ ControlOK
  BY DEF Base
<1>2. tlp \in Nat /\ tlp_interval \in Nat \ {0} /\ up \in BOOLEAN
  BY <1>1 DEF ControlOK
<1>. DEFINE Waits == sent_packets # {} \/ lost_packets # {} \/ send_queue # <<>>
\* no action but the next four gives the sender something to wait for
<1>3. ASSUME sent_packets' \subseteq sent_packets, lost_packets' \subseteq lost_packets,
             send_queue' = send_queue, tlp' = tlp, up' => up
      PROVE  RetransmissionArmed'
  BY <1>3 DEF RetransmissionArmed
<1>4. ASSUME NEW s \in Streams, NEW size \in Sizes, send(s, size) PROVE RetransmissionArmed'
  <2>1. /\ up /\ tlp' = IF Idle THEN tlp_interval ELSE tlp
    BY <1>4 DEF send
  <2>2. CASE Idle
    BY <1>2, <2>1, <2>2 DEF RetransmissionArmed
  <2>3. CASE ~Idle
    <3>1. tlp > 0
      BY <2>1, <2>3 DEF Idle, RetransmissionArmed
    <3>. QED BY <2>1, <2>3, <3>1 DEF RetransmissionArmed
  <2>. QED BY <2>2, <2>3
<1>5. ASSUME pacing_timer_cb PROVE RetransmissionArmed'
  <2>1. PICK n \in 0 .. Len(Backlog) : SendRound(Backlog, n)
    BY <1>5 DEF pacing_timer_cb
  <2>2. up /\ up' = up /\ tlp' = tlp
    BY <1>5 DEF pacing_timer_cb
  <2>3. CASE lost_packets # {} \/ send_queue # <<>>
    BY <2>2, <2>3 DEF RetransmissionArmed
  <2>4. CASE lost_packets = {} /\ send_queue = <<>>
    <3>1. Len(Backlog) = 0
      BY <1>1, <2>4, NothingToSend
    <3>2. n = 0
      BY <3>1
    <3>3. lost_packets' = {}
      BY <2>1, <2>4 DEF SendRound
    <3>4. sent_packets' = sent_packets
      <4>1. Len(log) \in Nat
        BY <1>1, Facts
      <4>2. sent_packets' = sent_packets \cup (Len(log) .. Len(log) + n - 1)
        BY <2>1 DEF SendRound
      <4>. QED BY <3>2, <4>1, <4>2
    <3>5. send_queue' = <<>>
      <4>1. PICK positions \in SUBSET DOMAIN send_queue :
              send_queue' = send_queue \/ send_queue' = From(send_queue, positions)
        BY <2>1 DEF SendRound
      <4>2. send_queue \in Seq(Streams) /\ Len(send_queue) = 0
        BY <1>1, <2>4, EmptySeq DEF ControlOK
      <4>3. PICK i \in 1 .. Len(send_queue) + 1 :
              From(send_queue, positions) \in Seq(Streams)
              /\ Len(From(send_queue, positions)) = Len(send_queue) - i + 1
        <5>1. \E i \in 1 .. Len(send_queue) + 1 :
                 /\ i = Min(positions \cup {Len(send_queue) + 1})
                 /\ From(send_queue, positions) \in Seq(Streams)
                 /\ Len(From(send_queue, positions)) = Len(send_queue) - i + 1
                 /\ \A j \in 1 .. Len(send_queue) - i + 1 : From(send_queue, positions)[j] = send_queue[i + j - 1]
                 /\ \A j \in 1 .. i - 1 : j \notin positions
          BY ZenonT(60), <4>1, <4>2, FromIs
        <5>. QED BY <5>1
      <4>4. Len(From(send_queue, positions)) = 0
        BY <4>2, <4>3
      <4>5. From(send_queue, positions) = <<>>
        BY <4>3, <4>4, EmptySeq
      <4>. QED BY <2>4, <4>1, <4>5
    <3>. QED BY <2>2, <2>4, <3>3, <3>4, <3>5 DEF RetransmissionArmed
  <2>. QED BY <2>3, <2>4
<1>6. ASSUME tlp_timer_cb PROVE RetransmissionArmed'
  <2>1. CASE Idle
    BY <1>6, <2>1 DEF tlp_timer_cb, Idle, RetransmissionArmed
  <2>2. CASE ~Idle
    <3>1. (tlp' = 2 * tlp_interval) \/ up' = FALSE
      BY <1>6, <2>2 DEF tlp_timer_cb, GiveUp
    <3>. QED BY <1>2, <3>1 DEF RetransmissionArmed
  <2>. QED BY <2>1, <2>2
<1>7. ASSUME NEW m, did_recv_ACK(m) PROVE RetransmissionArmed'
  BY <1>7 DEF did_recv_ACK, RetransmissionArmed
<1>8. ASSUME NEW s, NEW request, Flush(s, request) PROVE RetransmissionArmed'
  BY <1>3, <1>8 DEF Flush, timers
<1>9. ASSUME NEW s, flush_timer_cb(s) \/ skip_stream(s) \/ skip_timer_cb(s) PROVE RetransmissionArmed'
  <2>1. /\ sent_packets' \subseteq sent_packets /\ lost_packets' \subseteq lost_packets
        /\ send_queue' = send_queue /\ tlp' = tlp
    BY <1>9 DEF flush_timer_cb, skip_stream, skip_timer_cb, sender, timers
  <2>2. up' => up
    BY <1>9 DEF flush_timer_cb, skip_stream, skip_timer_cb
  <2>. QED BY <1>3, <2>1, <2>2
<1>10. ASSUME NEW m, did_recv_DATA(m) \/ did_recv_FLUSHSTREAM(m) \/ did_recv_FLUSHCONF(m)
                     \/ ack_timer_cb \/ Lose(m)
       PROVE  RetransmissionArmed'
  <2>1. /\ sent_packets' \subseteq sent_packets /\ lost_packets' \subseteq lost_packets
        /\ send_queue' = send_queue /\ tlp' = tlp /\ (up' => up)
    BY <1>10 DEF did_recv_DATA, did_recv_FLUSHSTREAM, did_recv_FLUSHCONF, ack_timer_cb, Lose, sender, timers
  <2>. QED BY <1>3, <2>1
<1>11. ASSUME NEW m, did_recv_SKIPSTREAM(m) PROVE RetransmissionArmed'
  <2>1. CASE Flush(m.stream, {m})
    BY <1>8, <2>1
  <2>2. CASE UNCHANGED <<sender, receiver, up, lost>>
    BY <1>3, <2>2 DEF sender, timers
  <2>. QED BY <1>11, <2>1, <2>2 DEF did_recv_SKIPSTREAM
<1>12. ASSUME NEW m, did_recv(m) PROVE RetransmissionArmed'
  BY <1>7, <1>10, <1>11, <1>12 DEF did_recv
<1>. QED BY <1>4, <1>5, <1>6, <1>8, <1>9, <1>10, <1>12 DEF Next, Receive, flush_stream

(* While anything waits for an ack, for retransmission or for room in the  *)
(* window, the tail loss probe is armed, through every sequence of acks,   *)
(* losses and flushes.                                                     *)
THEOREM ArmedWhileWaiting == Spec => []RetransmissionArmed
<1>1. Init => RetransmissionArmed
  BY DEF Init, RetransmissionArmed
<1>2. Base /\ RetransmissionArmed /\ [Next]_vars => RetransmissionArmed'
  <2>1. Base /\ RetransmissionArmed /\ UNCHANGED vars => RetransmissionArmed'
    BY DEF vars, sender, timers, RetransmissionArmed
  <2>. QED BY <2>1, ArmedStep
<1>. QED BY <1>1, <1>2, BaseAlways, PTL DEF Spec

-----------------------------------------------------------------------------
(* What is acked was received                                              *)

(* DATA makes the receiver forget nothing.                                 *)
LEMMA DataReceives ==
  ASSUME Base, NEW m \in net, did_recv_DATA(m), NEW s \in Streams
  PROVE  /\ rcv[s].read_offset <= rcv'[s].read_offset
         /\ \A byte \in Nat : Received(s, byte) => Received(s, byte)'
<1>. DEFINE pn == m.packet_number  pkt == Packet(pn)
<1>1. LogOK /\ SndOK /\ RcvOK /\ MessageOK(m) /\ m.type = "DATA"
  BY DEF Base, NetOK, did_recv_DATA
<1>2. rcv[s].read_offset \in Nat /\ rcv \in [Streams -> RecvStream]
  BY <1>1, KeptWasSent DEF RcvOK
<1>3. CASE rcv'[s] = rcv[s]
  BY <1>2, <1>3 DEF Received, Covers, End
<1>4. CASE rcv'[s] # rcv[s]
  <2>1. rcv' = [rcv EXCEPT ![pkt.stream] = Accept(rcv[pkt.stream], pkt)]
    BY <1>4 DEF did_recv_DATA, receiver
  <2>2. /\ pkt \in Packets /\ pkt.stream \in Streams
        /\ End(pkt) <= snd[pkt.stream].sent_offset
        /\ \A r \in rcv[pkt.stream].recv_packets : r.offset = pkt.offset => r = RangeOf(pkt)
    BY <1>1, BroughtIs
  <2>3. s = pkt.stream /\ rcv'[s] = Accept(rcv[s], pkt)
    BY <1>2, <1>4, <2>1, <2>2
  <2>4. /\ rcv[s] \in RecvStream
        /\ snd[s].sent_offset \in Offset /\ rcv[s].read_offset <= snd[s].sent_offset
        /\ \A r \in rcv[s].recv_packets : End(r) <= snd[s].sent_offset
    <3>1. snd[s].sent_offset \in Offset
      BY <1>1, Facts DEF SendStream
    <3>2. rcv[s].read_offset <= snd[s].sent_offset
      BY <1>1 DEF RcvOK
    <3>. QED BY <1>1, <3>1, <3>2, KeptWasSent
  <2>. DEFINE new == Accept(rcv[s], pkt)
  <2>5. /\ rcv[s].read_offset <= new.read_offset
        /\ \A byte \in Nat :
             byte < rcv[s].read_offset \/ (\E r \in rcv[s].recv_packets : Covers(r, byte)) \/ Covers(pkt, byte) =>
               byte < new.read_offset \/ \E r \in new.recv_packets : Covers(r, byte)
    <3>. HIDE DEF pkt
    <3>. QED BY <2>2, <2>3, <2>4, AcceptIs
  <2>6. rcv'[s] = new
    BY <2>3
  <2>. HIDE DEF new
  <2>. QED BY <2>5, <2>6 DEF Received, Covers, End
<1>. QED BY <1>3, <1>4

(* The receiver forgets nothing, and read_offset never moves back.         *)
LEMMA ReceivedStays ==
  ASSUME Base, [Next]_vars, NEW s \in Streams
  PROVE  /\ rcv[s].read_offset <= rcv'[s].read_offset
         /\ \A byte \in Nat : Received(s, byte) => Received(s, byte)'
<1>. DEFINE Goal == /\ rcv[s].read_offset <= rcv'[s].read_offset
                    /\ \A byte \in Nat : Received(s, byte) => Received(s, byte)'
<1>1. rcv[s].read_offset \in Nat /\ DOMAIN rcv = Streams /\ rcv[s] \in RecvStream
      /\ rcv \in [Streams -> RecvStream]
  BY KeptWasSent DEF Base, RcvOK
<1>2. ASSUME rcv'[s] = rcv[s] PROVE Goal
  BY <1>1, <1>2 DEF Received, Covers, End
<1>3. ASSUME NEW m \in net, did_recv_FLUSHSTREAM(m) PROVE Goal
  <2>1. CASE rcv'[s] = rcv[s]
    BY <1>2, <2>1
  <2>2. CASE rcv'[s] # rcv[s]
    <3>1. /\ m \in Message /\ m.type = "FLUSHSTREAM"
      BY <1>3 DEF Base, NetOK, MessageOK, did_recv_FLUSHSTREAM
    <3>2. m.offset \in Nat
      BY <3>1, BoundsAssumption DEF Message, Offset
    <3>3. /\ m.stream = s /\ ~(rcv[s].read_offset >= m.offset)
          /\ rcv' = [rcv EXCEPT ![s].read_offset = m.offset,
                                ![s].wait_flush = FALSE, ![s].skip_timer = 0]
      BY <1>1, <1>3, <2>2 DEF did_recv_FLUSHSTREAM
    <3>4. rcv'[s].read_offset = m.offset /\ rcv'[s].recv_packets = rcv[s].recv_packets
      BY <1>1, <3>3 DEF RecvStream
    <3>5. rcv[s].read_offset < m.offset
      BY <1>1, <3>2, <3>3
    <3>6. \A byte \in Nat : byte < rcv[s].read_offset => byte < m.offset
      BY <1>1, <3>2, <3>5
    <3>. QED BY <1>1, <3>2, <3>4, <3>5, <3>6 DEF Received, Covers, End
  <2>. QED BY <2>1, <2>2
<1>4. ASSUME NEW x \in Streams, skip_stream(x) \/ skip_timer_cb(x) PROVE Goal
  <2>1. \/ rcv' = rcv
        \/ rcv' = [rcv EXCEPT ![x].skip_timer = 2 * @]
        \/ rcv' = [rcv EXCEPT ![x].wait_flush = TRUE, ![x].skip_timer = 1]
    BY <1>4 DEF skip_stream, skip_timer_cb
  <2>2. rcv'[s].read_offset = rcv[s].read_offset /\ rcv'[s].recv_packets = rcv[s].recv_packets
    BY <1>1, <2>1 DEF RecvStream
  <2>. QED BY <1>1, <2>2 DEF Received, Covers, End
<1>5. ASSUME NEW m \in net, did_recv(m) PROVE Goal
  <2>1. CASE did_recv_DATA(m)
    BY <2>1, DataReceives
  <2>2. CASE did_recv_ACK(m) \/ did_recv_SKIPSTREAM(m) \/ did_recv_FLUSHCONF(m)
    BY <1>2, <2>2 DEF did_recv_ACK, did_recv_SKIPSTREAM, did_recv_FLUSHCONF, Flush, receiver
  <2>. QED BY <1>3, <1>5, <2>1, <2>2 DEF did_recv
<1>6. ASSUME NEW x \in Streams, NEW size \in Sizes,
             send(x, size) \/ flush_stream(x) \/ flush_timer_cb(x)
      PROVE  Goal
  BY <1>2, <1>6 DEF send, flush_stream, Flush, flush_timer_cb, receiver
<1>7. ASSUME pacing_timer_cb \/ tlp_timer_cb \/ ack_timer_cb \/ (\E m \in net : Lose(m)) \/ UNCHANGED vars
      PROVE  Goal
  BY <1>2, <1>7 DEF pacing_timer_cb, tlp_timer_cb, ack_timer_cb, Lose, vars, receiver
<1>8. CASE UNCHANGED vars
  BY <1>7, <1>8
<1>9. CASE \E x \in Streams : \E size \in Sizes : send(x, size)
  BY <1>6, <1>9
<1>10. CASE \E x \in Streams : flush_stream(x) \/ flush_timer_cb(x)
  <2>1. PICK x \in Streams : flush_stream(x) \/ flush_timer_cb(x)
    BY <1>10
  <2>. QED BY <1>2, <2>1 DEF flush_stream, Flush, flush_timer_cb, receiver
<1>11. CASE \E x \in Streams : skip_stream(x) \/ skip_timer_cb(x)
  BY <1>4, <1>11
<1>. QED BY <1>5, <1>7, <1>8, <1>9, <1>10, <1>11 DEF Next, Receive

(* What acks count as received was: before a stream's last flush it does   *)
(* not matter.                                                             *)
Backed(s, byte) ==
  byte < snd[s].acked_offset \/ \E r \in snd[s].outstanding_acks : Covers(r, byte)

(* No step lets the sender count more as acked than the receiver has.      *)
LEMMA AckedStep ==
  ASSUME Base, AckedIsReceived, [Next]_vars
  PROVE  AckedIsReceived'
<1>1. LogOK /\ SndOK /\ RcvOK /\ NetOK /\ MaxBytes \in Nat
  BY BoundsAssumption DEF Base
<1>2. ASSUME NEW s \in Streams, NEW byte \in flushed[s] .. MaxBytes, Backed(s, byte)
      PROVE  Received(s, byte)'
  <2>1. flushed[s] \in Nat /\ byte \in Nat
    BY <1>1, Facts
  <2>2. Received(s, byte)
    BY <1>2 DEF AckedIsReceived, Backed, Received
  <2>. QED BY <2>1, <2>2, ReceivedStays
\* it is enough that nothing new is counted
<1>3. ASSUME \A s \in Streams : \A byte \in flushed'[s] .. MaxBytes :
               Backed(s, byte)' => Received(s, byte)'
      PROVE  AckedIsReceived'
  BY <1>3 DEF AckedIsReceived, Backed, Received, Covers, End
<1>4. ASSUME flushed' = flushed,
             \A s \in Streams : snd'[s].acked_offset = snd[s].acked_offset
                                /\ snd'[s].outstanding_acks = snd[s].outstanding_acks
      PROVE  AckedIsReceived'
  <2>1. ASSUME NEW s \in Streams, NEW byte \in flushed'[s] .. MaxBytes, Backed(s, byte)'
        PROVE  Received(s, byte)'
    <3>1. Backed(s, byte)
      BY <1>4, <2>1 DEF Backed, Covers, End
    <3>. QED BY <1>2, <1>4, <2>1, <3>1
  <2>. QED BY <1>3, <2>1
<1>5. ASSUME NEW m \in net, did_recv_ACK(m) PROVE AckedIsReceived'
  <2>1. PICK acked : acked = NewlyAcked(m) /\ snd' = [s \in Streams |-> AckStream(acked, s)]
    BY <1>5 DEF did_recv_ACK
  <2>2. flushed' = flushed /\ rcv' = rcv
    BY <1>5 DEF did_recv_ACK, receiver
  <2>3. m.type = "ACK" /\ MessageOK(m) /\ acked \subseteq sent_packets /\ acked \subseteq Seen(m)
    BY <1>1, <1>5, <2>1 DEF did_recv_ACK, NetOK, NewlyAcked
  <2>4. acked \subseteq 0 .. Len(log) - 1 /\ acked \subseteq arrived
    BY <1>1, <2>3 DEF LogOK, MessageOK
  <2>5. ASSUME NEW s \in Streams, NEW byte \in flushed'[s] .. MaxBytes, Backed(s, byte)'
        PROVE  Received(s, byte)'
    <3>. DEFINE new == AckStream(acked, s)
                ranges == AckedRanges(acked, s) \cup snd[s].outstanding_acks
    <3>1. /\ new.acked_offset \in Nat /\ new.outstanding_acks \subseteq ranges
          /\ \A b \in snd[s].acked_offset .. new.acked_offset - 1 : \E k \in ranges : Covers(k, b)
      BY <1>1, <2>4, AckStreamIs
    <3>2. snd'[s] = new
      BY <2>1
    <3>3. byte \in Nat /\ byte \in flushed[s] .. MaxBytes /\ snd[s].acked_offset \in Nat
      BY <1>1, <2>2, Facts
    <3>. HIDE DEF new
    <3>4. byte < new.acked_offset \/ \E r \in new.outstanding_acks : Covers(r, byte)
      BY <2>5, <3>2 DEF Backed, Covers, End
    <3>. HIDE DEF ranges
    <3>5. byte < snd[s].acked_offset \/ \E k \in ranges : Covers(k, byte)
      BY <3>1, <3>3, <3>4
    <3>6. CASE Backed(s, byte)
      BY <1>2, <3>3, <3>6
    <3>7. CASE \E k \in AckedRanges(acked, s) : Covers(k, byte)
      <4>1. PICK pn \in acked : Packet(pn).stream = s /\ Covers(RangeOf(Packet(pn)), byte)
        BY <3>7 DEF AckedRanges
      <4>2. Covers(Packet(pn), byte)
        BY <4>1 DEF Covers, RangeOf, End
      <4>3. Received(s, byte)
        BY <1>1, <2>4, <3>3, <4>1, <4>2 DEF RcvOK
      <4>. QED BY <3>3, <4>3, ReceivedStays
    <3>. QED BY <3>5, <3>6, <3>7 DEF Backed, ranges
  <2>. QED BY <1>3, <2>5
<1>6. ASSUME NEW s \in Streams, NEW request, Flush(s, request) PROVE AckedIsReceived'
  <2>1. DOMAIN snd = Streams /\ flushed \in [Streams -> Offset] /\ snd[s] \in SendStream
        /\ snd[s].sent_offset \in Nat
    BY <1>1, Facts DEF SndOK
  <2>2. snd' = [snd EXCEPT ![s] = Emptied(snd[s])] /\ flushed' = [flushed EXCEPT ![s] = snd[s].sent_offset]
    BY <1>6 DEF Flush
  <2>3. ASSUME NEW x \in Streams, NEW byte \in flushed'[x] .. MaxBytes, Backed(x, byte)'
        PROVE  Received(x, byte)'
    <3>1. CASE x = s
      <4>1. flushed'[s] = snd[s].sent_offset /\ snd'[s] = Emptied(snd[s])
        BY <2>1, <2>2
      <4>2. snd'[s].acked_offset = snd[s].sent_offset /\ snd'[s].outstanding_acks = {}
        BY <2>1, <4>1 DEF Emptied, SendStream
      <4>3. byte >= snd[s].sent_offset /\ byte \in Nat
        BY <1>1, <2>1, <3>1, <4>1
      <4>4. byte < snd[s].sent_offset
        BY <2>3, <3>1, <4>2 DEF Backed
      <4>. QED BY <2>1, <4>3, <4>4
    <3>2. CASE x # s
      <4>1. snd'[x] = snd[x] /\ flushed'[x] = flushed[x]
        BY <2>1, <2>2, <3>2
      <4>2. Backed(x, byte)
        BY <2>3, <4>1 DEF Backed, Covers, End
      <4>. QED BY <1>2, <4>1, <4>2
    <3>. QED BY <3>1, <3>2
  <2>. QED BY <1>3, <2>3
<1>7. ASSUME NEW s \in Streams, NEW size \in Sizes, send(s, size) PROVE AckedIsReceived'
  <2>1. snd' = [snd EXCEPT
          ![s].data_queue = Append(@, [offset |-> snd[s].queue_offset, size |-> size]),
          ![s].queue_offset = @ + size] /\ flushed' = flushed
    BY <1>7 DEF send
  <2>2. DOMAIN snd = Streams /\ \A x \in Streams : snd[x] \in SendStream
    BY <1>1, Facts DEF SndOK
  <2>3. \A x \in Streams : snd'[x].acked_offset = snd[x].acked_offset
                           /\ snd'[x].outstanding_acks = snd[x].outstanding_acks
    BY <2>1, <2>2 DEF SendStream
  <2>. QED BY <1>4, <2>1, <2>3
<1>8. ASSUME NEW s \in Streams, NEW timer,
             snd' = snd \/ snd' = [snd EXCEPT ![s].flush_timer = timer], flushed' = flushed
      PROVE  AckedIsReceived'
  <2>1. DOMAIN snd = Streams /\ \A x \in Streams : snd[x] \in SendStream
    BY <1>1, Facts DEF SndOK
  <2>2. \A x \in Streams : snd'[x].acked_offset = snd[x].acked_offset
                           /\ snd'[x].outstanding_acks = snd[x].outstanding_acks
    BY <1>8, <2>1 DEF SendStream
  <2>. QED BY <1>4, <1>8, <2>2
<1>9. ASSUME pacing_timer_cb PROVE AckedIsReceived'
  <2>1. PICK n \in 0 .. Len(Backlog) : SendRound(Backlog, n)
    BY <1>9 DEF pacing_timer_cb
  <2>2. Sent(n)
    BY <2>1, RoundSends DEF Base
  <2>3. \A x \in Streams : snd'[x] = [snd[x] EXCEPT !.sent_offset = snd'[x].sent_offset]
                           /\ snd[x] \in SendStream
    BY <1>1, <2>2, Facts DEF Sent
  <2>4. ASSUME NEW x \in Streams
        PROVE  snd'[x].acked_offset = snd[x].acked_offset
               /\ snd'[x].outstanding_acks = snd[x].outstanding_acks
    <3>. DEFINE o == snd'[x].sent_offset
    <3>1. snd'[x] = [snd[x] EXCEPT !.sent_offset = o] /\ snd[x] \in SendStream
      BY <2>3
    <3>. HIDE DEF o
    <3>. QED BY <3>1 DEF SendStream
  <2>. QED BY <1>4, <1>9, <2>4 DEF pacing_timer_cb
<1>10. ASSUME snd' = snd, flushed' = flushed PROVE AckedIsReceived'
  BY <1>4, <1>10
<1>11. ASSUME NEW s \in Streams, flush_timer_cb(s) PROVE AckedIsReceived'
  <2>1. snd' = snd \/ snd' = [snd EXCEPT ![s].flush_timer = 2 * snd[s].flush_timer]
    BY <1>11 DEF flush_timer_cb
  <2>2. flushed' = flushed
    BY <1>11 DEF flush_timer_cb
  <2>. QED BY <1>8, <2>1, <2>2
<1>12. ASSUME NEW m \in net, did_recv(m) PROVE AckedIsReceived'
  <2>1. CASE did_recv_FLUSHCONF(m)
    <3>1. m.stream \in Streams
      BY <1>1, <2>1 DEF NetOK, MessageOK, Message, did_recv_FLUSHCONF
    <3>2. snd' = [snd EXCEPT ![m.stream].flush_timer = 0] /\ flushed' = flushed
      BY <2>1 DEF did_recv_FLUSHCONF
    <3>. QED BY <1>8, <3>1, <3>2
  <2>2. CASE did_recv_SKIPSTREAM(m)
    <3>1. m.stream \in Streams
      BY <1>1, <2>2 DEF NetOK, MessageOK, Message, did_recv_SKIPSTREAM
    <3>2. CASE Flush(m.stream, {m})
      BY <1>6, <3>1, <3>2
    <3>3. CASE UNCHANGED <<sender, receiver, up, lost>>
      BY <1>10, <3>3 DEF sender
    <3>. QED BY <2>2, <3>2, <3>3 DEF did_recv_SKIPSTREAM
  <2>3. CASE did_recv_DATA(m) \/ did_recv_FLUSHSTREAM(m)
    BY <1>10, <2>3 DEF did_recv_DATA, did_recv_FLUSHSTREAM, sender
  <2>. QED BY <1>5, <1>12, <2>1, <2>2, <2>3 DEF did_recv
<1>13. ASSUME NEW s \in Streams, skip_stream(s) \/ skip_timer_cb(s) PROVE AckedIsReceived'
  BY <1>10, <1>13 DEF skip_stream, skip_timer_cb, sender
<1>14. CASE tlp_timer_cb \/ ack_timer_cb \/ (\E m \in net : Lose(m)) \/ UNCHANGED vars
  BY <1>10, <1>14 DEF tlp_timer_cb, ack_timer_cb, Lose, sender, vars
<1>15. CASE \E s \in Streams : \E size \in Sizes : send(s, size)
  BY <1>7, <1>15
<1>16. CASE \E s \in Streams : flush_stream(s)
  BY <1>6, <1>16 DEF flush_stream
<1>17. CASE \E s \in Streams : flush_timer_cb(s) \/ skip_stream(s) \/ skip_timer_cb(s)
  BY <1>11, <1>13, <1>17
<1>. QED BY <1>9, <1>12, <1>14, <1>15, <1>16, <1>17 DEF Next, Receive

(* The sender counts a byte as acked, in order or out of order, only when  *)
(* the receiver has it, however acks and data were lost, repeated or       *)
(* reordered (did_recv_ACK's walk against did_recv_DATA).                  *)
THEOREM AckedAlwaysReceived == Spec => []AckedIsReceived
<1>1. Init => AckedIsReceived
  <2>. SUFFICES ASSUME Init, NEW s \in Streams, NEW byte \in flushed[s] .. MaxBytes
                PROVE  ~(byte < snd[s].acked_offset) /\ snd[s].outstanding_acks = {}
    BY DEF AckedIsReceived
  <2>1. flushed[s] = 0 /\ snd[s].acked_offset = 0 /\ snd[s].outstanding_acks = {}
    BY DEF Init
  <2>2. byte >= 0
    BY <2>1, BoundsAssumption
  <2>. QED BY <2>1, <2>2
<1>2. Base /\ AckedIsReceived /\ [Next]_vars => AckedIsReceived'
  BY AckedStep
<1>. QED BY <1>1, <1>2, BaseAlways, PTL DEF Spec

-----------------------------------------------------------------------------
(* Bytes in flight                                                         *)

(* The bytes of the packets numbered 0 .. n - 1 that are among pns.        *)
LEMMA LengthAdds ==
  ASSUME LogOK, SndOK, NEW A, NEW B, A \cap B = {}
  PROVE  Length(A \cup B) = Length(A) + Length(B)
<1>. DEFINE n == Len(log)
            a == [i \in 1 .. Len(log) |-> IF i - 1 \in A THEN log[i].length ELSE 0]
            b == [i \in 1 .. Len(log) |-> IF i - 1 \in B THEN log[i].length ELSE 0]
            c == [i \in 1 .. Len(log) |-> IF i - 1 \in A \cup B THEN log[i].length ELSE 0]
<1>1. n \in Nat /\ \A i \in 1 .. n : log[i].length \in Nat
  BY Facts
<1>2. \A i \in 1 .. n : a[i] \in Int /\ b[i] \in Int /\ c[i] = a[i] + b[i]
  BY <1>1
<1>3. Length(A \cup B) = Total(c, n) /\ Length(A) = Total(a, n) /\ Length(B) = Total(b, n)
  BY DEF Length
<1>. HIDE DEF a, b, c, n
<1>4. Total(c, n) = Total(a, n) + Total(b, n)
  BY <1>1, <1>2, TotalAdds
<1>. QED BY <1>3, <1>4

(* No packets, no bytes.                                                   *)
LEMMA LengthOfNone ==
  ASSUME LogOK, SndOK
  PROVE  Length({}) = 0
<1>1. Length({} \cup {}) = Length({}) + Length({})
  BY LengthAdds
<1>2. {} \cup {} = {}
  OBVIOUS
<1>3. Length({}) = Length({}) + Length({})
  BY <1>1, <1>2, Zenon
<1>4. Length({}) \in Nat
  BY LengthIs
<1>5. ASSUME NEW x \in Nat, x = x + x PROVE x = 0
  BY <1>5
<1>. QED BY <1>3, <1>4, <1>5, Zenon

(* What the counter has to hold after a step that takes packets out of     *)
(* flight.                                                                 *)
LEMMA TakenOut ==
  ASSUME LogOK, SndOK, NEW gone, gone \subseteq sent_packets,
         bytes_in_flight = Length(sent_packets)
  PROVE  Minus(bytes_in_flight, Length(gone)) = Length(sent_packets \ gone)
<1>. DEFINE rest == sent_packets \ gone  x == Length(rest)  y == Length(gone)
<1>1. rest \cap gone = {} /\ rest \cup gone = sent_packets
  OBVIOUS
<1>2. Length(sent_packets) = x + y
  <2>. HIDE DEF rest
  <2>1. Length(rest \cup gone) = Length(rest) + Length(gone)
    BY <1>1, LengthAdds
  <2>. QED BY <1>1, <2>1
<1>3. x \in Nat /\ x < Word /\ y \in Nat
  BY LengthIs
<1>. DEFINE w == Word  z == bytes_in_flight - y
<1>. HIDE DEF x, y, rest
<1>4. z = x
  BY <1>2, <1>3
<1>5. w \in Nat /\ x < w
  BY <1>3, BoundsAssumption
<1>. HIDE DEF w, z
<1>6. z % w = x
  BY <1>3, <1>4, <1>5
<1>. QED BY <1>6 DEF Minus, w, x, y, z, rest

(* What it has to hold after a round.                                      *)
LEMMA PutIn ==
  ASSUME LogOK, SndOK, ControlOK, NEW n \in 0 .. Len(Backlog), SendRound(Backlog, n),
         bytes_in_flight = Length(sent_packets)
  PROVE  bytes_in_flight' = Length(sent_packets)'
<1>. DEFINE k == Len(log)
            a == [i \in 1 .. Len(log) |-> IF i - 1 \in sent_packets THEN log[i].length ELSE 0]
            b == [i \in DOMAIN Backlog |-> Backlog[i].length]
            d == [i \in 1 .. Len(log') |-> IF i - 1 \in sent_packets' THEN log'[i].length ELSE 0]
<1>1. /\ n \in Nat /\ k \in Nat /\ log' \in Seq(Packets) /\ Len(log') = k + n
      /\ \A i \in 1 .. k : log'[i] = log[i]
      /\ \A i \in 1 .. n : log'[k + i] = Backlog[i]
  BY RoundSends DEF Sent
<1>2. /\ sent_packets' = sent_packets \cup (k .. k + n - 1) /\ k + n <= MaxPackets
      /\ bytes_in_flight' = Plus(bytes_in_flight, Bytes(Backlog, n))
  BY DEF SendRound
<1>3. sent_packets \subseteq 0 .. k - 1
  BY DEF LogOK
<1>4. /\ Len(Backlog) \in Nat /\ n <= Len(Backlog) /\ DOMAIN Backlog = 1 .. Len(Backlog)
      /\ \A i \in 1 .. n : Backlog[i] \in Packets
  <2>1. Backlog \in Seq(Packets) /\ Len(Backlog) \in Nat
    BY BacklogIs
  <2>2. n <= Len(Backlog)
    BY <2>1
  <2>3. \A i \in 1 .. n : i \in 1 .. Len(Backlog)
    BY <1>1, <2>1, <2>2
  <2>. QED BY <2>1, <2>2, <2>3, ElementOfSeq, LenProperties
<1>5. \A i \in 1 .. k : log[i].length \in 0 .. Fragment /\ Fragment \in Nat
  BY Facts
<1>6. \A i \in 1 .. n : Backlog[i].length \in 0 .. Fragment
  BY <1>4, <1>5, SizesAssumption DEF Packets
<1>7. Length(sent_packets) = Total(a, k) /\ Bytes(Backlog, n) = Total(b, n)
      /\ Length(sent_packets)' = Total(d, k + n)
  BY <1>1 DEF Length, Bytes
<1>8. \A i \in 1 .. k : a[i] \in 0 .. Fragment /\ d[i] = a[i]
  <2>1. SUFFICES ASSUME NEW i \in 1 .. k PROVE a[i] \in 0 .. Fragment /\ d[i] = a[i]
    OBVIOUS
  <2>2. i \in 1 .. Len(log') /\ (i - 1 \in sent_packets' <=> i - 1 \in sent_packets)
    BY <1>1, <1>2
  <2>. QED BY <1>1, <1>5, <2>2
<1>9. \A i \in 1 .. n : b[i] \in 0 .. Fragment /\ d[k + i] = b[i]
  <2>1. SUFFICES ASSUME NEW i \in 1 .. n PROVE b[i] \in 0 .. Fragment /\ d[k + i] = b[i]
    OBVIOUS
  <2>2. k + i \in 1 .. Len(log') /\ (k + i) - 1 \in sent_packets' /\ i \in DOMAIN Backlog
    BY <1>1, <1>2, <1>4
  <2>3. b[i] = Backlog[i].length
    BY <2>2
  <2>4. d[k + i] = log'[k + i].length
    BY <2>2
  <2>5. log'[k + i] = Backlog[i]
    BY <1>1
  <2>. QED BY <1>6, <2>3, <2>4, <2>5
<1>. HIDE DEF a, b, d, k
<1>10. Fragment \in Nat /\ MaxPackets \in Nat
  BY SizesAssumption, BoundsAssumption
<1>11. Total(d, k + n) = Total(a, k) + Total(b, n)
  <2>1. \A i \in 1 .. k : a[i] \in Int /\ d[i] = a[i]
    BY <1>8, <1>10
  <2>2. \A i \in 1 .. n : b[i] \in Int /\ d[k + i] = b[i]
    BY <1>9, <1>10
  <2>3. k \in Nat /\ n \in Nat
    BY <1>1
  <2>. QED BY <2>1, <2>2, <2>3, TotalSplits
<1>12. Total(d, k + n) \in Nat /\ Total(d, k + n) < Word
  <2>. DEFINE N == k + n
  <2>1. N \in Nat /\ N <= MaxPackets
    BY <1>1, <1>2
  <2>2. \A i \in 1 .. N : d[i] \in 0 .. Fragment
    <3>1. SUFFICES ASSUME NEW i \in 1 .. N PROVE d[i] \in 0 .. Fragment
      OBVIOUS
    <3>2. CASE i <= k
      <4>1. i \in 1 .. k
        BY <1>1, <3>2
      <4>. QED BY <1>8, <4>1
    <3>3. CASE i > k
      <4>. DEFINE j == i - k
      <4>1. j \in 1 .. n /\ k + j = i
        BY <1>1, <3>3
      <4>. HIDE DEF j
      <4>. QED BY <1>9, <4>1
    <3>. QED BY <1>1, <3>2, <3>3
  <2>. HIDE DEF N
  <2>3. Total(d, N) \in Nat /\ Total(d, N) <= N * Fragment
    BY <1>10, <2>1, <2>2, TotalBetween
  <2>4. N * Fragment \in Nat /\ MaxPackets * Fragment \in Nat /\ N * Fragment <= MaxPackets * Fragment
    <3>1. Fragment \in Nat \ {0} /\ (N < MaxPackets \/ N = MaxPackets)
      BY <1>10, <2>1, SizesAssumption
    <3>2. /\ N * Fragment \in Nat /\ MaxPackets * Fragment \in Nat
          /\ (N < MaxPackets => N * Fragment + Fragment <= MaxPackets * Fragment)
      BY <1>10, <2>1, <3>1, Multiples
    <3>3. N = MaxPackets => N * Fragment = MaxPackets * Fragment
      OBVIOUS
    <3>. DEFINE u == N * Fragment  v == MaxPackets * Fragment
    <3>. HIDE DEF u, v
    <3>4. u <= v
      <4>1. u \in Nat /\ v \in Nat /\ (N < MaxPackets => u + Fragment <= v) /\ (N = MaxPackets => u = v)
        BY <3>2, <3>3 DEF u, v
      <4>. QED BY <1>10, <3>1, <4>1
    <3>. QED BY <3>2, <3>4 DEF u, v
  <2>5. Word \in Nat /\ Word > MaxPackets * Fragment
    BY BoundsAssumption
  <2>6. Total(d, N) < Word
    <3>. DEFINE u == N * Fragment  v == MaxPackets * Fragment
    <3>1. u \in Nat /\ v \in Nat /\ u <= v /\ Word > v /\ Total(d, N) <= u
      BY <2>3, <2>4, <2>5
    <3>. HIDE DEF u, v
    <3>. QED BY <2>3, <2>5, <3>1
  <2>. QED BY <2>3, <2>6 DEF N
<1>. DEFINE w == Word  x == Total(d, k + n)  z == bytes_in_flight + Bytes(Backlog, n)
<1>13. z = x
  BY <1>7, <1>11
<1>14. w \in Nat /\ x \in Nat /\ x < w
  BY <1>12, BoundsAssumption
<1>. HIDE DEF w, x, z
<1>15. z % w = x
  BY <1>13, <1>14
<1>16. bytes_in_flight' = z % w
  BY <1>2 DEF Plus, w, z
<1>. QED BY <1>7, <1>15, <1>16 DEF x

-----------------------------------------------------------------------------
(* Until the first flush                                                   *)

(* What holds as long as nothing was flushed.  A flush breaks it: it takes *)
(* the lost packets off bytes_in_flight a second time, and its retries     *)
(* move the receiver past data it keeps.                                   *)
Quiet ==
  /\ BytesInFlightExact /\ NoReadyDataHeld
  /\ \A s \in Streams : flushed[s] = 0 /\ snd[s].flush_timer = 0
  /\ \A m \in net : m.type = "FLUSHSTREAM" => m.offset <= snd[m.stream].acked_offset

(* So much holds until the first flush.                                    *)
Calm == flushes = 0 => Quiet

(* What the sender counts as acked in order was handed over.               *)
LEMMA AckedIsRead ==
  ASSUME Base, AckedIsReceived, Quiet, NEW s \in Streams
  PROVE  snd[s].acked_offset <= rcv[s].read_offset
<1>1. LogOK /\ SndOK /\ RcvOK /\ MaxBytes \in Nat
  BY BoundsAssumption DEF Base
<1>. DEFINE read == rcv[s].read_offset  acked == snd[s].acked_offset
<1>2. /\ read \in Nat /\ acked \in Nat /\ acked \in 0 .. MaxBytes /\ flushed[s] = 0
      /\ \A r \in rcv[s].recv_packets : r.offset \in Nat /\ r.offset > read
  <2>1. acked \in 0 .. MaxBytes
    BY <1>1, Facts DEF SendStream, Offset
  <2>. QED BY <1>1, <2>1, KeptWasSent DEF Quiet, NoReadyDataHeld
<1>3. ASSUME read < acked PROVE FALSE
  <2>1. read \in flushed[s] .. MaxBytes
    BY <1>1, <1>2, <1>3
  <2>2. read < rcv[s].read_offset \/ \E r \in rcv[s].recv_packets : Covers(r, read)
    BY <1>3, <2>1 DEF AckedIsReceived
  <2>3. PICK r \in rcv[s].recv_packets : Covers(r, read)
    BY <1>2, <2>2
  <2>. QED BY <1>2, <2>3 DEF Covers
<1>. QED BY <1>2, <1>3

(* A packet that is taken leaves nothing that could be handed over.        *)
LEMMA AcceptDrains ==
  ASSUME NEW st \in RecvStream, NEW pkt \in Packets,
         \A r \in st.recv_packets : r.offset > st.read_offset
  PROVE  \A r \in Accept(st, pkt).recv_packets : r.offset > Accept(st, pkt).read_offset
<1>. DEFINE all == st.recv_packets \cup {RangeOf(pkt)}
            read == Extend(st.read_offset, all)
            known == \E k \in st.recv_packets : k.offset = pkt.offset
            packets == IF known THEN st.recv_packets ELSE all
<1>1. st.read_offset \in Nat /\ pkt.offset \in Nat /\ End(pkt) \in Nat /\ RangeOf(pkt).offset = pkt.offset
  BY BoundsAssumption, SizesAssumption DEF RecvStream, Packets, Offset, End, RangeOf
<1>2. Accept(st, pkt) =
        CASE End(pkt) <= st.read_offset -> st
          [] pkt.offset <= st.read_offset /\ End(pkt) > st.read_offset ->
               [st EXCEPT !.read_offset = read, !.recv_packets = Beyond(read, all)]
          [] OTHER -> [st EXCEPT !.recv_packets = IF known THEN @ ELSE all]
  BY DEF Accept
<1>. HIDE DEF read, known
<1>3. CASE End(pkt) <= st.read_offset
  <2>1. Accept(st, pkt) = st
    <3>1. ~(End(pkt) > st.read_offset)
      BY <1>1, <1>3
    <3>. HIDE DEF all
    <3>. QED BY <1>2, <1>3, <3>1
  <2>. QED BY <2>1
<1>4. CASE ~(End(pkt) <= st.read_offset) /\ pkt.offset <= st.read_offset
  <2>. DEFINE new == [st EXCEPT !.read_offset = read, !.recv_packets = Beyond(read, all)]
  <2>1. Accept(st, pkt) = new
    <3>1. End(pkt) > st.read_offset
      BY <1>1, <1>4
    <3>. HIDE DEF all
    <3>. QED BY <1>2, <1>4, <3>1
  <2>2. new.read_offset = read /\ new.recv_packets = Beyond(read, all)
    <3>. HIDE DEF all
    <3>. QED BY DEF RecvStream
  <2>3. \A r \in Beyond(read, all) : r.offset > read
    <3>. HIDE DEF all
    <3>. QED BY DEF Beyond
  <2>. HIDE DEF new, all
  <2>. QED BY <2>1, <2>2, <2>3
<1>5. CASE ~(End(pkt) <= st.read_offset) /\ ~(pkt.offset <= st.read_offset)
  <2>. DEFINE new == [st EXCEPT !.recv_packets = packets]
  <2>1. Accept(st, pkt) = new
    <3>1. Accept(st, pkt) = [st EXCEPT !.recv_packets = IF known THEN @ ELSE all]
      <4>. HIDE DEF all
      <4>. QED BY <1>2, <1>5
    <3>. HIDE DEF all
    <3>. QED BY <3>1
  <2>2. \A r \in packets : r.offset > st.read_offset
    BY <1>1, <1>5
  <2>. HIDE DEF packets
  <2>3. new.read_offset = st.read_offset /\ new.recv_packets = packets
    BY DEF RecvStream
  <2>. HIDE DEF new
  <2>. QED BY <2>1, <2>2, <2>3
<1>. QED BY <1>3, <1>4, <1>5

(* What a step has to keep.                                                *)
LEMMA QuietSteps ==
  ASSUME Base, Quiet, flushed' = flushed,
         bytes_in_flight' = Length(sent_packets)',
         \A s \in Streams : \A r \in rcv'[s].recv_packets : r.offset > rcv'[s].read_offset,
         \A s \in Streams : /\ snd'[s].flush_timer = 0 /\ snd'[s].acked_offset \in Nat
                            /\ snd[s].acked_offset <= snd'[s].acked_offset,
         \A m \in net' : m \in net \/ m.type # "FLUSHSTREAM" \/ m.offset <= snd'[m.stream].acked_offset
  PROVE  Quiet'
<1>1. LogOK /\ SndOK /\ NetOK
  BY DEF Base
<1>2. ASSUME NEW m \in net', m.type = "FLUSHSTREAM"
      PROVE  m.offset <= snd'[m.stream].acked_offset
  <2>1. CASE m \in net
    <3>1. m \in Message
      BY <1>1, <2>1 DEF NetOK, MessageOK
    <3>2. m.stream \in Streams /\ m.offset \in Nat
      BY <1>2, <3>1, BoundsAssumption DEF Message, Offset
    <3>3. m.offset <= snd[m.stream].acked_offset
      BY <1>2, <2>1 DEF Quiet
    <3>4. snd[m.stream].acked_offset \in Nat
      BY <1>1, <3>2, Facts
    <3>. QED BY <3>2, <3>3, <3>4
  <2>. QED BY <1>2, <2>1
<1>. QED BY <1>2 DEF Quiet, BytesInFlightExact, NoReadyDataHeld

(* Steps that leave the sender's streams, packets and counter alone.       *)
LEMMA QuietRest ==
  ASSUME Base, Quiet, flushed' = flushed, log' = log, sent_packets' = sent_packets,
         bytes_in_flight' = bytes_in_flight,
         \A s \in Streams : /\ snd'[s].flush_timer = 0
                            /\ snd'[s].acked_offset = snd[s].acked_offset,
         \A s \in Streams : \A r \in rcv'[s].recv_packets : r.offset > rcv'[s].read_offset,
         \A m \in net' : m \in net \/ m.type # "FLUSHSTREAM" \/ m.offset <= snd'[m.stream].acked_offset
  PROVE  Quiet'
<1>1. Length(sent_packets)' = Length(sent_packets)
  BY DEF Length
<1>2. bytes_in_flight' = Length(sent_packets)'
  BY <1>1 DEF Quiet, BytesInFlightExact
<1>3. \A s \in Streams : snd[s].acked_offset \in Nat
  BY Facts DEF Base
<1>4. \A s \in Streams : /\ snd'[s].flush_timer = 0 /\ snd'[s].acked_offset \in Nat
                         /\ snd[s].acked_offset <= snd'[s].acked_offset
  BY <1>3
<1>. QED BY <1>2, <1>4, QuietSteps

(* No step but a flush disturbs it.                                        *)
LEMMA QuietStep ==
  ASSUME Base, AckedIsReceived, Quiet, flushes = 0, flushes' = 0, [Next]_vars
  PROVE  Quiet'
<1>1. LogOK /\ SndOK /\ ControlOK /\ RcvOK /\ NetOK
  BY DEF Base
<1>2. /\ bytes_in_flight = Length(sent_packets)
      /\ \A s \in Streams : flushed[s] = 0 /\ snd[s].flush_timer = 0
      /\ \A s \in Streams : \A r \in rcv[s].recv_packets : r.offset > rcv[s].read_offset
      /\ \A m \in net : m.type = "FLUSHSTREAM" => m.offset <= snd[m.stream].acked_offset
  BY DEF Quiet, BytesInFlightExact, NoReadyDataHeld
<1>3. /\ DOMAIN snd = Streams /\ DOMAIN rcv = Streams
      /\ \A s \in Streams : snd[s] \in SendStream /\ rcv[s] \in RecvStream /\ snd[s].acked_offset \in Nat
  BY <1>1, Facts, KeptWasSent DEF SndOK, RcvOK
<1>4. ASSUME NEW s \in Streams, NEW request, Flush(s, request) PROVE FALSE
  <2>1. flushes' = flushes + 1
    BY <1>4 DEF Flush
  <2>. QED BY <2>1
<1>5. ASSUME NEW s \in Streams, NEW size \in Sizes, send(s, size) PROVE Quiet'
  <2>1. /\ snd' = [snd EXCEPT
             ![s].data_queue = Append(@, [offset |-> snd[s].queue_offset, size |-> size]),
             ![s].queue_offset = @ + size]
        /\ flushed' = flushed /\ log' = log /\ sent_packets' = sent_packets
        /\ bytes_in_flight' = bytes_in_flight /\ rcv' = rcv /\ net' = net
    BY <1>5 DEF send, congestion, receiver
  <2>2. \A x \in Streams : /\ snd'[x].flush_timer = 0
                           /\ snd'[x].acked_offset = snd[x].acked_offset
    BY <1>2, <1>3, <2>1 DEF SendStream
  <2>. QED BY <1>2, <2>1, <2>2, QuietRest
<1>6. ASSUME pacing_timer_cb PROVE Quiet'
  <2>1. PICK n \in 0 .. Len(Backlog) : SendRound(Backlog, n)
    BY <1>6 DEF pacing_timer_cb
  <2>2. bytes_in_flight' = Length(sent_packets)'
    BY <1>1, <1>2, <2>1, PutIn
  <2>3. Sent(n) /\ flushed' = flushed /\ rcv' = rcv
    BY <1>1, <1>6, <2>1, RoundSends DEF pacing_timer_cb, receiver
  <2>4. ASSUME NEW x \in Streams
        PROVE  snd'[x].acked_offset = snd[x].acked_offset /\ snd'[x].flush_timer = snd[x].flush_timer
    <3>. DEFINE o == snd'[x].sent_offset
    <3>1. snd'[x] = [snd[x] EXCEPT !.sent_offset = o] /\ snd[x] \in SendStream
      BY <1>3, <2>3 DEF Sent
    <3>. HIDE DEF o
    <3>. QED BY <3>1 DEF SendStream
  <2>5. \A x \in Streams : /\ snd'[x].flush_timer = 0 /\ snd'[x].acked_offset \in Nat
                           /\ snd[x].acked_offset <= snd'[x].acked_offset
    BY <1>2, <1>3, <2>4
  <2>6. ASSUME NEW m \in net' PROVE m \in net \/ m.type # "FLUSHSTREAM"
    <3>1. net' = net \cup {DATA(pn) : pn \in Len(log) .. Len(log) + n - 1}
      BY <2>1 DEF SendRound
    <3>. QED BY <3>1 DEF DATA
  <2>. QED BY <1>2, <2>2, <2>3, <2>5, <2>6, QuietSteps
<1>7. ASSUME tlp_timer_cb PROVE Quiet'
  <2>1. /\ log' = log /\ snd' = snd /\ flushed' = flushed /\ net' = net /\ rcv' = rcv
    BY <1>7 DEF tlp_timer_cb, receiver
  <2>2. bytes_in_flight' = Length(sent_packets)'
    <3>1. CASE sent_packets' = sent_packets /\ bytes_in_flight' = bytes_in_flight
      BY <1>2, <2>1, <3>1 DEF Length
    <3>2. CASE sent_packets' = {} /\ bytes_in_flight' = Minus(bytes_in_flight, Length(sent_packets))
      <4>1. sent_packets \ sent_packets = {} /\ sent_packets \subseteq sent_packets
        OBVIOUS
      <4>2. Minus(bytes_in_flight, Length(sent_packets)) = Length(sent_packets \ sent_packets)
        BY <1>1, <1>2, <4>1, TakenOut
      <4>3. Length(sent_packets)' = Length({})
        BY <2>1, <3>2 DEF Length
      <4>. QED BY <3>2, <4>1, <4>2, <4>3
    <3>. QED BY <1>7, <3>1, <3>2 DEF tlp_timer_cb, congestion
  <2>3. \A x \in Streams : /\ snd'[x].flush_timer = 0 /\ snd'[x].acked_offset \in Nat
                           /\ snd[x].acked_offset <= snd'[x].acked_offset
    BY <1>2, <1>3, <2>1
  <2>. QED BY <1>2, <2>1, <2>2, <2>3, QuietSteps
<1>8. ASSUME NEW m \in net, did_recv_ACK(m) PROVE Quiet'
  <2>1. PICK acked, gone :
          /\ acked = NewlyAcked(m) /\ gone \in LostPrefixes(acked)
          /\ snd' = [s \in Streams |-> AckStream(acked, s)]
          /\ sent_packets' = (sent_packets \ acked) \ gone
          /\ bytes_in_flight' = Minus(bytes_in_flight, Length(acked \cup gone))
    BY <1>8 DEF did_recv_ACK
  <2>2. flushed' = flushed /\ rcv' = rcv /\ log' = log /\ net' \subseteq net
    BY <1>8 DEF did_recv_ACK, receiver, Reply, Exchange
  <2>3. acked \cup gone \subseteq sent_packets /\ sent_packets' = sent_packets \ (acked \cup gone)
    BY <2>1 DEF NewlyAcked, LostPrefixes
  <2>4. bytes_in_flight' = Length(sent_packets)'
    <3>. DEFINE out == acked \cup gone
    <3>1. out \subseteq sent_packets /\ sent_packets' = sent_packets \ out
          /\ bytes_in_flight' = Minus(bytes_in_flight, Length(out))
      BY <2>1, <2>3
    <3>. HIDE DEF out
    <3>2. Minus(bytes_in_flight, Length(out)) = Length(sent_packets \ out)
      BY <1>1, <1>2, <3>1, TakenOut
    <3>3. Length(sent_packets)' = Length(sent_packets \ out)
      BY <2>2, <3>1 DEF Length
    <3>. QED BY <3>1, <3>2, <3>3
  <2>5. ASSUME NEW x \in Streams
        PROVE  /\ snd'[x].flush_timer = 0 /\ snd'[x].acked_offset \in Nat
               /\ snd[x].acked_offset <= snd'[x].acked_offset
    <3>1. snd'[x] = AckStream(acked, x)
      BY <2>1
    <3>2. acked \subseteq 0 .. Len(log) - 1
      BY <1>1, <2>3 DEF LogOK
    <3>3. /\ AckStream(acked, x).flush_timer = snd[x].flush_timer
          /\ AckStream(acked, x).acked_offset \in Nat
          /\ snd[x].acked_offset <= AckStream(acked, x).acked_offset
      BY <1>1, <3>2, AckStreamIs
    <3>. QED BY <1>2, <3>1, <3>3
  <2>. QED BY <1>2, <2>2, <2>4, <2>5, QuietSteps
<1>9. ASSUME NEW s \in Streams, flush_timer_cb(s) PROVE Quiet'
  BY <1>2, <1>9 DEF flush_timer_cb
\* steps of the receiver and the network, and FLUSHCONF
<1>10. ASSUME flushed' = flushed, log' = log, sent_packets' = sent_packets,
              bytes_in_flight' = bytes_in_flight, snd' = snd, rcv' = rcv,
              \A m \in net' : m \in net \/ m.type # "FLUSHSTREAM" \/ m.offset <= snd[m.stream].acked_offset
       PROVE  Quiet'
  BY <1>2, <1>10, QuietRest
<1>11. ASSUME NEW m \in net, did_recv_FLUSHCONF(m) PROVE Quiet'
  <2>1. /\ snd' = [snd EXCEPT ![m.stream].flush_timer = 0]
        /\ flushed' = flushed /\ log' = log /\ sent_packets' = sent_packets
        /\ bytes_in_flight' = bytes_in_flight /\ rcv' = rcv /\ net' \subseteq net
    BY <1>11 DEF did_recv_FLUSHCONF, congestion, receiver, Reply, Exchange
  <2>2. \A x \in Streams : /\ snd'[x].flush_timer = 0
                           /\ snd'[x].acked_offset = snd[x].acked_offset
    BY <1>2, <1>3, <2>1 DEF SendStream
  <2>. QED BY <1>2, <2>1, <2>2, QuietRest
<1>12. ASSUME NEW m \in net, did_recv_SKIPSTREAM(m) PROVE Quiet'
  <2>1. m.stream \in Streams
    BY <1>1, <1>12 DEF NetOK, MessageOK, Message, did_recv_SKIPSTREAM
  <2>2. CASE Flush(m.stream, {m})
    BY <1>4, <2>1, <2>2
  <2>3. CASE /\ Reply(m, {FLUSHSTREAM(m.stream, snd[m.stream].acked_offset)})
             /\ UNCHANGED <<sender, receiver, up, lost>>
    <3>1. ASSUME NEW x \in net' PROVE x \in net \/ x.offset <= snd[x.stream].acked_offset
      <4>1. x \in net \/ x = FLUSHSTREAM(m.stream, snd[m.stream].acked_offset)
        BY <2>3 DEF Reply, Exchange
      <4>. QED BY <1>3, <2>1, <4>1 DEF FLUSHSTREAM
    <3>. QED BY <1>10, <2>3, <3>1 DEF sender, receiver, congestion
  <2>. QED BY <1>12, <2>2, <2>3 DEF did_recv_SKIPSTREAM
<1>13. ASSUME NEW m \in net, did_recv_DATA(m) PROVE Quiet'
  <2>. DEFINE pkt == Packet(m.packet_number)
  <2>1. m.type = "DATA" /\ MessageOK(m)
    BY <1>1, <1>13 DEF did_recv_DATA, NetOK
  <2>2. pkt \in Packets /\ pkt.stream \in Streams
    BY <1>1, <2>1, BroughtIs
  <2>3. /\ flushed' = flushed /\ log' = log /\ sent_packets' = sent_packets
        /\ bytes_in_flight' = bytes_in_flight /\ snd' = snd /\ net' \subseteq net
        /\ rcv' = rcv \/ rcv' = [rcv EXCEPT ![pkt.stream] = Accept(rcv[pkt.stream], pkt)]
    BY <1>13 DEF did_recv_DATA, sender, receiver, congestion, Reply, Exchange
  <2>. HIDE DEF pkt
  <2>4. \A r \in Accept(rcv[pkt.stream], pkt).recv_packets : r.offset > Accept(rcv[pkt.stream], pkt).read_offset
    BY <1>2, <1>3, <2>2, AcceptDrains
  <2>5. \A s \in Streams : \A r \in rcv'[s].recv_packets : r.offset > rcv'[s].read_offset
    <3>1. \A s \in Streams : rcv'[s] = rcv[s] \/ (s = pkt.stream /\ rcv'[s] = Accept(rcv[pkt.stream], pkt))
      BY <1>3, <2>2, <2>3
    <3>. QED BY <1>2, <2>4, <3>1
  <2>. QED BY <1>2, <2>3, <2>5, QuietRest
<1>14. ASSUME NEW m \in net, did_recv_FLUSHSTREAM(m) PROVE Quiet'
  <2>1. /\ flushed' = flushed /\ log' = log /\ sent_packets' = sent_packets
        /\ bytes_in_flight' = bytes_in_flight /\ snd' = snd
    BY <1>14 DEF did_recv_FLUSHSTREAM, sender, congestion
  <2>2. m.type = "FLUSHSTREAM" /\ m.stream \in Streams /\ m.offset \in Nat
    BY <1>1, <1>14, BoundsAssumption DEF did_recv_FLUSHSTREAM, NetOK, MessageOK, Message, Offset
  <2>3. snd[m.stream].acked_offset <= rcv[m.stream].read_offset
    BY <2>2, AckedIsRead
  <2>4. rcv[m.stream].read_offset >= m.offset
    <3>1. m.offset <= snd[m.stream].acked_offset /\ snd[m.stream].acked_offset \in Nat
      BY <1>2, <1>3, <2>2
    <3>2. rcv[m.stream].read_offset \in Nat
      BY <1>3, <2>2, BoundsAssumption DEF RecvStream, Offset
    <3>. QED BY <2>2, <2>3, <3>1, <3>2
  <2>5. rcv' = rcv /\ net' \subseteq net
    BY <1>14, <2>4 DEF did_recv_FLUSHSTREAM, Reply, Exchange
  <2>. QED BY <1>10, <2>1, <2>5
<1>15. ASSUME NEW s \in Streams, skip_stream(s) \/ skip_timer_cb(s) PROVE Quiet'
  <2>1. /\ flushed' = flushed /\ log' = log /\ sent_packets' = sent_packets
        /\ bytes_in_flight' = bytes_in_flight /\ snd' = snd
        /\ net' \subseteq net \cup {SKIPSTREAM(s, SkipOffset(rcv[s]))}
        /\ \/ rcv' = rcv
           \/ rcv' = [rcv EXCEPT ![s].skip_timer = 2 * @]
           \/ rcv' = [rcv EXCEPT ![s].wait_flush = TRUE, ![s].skip_timer = 1]
    BY <1>15 DEF skip_stream, skip_timer_cb, sender, congestion
  <2>2. \A x \in Streams : rcv'[x].read_offset = rcv[x].read_offset /\ rcv'[x].recv_packets = rcv[x].recv_packets
    BY <1>3, <2>1 DEF RecvStream
  <2>3. \A x \in net' : x \in net \/ x.type # "FLUSHSTREAM"
    BY <2>1 DEF SKIPSTREAM
  <2>. QED BY <1>2, <2>1, <2>2, <2>3, QuietRest
<1>16. ASSUME ack_timer_cb PROVE Quiet'
  <2>1. /\ flushed' = flushed /\ log' = log /\ sent_packets' = sent_packets
        /\ bytes_in_flight' = bytes_in_flight /\ snd' = snd /\ rcv' = rcv
        /\ net' = net \cup {ACK(ack_ranges)}
    BY <1>16 DEF ack_timer_cb, sender, congestion
  <2>2. \A x \in net' : x \in net \/ x.type # "FLUSHSTREAM"
    BY <2>1 DEF ACK
  <2>. QED BY <1>10, <2>1, <2>2
<1>17. CASE (\E m \in net : Lose(m)) \/ UNCHANGED vars
  <2>1. /\ flushed' = flushed /\ log' = log /\ sent_packets' = sent_packets
        /\ bytes_in_flight' = bytes_in_flight /\ snd' = snd /\ rcv' = rcv
        /\ net' \subseteq net
    BY <1>17 DEF Lose, vars, sender, receiver, congestion
  <2>. QED BY <1>10, <2>1
<1>18. ASSUME NEW m \in net, did_recv(m) PROVE Quiet'
  BY <1>8, <1>11, <1>12, <1>13, <1>14, <1>18 DEF did_recv
<1>19. CASE \E s \in Streams : \E size \in Sizes : send(s, size)
  BY <1>5, <1>19
<1>20. CASE \E s \in Streams : flush_stream(s)
  BY <1>4, <1>20 DEF flush_stream
<1>21. CASE \E s \in Streams : flush_timer_cb(s) \/ skip_stream(s) \/ skip_timer_cb(s)
  BY <1>9, <1>15, <1>21
<1>. QED BY <1>6, <1>7, <1>16, <1>17, <1>18, <1>19, <1>20, <1>21 DEF Next, Receive

(* Flushes are counted.                                                    *)
LEMMA FlushesCount ==
  ASSUME Base, [Next]_vars, flushes' = 0
  PROVE  flushes = 0
<1>1. flushes \in Nat
  BY BoundsAssumption DEF Base, ControlOK
<1>2. ASSUME NEW s, NEW request, Flush(s, request) PROVE flushes' = flushes + 1
  BY <1>2 DEF Flush
<1>3. flushes' = flushes \/ flushes' = flushes + 1
  <2>1. ASSUME NEW s \in Streams, NEW size \in Sizes, send(s, size) PROVE flushes' = flushes
    BY <2>1 DEF send
  <2>2. ASSUME NEW s \in Streams, flush_timer_cb(s) \/ skip_stream(s) \/ skip_timer_cb(s) PROVE flushes' = flushes
    BY <2>2 DEF flush_timer_cb, skip_stream, skip_timer_cb, sender
  <2>3. ASSUME NEW m, did_recv_DATA(m) \/ did_recv_ACK(m) \/ did_recv_FLUSHSTREAM(m) \/ did_recv_FLUSHCONF(m) \/ Lose(m)
        PROVE  flushes' = flushes
    BY <2>3 DEF did_recv_DATA, did_recv_ACK, did_recv_FLUSHSTREAM, did_recv_FLUSHCONF, Lose, sender
  <2>4. ASSUME NEW m, did_recv_SKIPSTREAM(m) PROVE flushes' = flushes \/ flushes' = flushes + 1
    BY <1>2, <2>4 DEF did_recv_SKIPSTREAM, sender
  <2>5. ASSUME pacing_timer_cb \/ tlp_timer_cb \/ ack_timer_cb \/ UNCHANGED vars PROVE flushes' = flushes
    BY <2>5 DEF pacing_timer_cb, tlp_timer_cb, ack_timer_cb, vars, sender
  <2>. QED BY <1>2, <2>1, <2>2, <2>3, <2>4, <2>5 DEF Next, Receive, did_recv, flush_stream
<1>. QED BY <1>1, <1>3

(* The invariant holds until the first flush.                              *)
LEMMA CalmAlways == Spec => []Calm
<1>1. Init => Calm
  <2>. SUFFICES ASSUME Init PROVE Quiet
    BY DEF Calm
  <2>1. log = <<>> /\ bytes_in_flight = 0 /\ sent_packets = {} /\ net = {}
        /\ \A s \in Streams : flushed[s] = 0 /\ snd[s].flush_timer = 0 /\ rcv[s].recv_packets = {}
    BY DEF Init
  <2>2. Length(sent_packets) = 0
    BY <2>1, InitBase, LengthOfNone DEF Base
  <2>. QED BY <2>1, <2>2 DEF Quiet, BytesInFlightExact, NoReadyDataHeld
<1>2. Base /\ AckedIsReceived /\ Calm /\ [Next]_vars => Calm'
  <2>. SUFFICES ASSUME Base, AckedIsReceived, Calm, [Next]_vars, flushes' = 0 PROVE Quiet'
    BY DEF Calm
  <2>1. flushes = 0
    BY FlushesCount
  <2>. QED BY <2>1, QuietStep DEF Calm
<1>. QED BY <1>1, <1>2, BaseAlways, AckedAlwaysReceived, PTL DEF Spec

(* Until something is flushed, bytes_in_flight is what is in flight.  (The *)
(* run flush_in_flight shows what a flush does to it.)                     *)
THEOREM CounterExact == Spec => [](flushes = 0 => BytesInFlightExact)
<1>1. Calm => (flushes = 0 => BytesInFlightExact)
  BY DEF Calm, Quiet
<1>. QED BY <1>1, CalmAlways, PTL

(* Until something is flushed, the receiver holds back nothing that has    *)
(* arrived in order.                                                       *)
THEOREM NothingHeldBack == Spec => [](flushes = 0 => NoReadyDataHeld)
<1>1. Calm => (flushes = 0 => NoReadyDataHeld)
  BY DEF Calm, Quiet
<1>. QED BY <1>1, CalmAlways, PTL

-----------------------------------------------------------------------------
(* The refinement                                                          *)

(* Every byte read_offset moves over is handed to the application.         *)
LEMMA HandedIs ==
  ASSUME NEW st \in RecvStream, NEW pkt \in Packets, Spans(st.recv_packets)
  PROVE  Handed(st, Accept(st, pkt), pkt) = st.read_offset .. Accept(st, pkt).read_offset - 1
<1>. DEFINE all == st.recv_packets \cup {RangeOf(pkt)}
            read == Extend(st.read_offset, all)
            known == \E k \in st.recv_packets : k.offset = pkt.offset
            new == Accept(st, pkt)
<1>1. /\ st.read_offset \in Nat /\ pkt.offset \in Nat /\ End(pkt) \in Nat
      /\ RangeOf(pkt).offset \in Nat /\ RangeOf(pkt).length \in Nat \ {0}
  BY BoundsAssumption, SizesAssumption DEF RecvStream, Packets, Offset, End, RangeOf
<1>2. new =
        CASE End(pkt) <= st.read_offset -> st
          [] pkt.offset <= st.read_offset /\ End(pkt) > st.read_offset ->
               [st EXCEPT !.read_offset = read, !.recv_packets = Beyond(read, all)]
          [] OTHER -> [st EXCEPT !.recv_packets = IF known THEN @ ELSE all]
  BY DEF Accept
<1>3. Spans(all)
  BY <1>1, FS_AddElement DEF Spans
<1>4. \A byte \in st.read_offset .. read - 1 : \E k \in all : Covers(k, byte)
  <2>. HIDE DEF all
  <2>. QED BY <1>1, <1>3, ExtendIs
<1>5. Handed(st, new, pkt) =
        {byte \in st.read_offset .. new.read_offset - 1 : \E k \in all : Covers(k, byte)}
  <2>. HIDE DEF new
  <2>. QED BY DEF Handed
<1>6. ASSUME new.read_offset = st.read_offset \/ new.read_offset = read
      PROVE  Handed(st, new, pkt) = st.read_offset .. new.read_offset - 1
  <2>1. st.read_offset .. st.read_offset - 1 = {}
    BY <1>1
  <2>. HIDE DEF all, new, read
  <2>. QED BY <1>4, <1>5, <1>6, <2>1
<1>. HIDE DEF read, known, all, new
<1>7. CASE End(pkt) <= st.read_offset
  <2>1. ~(End(pkt) > st.read_offset)
    BY <1>1, <1>7
  <2>2. new = st
    BY <1>2, <1>7, <2>1
  <2>. QED BY <1>6, <2>2 DEF new
<1>8. CASE ~(End(pkt) <= st.read_offset) /\ pkt.offset <= st.read_offset
  <2>1. End(pkt) > st.read_offset
    BY <1>1, <1>8
  <2>2. new = [st EXCEPT !.read_offset = read, !.recv_packets = Beyond(read, all)]
    BY <1>2, <1>8, <2>1
  <2>3. new.read_offset = read
    BY <2>2 DEF RecvStream
  <2>. QED BY <1>6, <2>3 DEF new
<1>9. CASE ~(End(pkt) <= st.read_offset) /\ ~(pkt.offset <= st.read_offset)
  <2>1. new = [st EXCEPT !.recv_packets = IF known THEN @ ELSE all]
    BY <1>2, <1>9
  <2>2. new.read_offset = st.read_offset
    BY <2>1 DEF RecvStream
  <2>. QED BY <1>6, <2>2 DEF new
<1>. QED BY <1>7, <1>8, <1>9

(* A step the two applications do not see.                                 *)
LEMMA Unseen ==
  ASSUME \A s \in Streams : /\ snd'[s].queue_offset = snd[s].queue_offset
                            /\ rcv'[s].read_offset = rcv[s].read_offset,
         flushed' = flushed, handed' = handed, up' = up
  PROVE  UNCHANGED Promise!vars
<1>1. \A s \in Streams : Missed(s)' = Missed(s)
  BY DEF Missed
<1>. QED BY <1>1 DEF Promise!vars

(* A connection that is given up.                                          *)
LEMMA Resets ==
  ASSUME \A s \in Streams : /\ snd'[s].queue_offset = snd[s].queue_offset
                            /\ rcv'[s].read_offset = rcv[s].read_offset,
         flushed' = flushed, handed' = handed, up, up' = FALSE
  PROVE  Promise!Next
<1>1. \A s \in Streams : Missed(s)' = Missed(s)
  BY DEF Missed
<1>. QED BY <1>1 DEF Promise!Next, Promise!Reset

(* send: the next bytes are written.                                       *)
LEMMA Writes ==
  ASSUME Base, NEW s \in Streams, NEW size \in Sizes, send(s, size)
  PROVE  Promise!Next
<1>. DEFINE w == [x \in Streams |-> snd[x].queue_offset]
            end == snd[s].queue_offset + size
<1>1. /\ DOMAIN snd = Streams /\ \A x \in Streams : snd[x] \in SendStream /\ snd[x].queue_offset \in Nat
  BY Facts DEF Base, SndOK
<1>2. /\ up /\ end <= MaxBytes
      /\ snd' = [snd EXCEPT
           ![s].data_queue = Append(@, [offset |-> snd[s].queue_offset, size |-> size]),
           ![s].queue_offset = @ + size]
      /\ flushed' = flushed /\ rcv' = rcv /\ handed' = handed /\ up' = up
  BY DEF send, receiver
<1>3. /\ snd'[s].queue_offset = end
      /\ \A x \in Streams : x # s => snd'[x].queue_offset = snd[x].queue_offset
  BY <1>1, <1>2 DEF SendStream
<1>4. end \in snd[s].queue_offset + 1 .. MaxBytes
  BY SMTT(30), <1>1, <1>2, SizesAssumption, BoundsAssumption
<1>. HIDE DEF end
<1>5. w' = [w EXCEPT ![s] = end]
  BY <1>3
<1>6. \A x \in Streams : Missed(x)' = Missed(x)
  BY <1>2 DEF Missed
<1>7. end \in w[s] + 1 .. MaxBytes
  BY <1>4
<1>. QED BY ZenonT(60), <1>2, <1>5, <1>6, <1>7 DEF Promise!Next, Promise!Write

(* did_recv_DATA: the next bytes are handed over, or none.                 *)
LEMMA Delivers ==
  ASSUME Base, NEW m \in net, did_recv_DATA(m)
  PROVE  Promise!Next \/ UNCHANGED Promise!vars
<1>1. LogOK /\ SndOK /\ RcvOK /\ MessageOK(m) /\ m.type = "DATA"
  BY DEF Base, NetOK, did_recv_DATA
<1>2. PICK pkt \in Packets, s \in Streams :
        /\ pkt = Packet(m.packet_number) /\ s = pkt.stream /\ End(pkt) <= snd[s].sent_offset
        /\ \A r \in rcv[s].recv_packets : r.offset = pkt.offset => r = RangeOf(pkt)
  BY <1>1, BroughtIs
<1>. DEFINE new == Accept(rcv[s], pkt)  read == rcv[s].read_offset  end == new.read_offset
<1>3. /\ up /\ up' = up /\ snd' = snd /\ flushed' = flushed
      /\ \/ rcv' = rcv /\ handed' = handed
         \/ /\ rcv' = [rcv EXCEPT ![s] = new]
            /\ handed' = [handed EXCEPT ![s] = @ \cup Handed(rcv[s], new, pkt)]
  BY <1>2 DEF did_recv_DATA, sender, receiver
<1>4. /\ rcv[s] \in RecvStream /\ read \in Nat
      /\ snd[s].sent_offset \in Offset /\ read <= snd[s].sent_offset
      /\ snd[s].sent_offset <= snd[s].queue_offset /\ snd[s].queue_offset \in Nat
      /\ \A r \in rcv[s].recv_packets : End(r) <= snd[s].sent_offset
  <2>1. snd[s].sent_offset \in Offset
    BY <1>1, <1>2, Facts DEF SendStream
  <2>2. read <= snd[s].sent_offset
    BY <1>1, <1>2 DEF RcvOK
  <2>3. snd[s].sent_offset <= snd[s].queue_offset
    BY <1>1, <1>2 DEF SndOK, StreamOK
  <2>4. snd[s].queue_offset \in Nat
    BY <1>1, <1>2, Facts
  <2>. QED BY <1>1, <1>2, <2>1, <2>2, <2>3, <2>4, KeptWasSent
<1>5. Spans(rcv[s].recv_packets)
  BY <1>1, <1>2, RangesSpan, KeptWasSent
<1>6. new \in RecvStream /\ read <= end /\ end <= snd[s].sent_offset
  BY <1>2, <1>4, AcceptIs
<1>7. Handed(rcv[s], new, pkt) = read .. end - 1
  BY <1>2, <1>4, <1>5, HandedIs
<1>. HIDE DEF new
<1>8. end \in Nat /\ end <= snd[s].queue_offset
  <2>1. end \in Nat
    BY <1>6, BoundsAssumption DEF RecvStream, Offset
  <2>2. snd[s].sent_offset \in Nat
    BY <1>4, BoundsAssumption DEF Offset
  <2>. QED BY <1>4, <1>6, <2>1, <2>2
<1>. HIDE DEF end
<1>9. CASE rcv' = rcv /\ handed' = handed
  BY <1>3, <1>9, Unseen
<1>10. CASE /\ rcv' = [rcv EXCEPT ![s] = new]
            /\ handed' = [handed EXCEPT ![s] = @ \cup read .. end - 1]
  <2>1. /\ DOMAIN rcv = Streams /\ DOMAIN handed = Streams
    BY <1>1 DEF RcvOK
  <2>2. /\ rcv'[s].read_offset = end /\ handed'[s] = handed[s] \cup read .. end - 1
        /\ \A x \in Streams : x # s => rcv'[x] = rcv[x] /\ handed'[x] = handed[x]
    BY <1>2, <1>10, <2>1 DEF end
  <2>3. ASSUME NEW x \in Streams PROVE Missed(x)' = Missed(x)
    <3>1. CASE x = s
      <4>1. (0 .. end - 1) \ (handed[s] \cup read .. end - 1) = (0 .. read - 1) \ handed[s]
        <5>1. 0 .. end - 1 = (0 .. read - 1) \cup (read .. end - 1)
          BY <1>4, <1>6, <1>8 DEF end
        <5>2. (0 .. read - 1) \cap (read .. end - 1) = {}
          BY <1>4, <1>8
        <5>. QED BY <5>1, <5>2
      <4>2. Missed(s)' = (0 .. end - 1) \ (handed[s] \cup read .. end - 1)
        BY <2>2, <3>1 DEF Missed
      <4>. QED BY <3>1, <4>1, <4>2 DEF Missed
    <3>2. CASE x # s
      BY <2>2, <3>2 DEF Missed
    <3>. QED BY <3>1, <3>2
  <2>4. CASE end = read
    <3>1. \A x \in Streams : rcv'[x].read_offset = rcv[x].read_offset
      BY <2>2, <2>4
    <3>. QED BY <1>3, <2>3, <3>1 DEF Promise!vars
  <2>5. CASE end # read
    <3>. DEFINE r == [x \in Streams |-> rcv[x].read_offset]
                w == [x \in Streams |-> snd[x].queue_offset]
    <3>1. r' = [r EXCEPT ![s] = end]
      BY <2>2
    <3>2. end \in r[s] + 1 .. w[s]
      <4>1. end \in read + 1 .. snd[s].queue_offset
        BY <1>4, <1>6, <1>8, <2>5 DEF end
      <4>. QED BY <1>2, <4>1
    <3>3. /\ flushed' = flushed /\ up' = up
          /\ w' = w /\ [x \in Streams |-> Missed(x)]' = [x \in Streams |-> Missed(x)]
      BY <1>3, <2>3
    <3>4. Promise!Deliver(s)
      <4>. HIDE DEF r, w
      <4>1. /\ \E e \in r[s] + 1 .. w[s] : r' = [r EXCEPT ![s] = e]
            /\ flushed' = flushed /\ up' = up
            /\ w' = w /\ [x \in Streams |-> Missed(x)]' = [x \in Streams |-> Missed(x)]
        BY <3>1, <3>2, <3>3
      <4>. QED BY <4>1 DEF Promise!Deliver, r, w
    <3>. QED BY <1>3, <3>4 DEF Promise!Next
  <2>. QED BY <2>4, <2>5
<1>. QED BY <1>3, <1>7, <1>9, <1>10

(* Until the first flush every step is one of the promise, or is not seen. *)
LEMMA StepMaps ==
  ASSUME Base, AckedIsReceived, Quiet, flushes' = 0, [Next]_vars
  PROVE  Promise!Next \/ UNCHANGED Promise!vars
<1>. DEFINE Goal == Promise!Next \/ UNCHANGED Promise!vars
            Same == /\ \A s \in Streams : /\ snd'[s].queue_offset = snd[s].queue_offset
                                          /\ rcv'[s].read_offset = rcv[s].read_offset
                    /\ flushed' = flushed /\ handed' = handed
<1>1. LogOK /\ SndOK /\ ControlOK /\ RcvOK /\ NetOK /\ flushes = 0
  BY FlushesCount DEF Base
<1>2. /\ DOMAIN snd = Streams /\ DOMAIN rcv = Streams
      /\ \A s \in Streams : snd[s] \in SendStream /\ rcv[s] \in RecvStream
  BY <1>1 DEF SndOK, StreamOK, RcvOK
<1>3. ASSUME Same, up' = up PROVE Goal
  BY <1>3, Unseen
<1>4. ASSUME Same, up, up' = FALSE PROVE Goal
  BY <1>4, Resets
<1>5. ASSUME NEW s \in Streams, NEW request, Flush(s, request) PROVE FALSE
  <2>1. flushes' = flushes + 1
    BY <1>5 DEF Flush
  <2>. QED BY <1>1, <2>1
<1>6. ASSUME NEW s \in Streams, NEW size \in Sizes, send(s, size) PROVE Goal
  BY <1>6, Writes
<1>7. ASSUME pacing_timer_cb PROVE Goal
  <2>1. PICK n \in 0 .. Len(Backlog) : SendRound(Backlog, n)
    BY <1>7 DEF pacing_timer_cb
  <2>2. Sent(n) /\ flushed' = flushed /\ handed' = handed /\ rcv' = rcv /\ up' = up
    BY <1>1, <1>7, <2>1, RoundSends DEF pacing_timer_cb, receiver
  <2>3. ASSUME NEW x \in Streams PROVE snd'[x].queue_offset = snd[x].queue_offset
    <3>. DEFINE o == snd'[x].sent_offset
    <3>1. snd'[x] = [snd[x] EXCEPT !.sent_offset = o] /\ snd[x] \in SendStream
      BY <1>2, <2>2 DEF Sent
    <3>. HIDE DEF o
    <3>. QED BY <3>1 DEF SendStream
  <2>. QED BY <1>3, <2>2, <2>3
<1>8. ASSUME tlp_timer_cb PROVE Goal
  <2>1. Same /\ up /\ (up' = up \/ up' = FALSE)
    BY <1>8 DEF tlp_timer_cb, GiveUp, receiver
  <2>. QED BY <1>3, <1>4, <2>1
<1>9. ASSUME NEW m \in net, did_recv_ACK(m) PROVE Goal
  <2>1. PICK acked : /\ acked = NewlyAcked(m)
                     /\ snd' = [s \in Streams |-> AckStream(acked, s)]
    BY <1>9 DEF did_recv_ACK
  <2>2. flushed' = flushed /\ handed' = handed /\ rcv' = rcv /\ up' = up
    BY <1>9 DEF did_recv_ACK, receiver
  <2>3. ASSUME NEW x \in Streams PROVE snd'[x].queue_offset = snd[x].queue_offset
    <3>1. snd'[x] = AckStream(acked, x) /\ snd[x] \in SendStream
      BY <1>2, <2>1
    <3>. QED BY <3>1 DEF AckStream, SendStream
  <2>. QED BY <1>3, <2>2, <2>3
<1>10. ASSUME NEW s \in Streams, flush_timer_cb(s) PROVE Goal
  BY <1>10 DEF flush_timer_cb, Quiet
<1>11. ASSUME NEW m \in net, did_recv_FLUSHCONF(m) PROVE Goal
  <2>1. /\ snd' = [snd EXCEPT ![m.stream].flush_timer = 0]
        /\ flushed' = flushed /\ handed' = handed /\ rcv' = rcv /\ up' = up
    BY <1>11 DEF did_recv_FLUSHCONF, receiver
  <2>2. \A x \in Streams : snd'[x].queue_offset = snd[x].queue_offset
    BY <1>2, <2>1 DEF SendStream
  <2>. QED BY <1>3, <2>1, <2>2
<1>12. ASSUME NEW m \in net, did_recv_SKIPSTREAM(m) PROVE Goal
  <2>1. m.stream \in Streams
    BY <1>1, <1>12 DEF NetOK, MessageOK, Message, did_recv_SKIPSTREAM
  <2>2. CASE Flush(m.stream, {m})
    BY <1>5, <2>1, <2>2
  <2>3. CASE UNCHANGED <<sender, receiver, up, lost>>
    BY <1>3, <2>3 DEF sender, receiver
  <2>. QED BY <1>12, <2>2, <2>3 DEF did_recv_SKIPSTREAM
<1>13. ASSUME NEW m \in net, did_recv_FLUSHSTREAM(m) PROVE Goal
  <2>1. snd' = snd /\ flushed' = flushed /\ handed' = handed /\ up' = up
    BY <1>13 DEF did_recv_FLUSHSTREAM, sender
  <2>2. m.type = "FLUSHSTREAM" /\ m.stream \in Streams /\ m.offset \in Nat
    BY <1>1, <1>13, BoundsAssumption DEF did_recv_FLUSHSTREAM, NetOK, MessageOK, Message, Offset
  <2>3. rcv[m.stream].read_offset >= m.offset
    <3>1. m.offset <= snd[m.stream].acked_offset /\ snd[m.stream].acked_offset \in Nat
      BY <1>1, <2>2, Facts DEF Quiet
    <3>2. snd[m.stream].acked_offset <= rcv[m.stream].read_offset
      BY <2>2, AckedIsRead
    <3>3. rcv[m.stream].read_offset \in Nat
      BY <1>2, <2>2, BoundsAssumption DEF RecvStream, Offset
    <3>. QED BY <2>2, <3>1, <3>2, <3>3
  <2>4. rcv' = rcv
    BY <1>13, <2>3 DEF did_recv_FLUSHSTREAM
  <2>. QED BY <1>3, <2>1, <2>4
<1>14. ASSUME NEW s \in Streams, skip_stream(s) \/ skip_timer_cb(s) PROVE Goal
  <2>1. /\ flushed' = flushed /\ handed' = handed /\ snd' = snd
        /\ up /\ (up' = up \/ up' = FALSE)
        /\ \/ rcv' = rcv
           \/ rcv' = [rcv EXCEPT ![s].skip_timer = 2 * @]
           \/ rcv' = [rcv EXCEPT ![s].wait_flush = TRUE, ![s].skip_timer = 1]
    BY <1>14 DEF skip_stream, skip_timer_cb, sender, GiveUp
  <2>2. \A x \in Streams : rcv'[x].read_offset = rcv[x].read_offset
    BY <1>2, <2>1 DEF RecvStream
  <2>. QED BY <1>3, <1>4, <2>1, <2>2
<1>15. ASSUME ack_timer_cb \/ (\E m \in net : Lose(m)) \/ UNCHANGED vars PROVE Goal
  <2>1. snd' = snd /\ flushed' = flushed /\ handed' = handed /\ rcv' = rcv /\ up' = up
    BY <1>15 DEF ack_timer_cb, Lose, vars, sender, receiver
  <2>. QED BY <1>3, <2>1
<1>16. ASSUME NEW m \in net, did_recv(m) PROVE Goal
  BY <1>9, <1>11, <1>12, <1>13, <1>16, Delivers DEF did_recv
<1>17. CASE \E s \in Streams : \E size \in Sizes : send(s, size)
  BY <1>6, <1>17
<1>18. CASE \E s \in Streams : flush_stream(s)
  BY <1>5, <1>18 DEF flush_stream
<1>19. CASE \E s \in Streams : flush_timer_cb(s) \/ skip_stream(s) \/ skip_timer_cb(s)
  BY <1>10, <1>14, <1>19
<1>. QED BY <1>7, <1>8, <1>15, <1>16, <1>17, <1>18, <1>19 DEF Next, Receive

(* StreamTransport keeps its promise as long as no stream is flushed:      *)
(* every behaviour of the data plane, whatever the network drops,          *)
(* duplicates and reorders and whenever the timers fire, is one of         *)
(* ReliableStream.                                                         *)
THEOREM KeepsThePromise == Spec /\ [](flushes = 0) => ImplementsReliableStream
<1>1. Init => Promise!Init
  <2>. SUFFICES ASSUME Init PROVE Promise!Init
    OBVIOUS
  <2>1. \A s \in Streams : /\ snd[s].queue_offset = 0 /\ rcv[s].read_offset = 0 /\ handed[s] = {}
    BY DEF Init
  <2>2. \A s \in Streams : Missed(s) = {}
    BY <2>1 DEF Missed
  <2>. QED BY <2>1, <2>2 DEF Init, Promise!Init
<1>2. Base /\ AckedIsReceived /\ Calm /\ flushes = 0 /\ (flushes = 0)' /\ [Next]_vars
        => [Promise!Next]_(Promise!vars)
  BY StepMaps DEF Calm
<1>. QED BY <1>1, <1>2, BaseAlways, AckedAlwaysReceived, CalmAlways, PTL
         DEF Spec, ImplementsReliableStream, Promise!Spec

-----------------------------------------------------------------------------
(* The sender's books: each byte sent and not acked is in exactly one      *)
(* place, and the item each of its packets was cut from is still queued,   *)
(* whatever is lost, retransmitted, acked late, skipped or flushed.        *)

(* Two ranges of bytes do not overlap.                                     *)
Apart(r, q) == End(r) <= q.offset \/ End(q) <= r.offset

(* What a stream waits for, in flight, lost or acked out of order, does    *)
(* not overlap, lies beyond acked_offset and covers everything sent beyond *)
(* it.                                                                     *)
Tiled(s) ==
  /\ \A pn \in PacketsOf(s) : snd[s].acked_offset <= Packet(pn).offset
  /\ \A pn, qn \in PacketsOf(s) : pn # qn => Apart(Packet(pn), Packet(qn))
  /\ \A r, q \in snd[s].outstanding_acks : r # q => Apart(r, q)
  /\ \A pn \in PacketsOf(s) : \A r \in snd[s].outstanding_acks : Apart(Packet(pn), r)
  /\ \A byte \in snd[s].acked_offset .. snd[s].sent_offset - 1 :
       \/ \E pn \in PacketsOf(s) : Covers(Packet(pn), byte)
       \/ \E r \in snd[s].outstanding_acks : Covers(r, byte)

(* A queued item holds the byte; one holds the whole packet.               *)
ItemAt(st, byte) ==
  \E i \in 1 .. Len(st.data_queue) :
    LET item == st.data_queue[i]
    IN item.offset <= byte /\ byte < item.offset + item.size
Inside(st, pkt) ==
  \E i \in 1 .. Len(st.data_queue) :
    LET item == st.data_queue[i]
    IN item.offset <= pkt.offset /\ End(pkt) <= item.offset + item.size

(* The queued items cover what is not acked, sent or not, sent_offset lies *)
(* between two fragments, and every packet lies in an item.                *)
Queue(s) ==
  /\ \A byte \in snd[s].acked_offset .. snd[s].queue_offset - 1 : ItemAt(snd[s], byte)
  /\ \A i \in 1 .. Len(snd[s].data_queue) : \A f \in Fragments(s, snd[s].data_queue[i]) :
       f.offset < snd[s].sent_offset => End(f) <= snd[s].sent_offset
  /\ \A pn \in PacketsOf(s) : Inside(snd[s], Packet(pn))

(* The inductive invariant of the books.                                   *)
Books == \A s \in Streams : Tiled(s) /\ Queue(s)

-----------------------------------------------------------------------------
(* What is left as it was                                                  *)

(* Plain consequences of the data plane's invariant.                       *)
LEMMA Places ==
  ASSUME Base, NEW s \in Streams
  PROVE  /\ snd[s] \in SendStream /\ InPlace(snd[s])
         /\ snd[s].acked_offset \in Nat /\ snd[s].sent_offset \in Nat /\ snd[s].queue_offset \in Nat
         /\ snd[s].acked_offset <= snd[s].sent_offset /\ snd[s].sent_offset <= snd[s].queue_offset
         /\ \A pn \in PacketsOf(s) :
              /\ pn \in 0 .. Len(log) - 1 /\ Packet(pn) \in Packets /\ Packet(pn).stream = s
              /\ Packet(pn).offset \in Nat /\ End(Packet(pn)) \in Nat
              /\ Packet(pn).offset < End(Packet(pn)) /\ End(Packet(pn)) <= snd[s].sent_offset
         /\ \A r \in snd[s].outstanding_acks :
              r \in Ranges /\ r.offset \in Nat /\ End(r) \in Nat /\ r.offset < End(r)
         /\ Len(snd[s].data_queue) \in Nat
         /\ \A i \in 1 .. Len(snd[s].data_queue) :
              /\ snd[s].data_queue[i] \in Item /\ snd[s].data_queue[i].offset \in Nat
              /\ snd[s].data_queue[i].size \in Nat \ {0}
              /\ snd[s].data_queue[i].offset + snd[s].data_queue[i].size <= MaxBytes
<1>1. LogOK /\ SndOK /\ MaxBytes \in Nat /\ Fragment \in Nat
  BY SizesAssumption, BoundsAssumption DEF Base
<1>2. /\ snd[s] \in SendStream /\ InPlace(snd[s])
      /\ snd[s].acked_offset \in Nat /\ snd[s].sent_offset \in Nat /\ snd[s].queue_offset \in 0 .. MaxBytes
      /\ snd[s].acked_offset <= snd[s].sent_offset /\ snd[s].sent_offset <= snd[s].queue_offset
  BY <1>1 DEF SndOK, StreamOK, SendStream, Offset
<1>3. ASSUME NEW pn \in PacketsOf(s)
      PROVE  /\ pn \in 0 .. Len(log) - 1 /\ Packet(pn) \in Packets /\ Packet(pn).stream = s
             /\ Packet(pn).offset \in Nat /\ End(Packet(pn)) \in Nat
             /\ Packet(pn).offset < End(Packet(pn)) /\ End(Packet(pn)) <= snd[s].sent_offset
  <2>1. pn \in 0 .. Len(log) - 1 /\ Packet(pn).stream = s
    BY <1>1 DEF PacketsOf, LogOK
  <2>2. pn + 1 \in 1 .. Len(log) /\ Packet(pn) = log[pn + 1]
    BY <1>1, <2>1, Facts DEF Packet
  <2>. QED BY <1>1, <2>1, <2>2, Facts DEF LogOK
<1>4. ASSUME NEW r \in snd[s].outstanding_acks
      PROVE  r \in Ranges /\ r.offset \in Nat /\ End(r) \in Nat /\ r.offset < End(r)
  BY <1>1, <1>2 DEF SendStream, Ranges, Offset, End
<1>. DEFINE dq == snd[s].data_queue
<1>5. dq \in Seq(Item)
  BY <1>2 DEF SendStream
<1>6. /\ Len(dq) \in Nat /\ \A i \in 1 .. Len(dq) : dq[i] \in Item
      /\ \A i \in 1 .. Len(dq) : dq[i].offset + dq[i].size <= snd[s].queue_offset
  <2>1. \A i \in 1 .. Len(dq) : dq[i].offset + dq[i].size <= snd[s].queue_offset
    BY <1>2 DEF InPlace
  <2>. HIDE DEF dq
  <2>. QED BY <1>5, <2>1, LenProperties, ElementOfSeq
<1>7. ASSUME NEW i \in 1 .. Len(dq)
      PROVE  dq[i].offset \in Nat /\ dq[i].size \in Nat \ {0} /\ dq[i].offset + dq[i].size <= MaxBytes
  <2>. HIDE DEF dq
  <2>. QED BY <1>1, <1>2, <1>6 DEF Item, Offset
<1>. QED BY <1>2, <1>3, <1>4, <1>6, <1>7

(* A stream whose packets and offsets did not change.                      *)
LEMMA StreamStays ==
  ASSUME NEW s \in Streams, Tiled(s), Queue(s),
         snd'[s].data_queue = snd[s].data_queue, snd'[s].queue_offset = snd[s].queue_offset,
         snd'[s].sent_offset = snd[s].sent_offset, snd'[s].acked_offset = snd[s].acked_offset,
         snd'[s].outstanding_acks = snd[s].outstanding_acks,
         PacketsOf(s)' = PacketsOf(s), \A pn \in PacketsOf(s) : Packet(pn)' = Packet(pn)
  PROVE  Tiled(s)' /\ Queue(s)'
<1>1. Tiled(s)'
  BY DEF Tiled, Apart, Covers, End
<1>2. Queue(s)'
  BY DEF Queue, ItemAt, Inside, End
<1>. QED BY <1>1, <1>2

(* The same, of all streams, when no packet is sent or acked.              *)
LEMMA BooksStay ==
  ASSUME Books, log' = log, sent_packets' \cup lost_packets' = sent_packets \cup lost_packets,
         \A s \in Streams :
           /\ snd'[s].data_queue = snd[s].data_queue /\ snd'[s].queue_offset = snd[s].queue_offset
           /\ snd'[s].sent_offset = snd[s].sent_offset /\ snd'[s].acked_offset = snd[s].acked_offset
           /\ snd'[s].outstanding_acks = snd[s].outstanding_acks
  PROVE  Books'
<1>1. \A pn : Packet(pn)' = Packet(pn)
  BY DEF Packet
<1>2. ASSUME NEW s \in Streams PROVE PacketsOf(s)' = PacketsOf(s)
  BY <1>1 DEF PacketsOf
<1>3. ASSUME NEW s \in Streams PROVE Tiled(s)' /\ Queue(s)'
  BY <1>1, <1>2, StreamStays DEF Books
<1>. QED BY <1>3 DEF Books

-----------------------------------------------------------------------------
(* Queueing and dropping                                                   *)

(* send: the new item lies behind everything sent.                         *)
LEMMA SendBooks ==
  ASSUME Base, Books, NEW s \in Streams, NEW size \in Sizes, send(s, size)
  PROVE  Books'
<1>. DEFINE q == snd[s].queue_offset
            item == [offset |-> q, size |-> size]
            dq == snd[s].data_queue
<1>1. /\ log' = log /\ sent_packets' = sent_packets /\ lost_packets' = lost_packets
      /\ snd' = [snd EXCEPT ![s].data_queue = Append(@, item), ![s].queue_offset = @ + size]
      /\ q + size <= MaxBytes
  BY DEF send
<1>2. /\ DOMAIN snd = Streams /\ \A x \in Streams : snd[x] \in SendStream
      /\ size \in Nat \ {0} /\ q \in Nat /\ MaxBytes \in Nat
  BY Places, SizesAssumption, BoundsAssumption DEF Base, SndOK
<1>3. /\ snd'[s].data_queue = Append(dq, item) /\ snd'[s].queue_offset = q + size
      /\ snd'[s].sent_offset = snd[s].sent_offset /\ snd'[s].acked_offset = snd[s].acked_offset
      /\ snd'[s].outstanding_acks = snd[s].outstanding_acks
      /\ \A x \in Streams : x # s => snd'[x] = snd[x]
  BY <1>1, <1>2 DEF SendStream
<1>4. item \in Item /\ item.offset = q /\ item.size = size
  <2>1. q \in 0 .. MaxBytes /\ size \in 1 .. MaxBytes
    BY <1>1, <1>2
  <2>. QED BY <2>1 DEF Item, Offset
<1>. HIDE DEF item
<1>5. /\ Len(Append(dq, item)) = Len(dq) + 1 /\ Len(dq) \in Nat
      /\ \A i \in 1 .. Len(dq) : Append(dq, item)[i] = dq[i]
      /\ Append(dq, item)[Len(dq) + 1] = item
  <2>1. dq \in Seq(Item)
    BY <1>2 DEF SendStream
  <2>. HIDE DEF dq
  <2>. QED BY <1>4, <2>1, AppendProperties, LenProperties
<1>6. \A pn : Packet(pn)' = Packet(pn)
  BY <1>1 DEF Packet
<1>7. ASSUME NEW x \in Streams PROVE PacketsOf(x)' = PacketsOf(x)
  BY <1>1, <1>6 DEF PacketsOf
<1>8. ASSUME NEW x \in Streams, x # s PROVE Tiled(x)' /\ Queue(x)'
  BY <1>3, <1>6, <1>7, <1>8, StreamStays DEF Books
<1>9. Tiled(s)'
  BY <1>3, <1>6, <1>7 DEF Books, Tiled, Apart, Covers, End
<1>. DEFINE new == snd'[s].data_queue
<1>10. /\ Len(new) = Len(dq) + 1 /\ \A i \in 1 .. Len(dq) : new[i] = dq[i] /\ i \in 1 .. Len(new)
       /\ new[Len(dq) + 1] = item /\ Len(dq) + 1 \in 1 .. Len(new)
       /\ \A i \in 1 .. Len(new) : i \in 1 .. Len(dq) \/ i = Len(dq) + 1
  BY <1>3, <1>5
<1>11. ASSUME NEW byte \in snd[s].acked_offset .. (q + size) - 1
       PROVE  \E i \in 1 .. Len(new) : new[i].offset <= byte /\ byte < new[i].offset + new[i].size
  <2>1. CASE byte < q
    <3>1. byte \in snd[s].acked_offset .. q - 1
      BY <1>2, <2>1, Places
    <3>2. PICK i \in 1 .. Len(dq) : dq[i].offset <= byte /\ byte < dq[i].offset + dq[i].size
      BY <3>1 DEF Books, Queue, ItemAt
    <3>. HIDE DEF new, dq, q
    <3>. QED BY <1>10, <3>2
  <2>2. CASE ~(byte < q)
    <3>1. byte \in Int /\ byte < q + size /\ q <= byte
      BY <1>2, <2>2, Places
    <3>. HIDE DEF new, dq, q
    <3>. QED BY <1>4, <1>10, <3>1
  <2>. QED BY <2>1, <2>2
<1>12. ASSUME NEW i \in 1 .. Len(new), NEW f \in Fragments(s, new[i]), f.offset < snd[s].sent_offset
       PROVE  End(f) <= snd[s].sent_offset
  <2>1. CASE i \in 1 .. Len(dq)
    BY <1>10, <1>12, <2>1 DEF Books, Queue
  <2>2. CASE i = Len(dq) + 1
    <3>1. f \in Fragments(s, item) /\ item.offset + item.size <= MaxBytes
      BY <1>1, <1>4, <1>10, <1>12, <2>2
    <3>2. f \in Packets /\ item.offset <= f.offset
      BY <1>4, <3>1, FragmentsAre
    <3>3. f.offset \in Nat /\ snd[s].sent_offset \in Nat /\ snd[s].sent_offset <= q
      BY <1>2, <3>2, Places DEF Packets, Offset
    <3>. QED BY <1>2, <1>4, <1>12, <3>2, <3>3
  <2>. QED BY <1>10, <2>1, <2>2
<1>13. ASSUME NEW pn \in PacketsOf(s)
       PROVE  \E i \in 1 .. Len(new) :
                new[i].offset <= Packet(pn).offset /\ End(Packet(pn)) <= new[i].offset + new[i].size
  <2>1. PICK i \in 1 .. Len(dq) :
          dq[i].offset <= Packet(pn).offset /\ End(Packet(pn)) <= dq[i].offset + dq[i].size
    BY DEF Books, Queue, Inside
  <2>. HIDE DEF new, dq
  <2>. QED BY <1>10, <2>1
<1>14. Queue(s)'
  <2>1. (\A byte \in snd[s].acked_offset .. snd[s].queue_offset - 1 : ItemAt(snd[s], byte))'
    <3>1. SUFFICES ASSUME NEW byte \in snd'[s].acked_offset .. snd'[s].queue_offset - 1
                   PROVE  ItemAt(snd'[s], byte)
      OBVIOUS
    <3>2. byte \in snd[s].acked_offset .. (q + size) - 1
      BY <1>3
    <3>. QED BY <1>11, <3>2 DEF ItemAt
  <2>2. (\A i \in 1 .. Len(snd[s].data_queue) : \A f \in Fragments(s, snd[s].data_queue[i]) :
           f.offset < snd[s].sent_offset => End(f) <= snd[s].sent_offset)'
    BY <1>3, <1>12 DEF Fragments, End
  <2>3. (\A pn \in PacketsOf(s) : Inside(snd[s], Packet(pn)))'
    BY <1>6, <1>7, <1>13 DEF Inside, End
  <2>. QED BY <2>1, <2>2, <2>3 DEF Queue
<1>. QED BY <1>8, <1>9, <1>14 DEF Books

(* flush_stream: the stream has nothing sent, queued or acked any more.    *)
LEMMA FlushBooks ==
  ASSUME Base, Books, NEW s \in Streams, NEW request, Flush(s, request)
  PROVE  Books'
<1>1. /\ log' = log /\ sent_packets' = sent_packets \ PacketsOf(s)
      /\ lost_packets' = lost_packets \ PacketsOf(s) /\ snd' = [snd EXCEPT ![s] = Emptied(@)]
  BY DEF Flush
<1>2. /\ DOMAIN snd = Streams /\ snd[s] \in SendStream /\ snd[s].sent_offset \in Nat
  BY Places DEF Base, SndOK
<1>3. /\ snd'[s].data_queue = <<>> /\ snd'[s].queue_offset = snd[s].sent_offset
      /\ snd'[s].sent_offset = snd[s].sent_offset /\ snd'[s].acked_offset = snd[s].sent_offset
      /\ snd'[s].outstanding_acks = {}
      /\ \A x \in Streams : x # s => snd'[x] = snd[x]
  BY <1>1, <1>2 DEF Emptied, SendStream
<1>4. \A pn : Packet(pn)' = Packet(pn)
  BY <1>1 DEF Packet
<1>5. PacketsOf(s)' = {}
  BY <1>1, <1>4 DEF PacketsOf
<1>6. ASSUME NEW x \in Streams, x # s PROVE PacketsOf(x)' = PacketsOf(x)
  BY <1>1, <1>4, <1>6 DEF PacketsOf
<1>7. ASSUME NEW x \in Streams, x # s PROVE Tiled(x)' /\ Queue(x)'
  BY <1>3, <1>4, <1>6, <1>7, StreamStays DEF Books
<1>8. snd[s].sent_offset .. snd[s].sent_offset - 1 = {} /\ 1 .. Len(<<>>) = {}
  BY <1>2
<1>9. Tiled(s)'
  BY <1>3, <1>5, <1>8 DEF Tiled
<1>10. Queue(s)'
  BY <1>3, <1>5, <1>8 DEF Queue
<1>. QED BY <1>7, <1>9, <1>10 DEF Books

-----------------------------------------------------------------------------
(* Acks                                                                    *)

(* A stream after acks of some of its packets in flight.                   *)
LEMMA AckedFields ==
  ASSUME Base, NEW s \in Streams, NEW pns, pns \subseteq 0 .. Len(log) - 1
  PROVE  LET ranges == AckedRanges(pns, s) \cup snd[s].outstanding_acks
             acked == Extend(snd[s].acked_offset, ranges)
             new == AckStream(pns, s)
         IN /\ ranges \subseteq Ranges /\ Spans(ranges)
            /\ new.acked_offset = acked /\ new.outstanding_acks = Beyond(acked, ranges)
            /\ new.data_queue = From(snd[s].data_queue,
                                     {i \in 1 .. Len(snd[s].data_queue) :
                                        snd[s].data_queue[i].offset + snd[s].data_queue[i].size > acked})
            /\ new.sent_offset = snd[s].sent_offset /\ new.queue_offset = snd[s].queue_offset
<1>. DEFINE ranges == AckedRanges(pns, s) \cup snd[s].outstanding_acks
            acked == Extend(snd[s].acked_offset, ranges)
            dq == snd[s].data_queue
            tail == From(dq, {i \in DOMAIN dq : dq[i].offset + dq[i].size > acked})
<1>1. snd[s] \in SendStream /\ dq \in Seq(Item)
  BY Places DEF SendStream
<1>2. AckStream(pns, s) = [snd[s] EXCEPT !.acked_offset = acked,
                                         !.outstanding_acks = Beyond(acked, ranges),
                                         !.data_queue = tail]
  BY DEF AckStream
<1>3. DOMAIN dq = 1 .. Len(dq)
  <2>. HIDE DEF dq
  <2>. QED BY <1>1, LenProperties
<1>4. ASSUME NEW r \in AckedRanges(pns, s) PROVE r \in Ranges
  <2>1. PICK pn \in pns : r = RangeOf(Packet(pn))
    BY DEF AckedRanges
  <2>2. pn + 1 \in 1 .. Len(log) /\ Packet(pn) = log[pn + 1]
    BY Facts DEF Packet, Base
  <2>3. Packet(pn) \in Packets
    BY <2>2, Facts DEF Base
  <2>. QED BY <2>1, <2>3 DEF RangeOf, Packets, Ranges
<1>5. ranges \subseteq Ranges
  BY <1>1, <1>4 DEF SendStream
<1>. HIDE DEF acked, tail
<1>6. Spans(ranges)
  <2>. HIDE DEF ranges
  <2>. QED BY <1>5, RangesSpan
<1>. HIDE DEF ranges
<1>7. /\ AckStream(pns, s).acked_offset = acked
      /\ AckStream(pns, s).outstanding_acks = Beyond(acked, ranges)
      /\ AckStream(pns, s).data_queue = tail
      /\ AckStream(pns, s).sent_offset = snd[s].sent_offset
      /\ AckStream(pns, s).queue_offset = snd[s].queue_offset
  BY <1>1, <1>2 DEF SendStream
<1>8. tail = From(dq, {i \in 1 .. Len(dq) : dq[i].offset + dq[i].size > acked})
  BY <1>3 DEF tail
<1>. QED BY <1>5, <1>6, <1>7, <1>8 DEF ranges, acked

(* Acks move ranges from the packets to outstanding_acks, or under         *)
(* acked_offset: what is left stays apart and covers the rest.             *)
LEMMA AckTiles ==
  ASSUME Base, NEW s \in Streams, Tiled(s), NEW pns, pns \subseteq 0 .. Len(log) - 1,
         snd'[s] = AckStream(pns, s), PacketsOf(s)' = PacketsOf(s) \ pns,
         \A pn \in pns : Packet(pn).stream = s => pn \in PacketsOf(s),
         \A pn \in PacketsOf(s) : Packet(pn)' = Packet(pn)
  PROVE  Tiled(s)'
<1>. DEFINE out == snd[s].outstanding_acks
            ranges == AckedRanges(pns, s) \cup out
            old == snd[s].acked_offset
            acked == Extend(old, ranges)
            rest == PacketsOf(s) \ pns
<1>1. /\ snd'[s].acked_offset = acked /\ snd'[s].outstanding_acks = Beyond(acked, ranges)
      /\ snd'[s].sent_offset = snd[s].sent_offset /\ Spans(ranges)
  BY AckedFields
<1>2. /\ old \in Nat /\ snd[s].sent_offset \in Nat
      /\ \A pn \in PacketsOf(s) : Packet(pn).offset \in Nat /\ End(Packet(pn)) \in Nat
                                  /\ Packet(pn).offset < End(Packet(pn))
      /\ \A r \in out : r.offset \in Nat /\ End(r) \in Nat /\ r.offset < End(r)
  BY Places
<1>3. /\ \A pn \in PacketsOf(s) : old <= Packet(pn).offset
      /\ \A pn, qn \in PacketsOf(s) : pn # qn => Apart(Packet(pn), Packet(qn))
      /\ \A r, q \in out : r # q => Apart(r, q)
      /\ \A pn \in PacketsOf(s) : \A r \in out : Apart(Packet(pn), r)
      /\ \A byte \in old .. snd[s].sent_offset - 1 :
           (\E pn \in PacketsOf(s) : Covers(Packet(pn), byte)) \/ (\E r \in out : Covers(r, byte))
  BY DEF Tiled
<1>4. /\ acked \in Nat /\ acked >= old
      /\ \A k \in ranges : k.offset <= acked => End(k) <= acked
      /\ \A byte \in old .. acked - 1 : \E k \in ranges : Covers(k, byte)
  <2>. HIDE DEF ranges, old
  <2>. QED BY <1>1, <1>2, ExtendIs
<1>. HIDE DEF acked, old, out
<1>5. \A pn \in PacketsOf(s) : /\ RangeOf(Packet(pn)).offset = Packet(pn).offset
                               /\ End(RangeOf(Packet(pn))) = End(Packet(pn))
  BY DEF RangeOf, End
<1>6. ASSUME NEW k \in ranges
      PROVE  k \in out \/ \E pn \in pns \cap PacketsOf(s) : k = RangeOf(Packet(pn))
  BY DEF AckedRanges
<1>7. \A pn \in pns \cap PacketsOf(s) : RangeOf(Packet(pn)) \in ranges
  <2>1. \A pn \in PacketsOf(s) : Packet(pn).stream = s
    BY DEF PacketsOf
  <2>. QED BY <2>1 DEF AckedRanges
<1>8. out \subseteq ranges
  OBVIOUS
<1>. HIDE DEF ranges
<1>9. ASSUME NEW k \in ranges PROVE k.offset \in Nat /\ End(k) \in Nat /\ k.offset < End(k)
  BY <1>2, <1>5, <1>6
<1>10. ASSUME NEW pn \in rest, NEW k \in ranges PROVE Apart(Packet(pn), k)
  <2>1. CASE k \in out
    BY <1>3, <2>1
  <2>2. CASE \E qn \in pns \cap PacketsOf(s) : k = RangeOf(Packet(qn))
    <3>1. PICK qn \in pns \cap PacketsOf(s) : k = RangeOf(Packet(qn))
      BY <2>2
    <3>2. Apart(Packet(pn), Packet(qn))
      BY <1>3, <3>1
    <3>. QED BY <1>5, <3>1, <3>2 DEF Apart
  <2>. QED BY <1>6, <2>1, <2>2
<1>11. ASSUME NEW pn \in rest PROVE acked <= Packet(pn).offset
  <2>1. ASSUME ~(acked <= Packet(pn).offset) PROVE FALSE
    <3>1. Packet(pn).offset \in old .. acked - 1
      BY <1>2, <1>3, <1>4, <2>1
    <3>2. PICK k \in ranges : Covers(k, Packet(pn).offset)
      BY <1>4, <3>1
    <3>. QED BY <1>2, <1>9, <1>10, <3>2 DEF Covers, Apart
  <2>. QED BY <2>1
<1>12. ASSUME NEW k \in ranges, NEW q \in ranges, k # q PROVE Apart(k, q)
  <2>1. CASE k \in out /\ q \in out
    BY <1>3, <1>12, <2>1
  <2>2. ASSUME NEW qn \in PacketsOf(s), NEW r \in out
        PROVE  Apart(RangeOf(Packet(qn)), r) /\ Apart(r, RangeOf(Packet(qn)))
    BY <1>3, <1>5 DEF Apart
  <2>3. ASSUME NEW pn \in PacketsOf(s), NEW qn \in PacketsOf(s),
               RangeOf(Packet(pn)) # RangeOf(Packet(qn))
        PROVE  Apart(RangeOf(Packet(pn)), RangeOf(Packet(qn)))
    BY <1>3, <1>5, <2>3 DEF Apart
  <2>. QED BY <1>6, <1>12, <2>1, <2>2, <2>3
<1>13. ASSUME NEW byte \in acked .. snd[s].sent_offset - 1
       PROVE  \/ \E pn \in rest : Covers(Packet(pn), byte)
              \/ \E k \in ranges : k.offset > acked /\ Covers(k, byte)
  <2>1. byte \in Nat /\ acked <= byte /\ byte \in old .. snd[s].sent_offset - 1
    BY <1>2, <1>4
  <2>2. ASSUME NEW k \in ranges, Covers(k, byte) PROVE k.offset > acked
    BY <1>4, <1>9, <2>1, <2>2 DEF Covers
  <2>3. CASE \E r \in out : Covers(r, byte)
    BY <1>8, <2>2, <2>3
  <2>4. CASE \E pn \in PacketsOf(s) : Covers(Packet(pn), byte)
    <3>1. PICK pn \in PacketsOf(s) : Covers(Packet(pn), byte)
      BY <2>4
    <3>2. Covers(RangeOf(Packet(pn)), byte)
      BY <1>5, <3>1 DEF Covers
    <3>. QED BY <1>7, <2>2, <3>1, <3>2
  <2>. QED BY <1>3, <2>1, <2>3, <2>4
<1>14. Beyond(acked, ranges) = {k \in ranges : k.offset > acked}
  BY DEF Beyond
<1>15. PacketsOf(s)' = rest /\ \A pn \in rest : Packet(pn)' = Packet(pn)
  OBVIOUS
<1>. HIDE DEF rest
<1>16. (\A pn \in PacketsOf(s) : snd[s].acked_offset <= Packet(pn).offset)'
  BY <1>1, <1>11, <1>15
<1>17. (\A pn, qn \in PacketsOf(s) : pn # qn => Apart(Packet(pn), Packet(qn)))'
  <2>1. \A pn, qn \in rest : pn # qn => Apart(Packet(pn), Packet(qn))
    BY <1>3 DEF rest
  <2>. QED BY <1>15, <2>1 DEF Apart, End
<1>18. (\A r, q \in snd[s].outstanding_acks : r # q => Apart(r, q))'
  BY <1>1, <1>12, <1>14 DEF Apart, End
<1>19. (\A pn \in PacketsOf(s) : \A r \in snd[s].outstanding_acks : Apart(Packet(pn), r))'
  BY <1>1, <1>10, <1>14, <1>15 DEF Apart, End
<1>20. (\A byte \in snd[s].acked_offset .. snd[s].sent_offset - 1 :
          \/ \E pn \in PacketsOf(s) : Covers(Packet(pn), byte)
          \/ \E r \in snd[s].outstanding_acks : Covers(r, byte))'
  <2>1. SUFFICES ASSUME NEW byte \in snd'[s].acked_offset .. snd'[s].sent_offset - 1
                 PROVE  \/ \E pn \in PacketsOf(s)' : Covers(Packet(pn)', byte)
                        \/ \E r \in snd'[s].outstanding_acks : Covers(r, byte)
    BY DEF Covers, End
  <2>2. byte \in acked .. snd[s].sent_offset - 1
    BY <1>1
  <2>. QED BY <1>1, <1>13, <1>14, <1>15, <2>2
<1>. QED BY <1>16, <1>17, <1>18, <1>19, <1>20 DEF Tiled

(* Only items that end at or before acked_offset are freed, and nothing is *)
(* left to wait for in those.                                              *)
LEMMA AckQueue ==
  ASSUME Base, NEW s \in Streams, Queue(s), Tiled(s)', NEW pns, pns \subseteq 0 .. Len(log) - 1,
         snd'[s] = AckStream(pns, s), PacketsOf(s)' = PacketsOf(s) \ pns,
         \A pn \in PacketsOf(s) : Packet(pn)' = Packet(pn)
  PROVE  Queue(s)'
<1>. DEFINE dq == snd[s].data_queue  old == snd[s].acked_offset  acked == snd'[s].acked_offset
            positions == {i \in 1 .. Len(dq) : dq[i].offset + dq[i].size > acked}
            tail == From(dq, positions)
<1>1. /\ snd'[s].data_queue = tail
      /\ snd'[s].sent_offset = snd[s].sent_offset /\ snd'[s].queue_offset = snd[s].queue_offset
  <2>. DEFINE e == Extend(old, AckedRanges(pns, s) \cup snd[s].outstanding_acks)
  <2>1. /\ AckStream(pns, s).acked_offset = e
        /\ AckStream(pns, s).data_queue =
             From(dq, {i \in 1 .. Len(dq) : dq[i].offset + dq[i].size > e})
        /\ AckStream(pns, s).sent_offset = snd[s].sent_offset
        /\ AckStream(pns, s).queue_offset = snd[s].queue_offset
    BY AckedFields
  <2>. HIDE DEF e, dq
  <2>. QED BY <2>1
<1>2. acked \in Nat /\ old \in Nat /\ old <= acked
  <2>1. LogOK /\ SndOK
    BY DEF Base
  <2>2. /\ AckStream(pns, s).acked_offset \in Nat
        /\ snd[s].acked_offset <= AckStream(pns, s).acked_offset
    BY <2>1, AckStreamIs
  <2>3. snd[s].acked_offset \in Nat
    BY Places
  <2>. QED BY <2>2, <2>3
<1>3. /\ Len(dq) \in Nat /\ snd[s].queue_offset \in Nat
      /\ \A i \in 1 .. Len(dq) : dq[i].offset \in Nat /\ dq[i].size \in Nat \ {0}
  BY Places
<1>4. \E m \in 1 .. Len(dq) + 1 :
        /\ Len(tail) = Len(dq) - m + 1
        /\ \A i \in 1 .. Len(dq) - m + 1 : tail[i] = dq[m + i - 1]
        /\ \A i \in 1 .. m - 1 : i \notin positions
  <2>1. dq \in Seq(Item) /\ DOMAIN dq = 1 .. Len(dq)
    <3>1. dq \in Seq(Item)
      BY Places DEF SendStream
    <3>. HIDE DEF dq
    <3>. QED BY <3>1, LenProperties
  <2>2. positions \subseteq DOMAIN dq
    BY <2>1
  <2>. HIDE DEF dq, positions
  <2>3. \E m \in 1 .. Len(dq) + 1 :
           /\ m = Min(positions \cup {Len(dq) + 1})
           /\ From(dq, positions) \in Seq(Item)
           /\ Len(From(dq, positions)) = Len(dq) - m + 1
           /\ \A i \in 1 .. Len(dq) - m + 1 : From(dq, positions)[i] = dq[m + i - 1]
           /\ \A i \in 1 .. m - 1 : i \notin positions
    BY <2>1, <2>2, FromIs
  <2>. QED BY <2>3
<1>5. PICK m \in 1 .. Len(dq) + 1 :
        /\ Len(tail) = Len(dq) - m + 1
        /\ \A i \in 1 .. Len(dq) - m + 1 : tail[i] = dq[m + i - 1]
        /\ \A i \in 1 .. m - 1 : i \notin positions
  BY <1>4
<1>. HIDE DEF tail
\* items that reach beyond acked_offset stay, and none comes
<1>6. ASSUME NEW i \in positions PROVE \E j \in 1 .. Len(tail) : tail[j] = dq[i]
  <2>1. i \in 1 .. Len(dq) /\ m <= i
    BY <1>5
  <2>2. (i - m) + 1 \in 1 .. Len(tail) /\ (i - m) + 1 \in 1 .. Len(dq) - m + 1 /\ m + ((i - m) + 1) - 1 = i
    BY <1>3, <1>5, <2>1
  <2>3. tail[(i - m) + 1] = dq[m + ((i - m) + 1) - 1]
    BY <1>5, <2>2
  <2>. QED BY <2>2, <2>3
<1>7. ASSUME NEW j \in 1 .. Len(tail) PROVE \E i \in 1 .. Len(dq) : tail[j] = dq[i]
  <2>1. j \in 1 .. Len(dq) - m + 1 /\ m + j - 1 \in 1 .. Len(dq)
    BY <1>3, <1>5
  <2>. QED BY <1>5, <2>1
<1>8. ASSUME NEW byte \in acked .. snd[s].queue_offset - 1
      PROVE  \E j \in 1 .. Len(tail) : tail[j].offset <= byte /\ byte < tail[j].offset + tail[j].size
  <2>1. byte \in old .. snd[s].queue_offset - 1 /\ byte \in Nat /\ acked <= byte
    BY <1>2, <1>3
  <2>2. PICK i \in 1 .. Len(dq) : dq[i].offset <= byte /\ byte < dq[i].offset + dq[i].size
    BY <2>1 DEF Queue, ItemAt
  <2>3. i \in positions
    BY SMTT(30), <1>2, <1>3, <2>1, <2>2
  <2>4. PICK j \in 1 .. Len(tail) : tail[j] = dq[i]
    BY <1>6, <2>3
  <2>. QED BY <2>2, <2>4
<1>9. ASSUME NEW pn \in PacketsOf(s) \ pns
      PROVE  \E j \in 1 .. Len(tail) :
               tail[j].offset <= Packet(pn).offset /\ End(Packet(pn)) <= tail[j].offset + tail[j].size
  <2>1. PICK i \in 1 .. Len(dq) :
          dq[i].offset <= Packet(pn).offset /\ End(Packet(pn)) <= dq[i].offset + dq[i].size
    BY DEF Queue, Inside
  <2>2. acked <= Packet(pn).offset
    BY DEF Tiled
  <2>3. Packet(pn).offset \in Nat /\ End(Packet(pn)) \in Nat /\ Packet(pn).offset < End(Packet(pn))
    BY Places
  <2>4. i \in positions
    <3>. DEFINE o == Packet(pn).offset  e == End(Packet(pn))
    <3>1. o \in Nat /\ e \in Nat /\ o < e /\ acked <= o /\ e <= dq[i].offset + dq[i].size
      BY <2>1, <2>2, <2>3
    <3>. HIDE DEF o, e, dq, acked
    <3>2. dq[i].offset + dq[i].size > acked
      BY <1>2, <1>3, <3>1
    <3>. QED BY <3>2
  <2>5. PICK j \in 1 .. Len(tail) : tail[j] = dq[i]
    BY <1>6, <2>4
  <2>. QED BY <2>1, <2>5
<1>10. ASSUME NEW j \in 1 .. Len(tail), NEW f \in Fragments(s, tail[j]), f.offset < snd[s].sent_offset
       PROVE  End(f) <= snd[s].sent_offset
  <2>1. PICK i \in 1 .. Len(dq) : tail[j] = dq[i]
    BY <1>7
  <2>. QED BY <1>10, <2>1 DEF Queue
<1>. HIDE DEF positions, dq
<1>11. (\A byte \in snd[s].acked_offset .. snd[s].queue_offset - 1 : ItemAt(snd[s], byte))'
  <2>1. SUFFICES ASSUME NEW byte \in snd'[s].acked_offset .. snd'[s].queue_offset - 1
                 PROVE  ItemAt(snd'[s], byte)
    OBVIOUS
  <2>2. byte \in acked .. snd[s].queue_offset - 1
    BY <1>1
  <2>. QED BY <1>1, <1>8, <2>2 DEF ItemAt
<1>12. (\A i \in 1 .. Len(snd[s].data_queue) : \A f \in Fragments(s, snd[s].data_queue[i]) :
          f.offset < snd[s].sent_offset => End(f) <= snd[s].sent_offset)'
  BY <1>1, <1>10 DEF Fragments, End
<1>13. (\A pn \in PacketsOf(s) : Inside(snd[s], Packet(pn)))'
  BY <1>1, <1>9 DEF Inside, End
<1>. QED BY <1>11, <1>12, <1>13 DEF Queue

(* did_recv_ACK: of every stream.                                          *)
LEMMA AckBooks ==
  ASSUME Base, Books, NEW m \in net, did_recv_ACK(m)
  PROVE  Books'
<1>1. PICK acked, gone :
        /\ acked = NewlyAcked(m) /\ gone \in LostPrefixes(acked)
        /\ snd' = [s \in Streams |-> AckStream(acked, s)]
        /\ sent_packets' = (sent_packets \ acked) \ gone
        /\ lost_packets' = lost_packets \cup gone
  BY DEF did_recv_ACK
<1>2. log' = log
  BY DEF did_recv_ACK
<1>3. /\ acked \subseteq sent_packets /\ gone \subseteq sent_packets \ acked
      /\ sent_packets \cap lost_packets = {} /\ acked \subseteq 0 .. Len(log) - 1
  BY <1>1 DEF NewlyAcked, LostPrefixes, Base, LogOK
<1>4. \A pn : Packet(pn)' = Packet(pn)
  BY <1>2 DEF Packet
<1>5. ASSUME NEW s \in Streams PROVE Tiled(s)' /\ Queue(s)'
  <2>1. PacketsOf(s)' = PacketsOf(s) \ acked
    BY <1>1, <1>3, <1>4 DEF PacketsOf
  <2>2. \A pn \in acked : Packet(pn).stream = s => pn \in PacketsOf(s)
    BY <1>3 DEF PacketsOf
  <2>3. snd'[s] = AckStream(acked, s) /\ Tiled(s) /\ Queue(s)
    BY <1>1 DEF Books
  <2>4. Tiled(s)'
    BY <1>3, <1>4, <2>1, <2>2, <2>3, AckTiles
  <2>. QED BY <1>3, <1>4, <2>1, <2>3, <2>4, AckQueue
<1>. QED BY <1>5 DEF Books

-----------------------------------------------------------------------------
(* Rounds of sending                                                       *)

(* What is left to send covers all that was not sent.                      *)
LEMMA UnsentCovers ==
  ASSUME Base, NEW s \in Streams, Queue(s),
         NEW byte \in snd[s].sent_offset .. snd[s].queue_offset - 1
  PROVE  \E f \in Unsent(s) : Covers(f, byte)
<1>. DEFINE dq == snd[s].data_queue
<1>1. /\ snd[s].acked_offset \in Nat /\ snd[s].sent_offset \in Nat /\ snd[s].queue_offset \in Nat
      /\ snd[s].acked_offset <= snd[s].sent_offset
  BY Places
<1>2. byte \in snd[s].acked_offset .. snd[s].queue_offset - 1 /\ byte \in Nat /\ snd[s].sent_offset <= byte
  BY <1>1
<1>3. PICK i \in 1 .. Len(dq) : dq[i].offset <= byte /\ byte < dq[i].offset + dq[i].size
  BY <1>2 DEF Queue, ItemAt
<1>4. PICK item \in Item : item = dq[i] /\ item.offset + item.size <= MaxBytes
  BY Places
<1>5. item.offset \in Nat /\ item.size \in Nat
  BY <1>4, BoundsAssumption DEF Item, Offset
<1>6. byte \in item.offset .. item.offset + item.size - 1
  BY <1>2, <1>3, <1>4, <1>5
<1>7. PICK f \in Fragments(s, item) : Covers(f, byte)
  BY <1>4, <1>6, FragmentsAre
<1>8. f \in Packets
  BY <1>4, FragmentsAre
<1>9. f.offset \in Nat /\ End(f) \in Nat
  BY <1>8, BoundsAssumption, SizesAssumption DEF Packets, Offset, End
<1>10. f.offset < snd[s].sent_offset => End(f) <= snd[s].sent_offset
  BY <1>4 DEF Queue
<1>11. f.offset >= snd[s].sent_offset
  BY <1>1, <1>2, <1>7, <1>9, <1>10 DEF Covers
<1>12. i \in DOMAIN dq
  <2>1. dq \in Seq(Item)
    BY Places DEF SendStream
  <2>. HIDE DEF dq
  <2>. QED BY <2>1, LenProperties
<1>. QED BY <1>4, <1>7, <1>11, <1>12 DEF Unsent

(* A backlog is the lost packets, then the new data.                       *)
LEMMA BacklogParts ==
  ASSUME Base
  PROVE  LET k == Cardinality(lost_packets)
         IN /\ k \in Nat /\ Len(NewData) \in Nat /\ Len(Backlog) = k + Len(NewData)
            /\ \A i \in 1 .. k : LostOrder[i] \in lost_packets /\ Backlog[i] = Packet(LostOrder[i])
            /\ \A i \in k + 1 .. k + Len(NewData) :
                 i - k \in 1 .. Len(NewData) /\ Backlog[i] = NewData[i - k]
<1>. DEFINE k == Cardinality(lost_packets)  m == Len(NewData)
<1>1. /\ k \in Nat /\ Retransmissions \in Seq(Packets) /\ Len(Retransmissions) = k
      /\ \A i \in 1 .. k : LostOrder[i] \in lost_packets /\ Retransmissions[i] = Packet(LostOrder[i])
  BY RetransmissionsAre DEF Base, LogOK
<1>2. Ready
  BY DEF Ready, SndOK, StreamOK, ControlOK, Base
<1>3. NewData \in Seq(Packets) /\ m \in Nat
  BY <1>2, NewDataIs, LenProperties
<1>4. /\ Len(Backlog) = k + m
      /\ \A i \in 1 .. k + m : Backlog[i] = IF i <= k THEN Retransmissions[i] ELSE NewData[i - k]
  <2>1. /\ Len(Retransmissions \o NewData) = Len(Retransmissions) + Len(NewData)
        /\ \A i \in 1 .. Len(Retransmissions) + Len(NewData) :
             (Retransmissions \o NewData)[i] =
               IF i <= Len(Retransmissions) THEN Retransmissions[i] ELSE NewData[i - Len(Retransmissions)]
    BY <1>1, <1>3, ConcatProperties
  <2>. QED BY <1>1, <2>1 DEF Backlog
<1>. HIDE DEF k, m
<1>5. \A i \in 1 .. k : i \in 1 .. k + m /\ i <= k
  BY <1>1, <1>3
<1>6. \A i \in k + 1 .. k + m : i \in 1 .. k + m /\ ~(i <= k) /\ i - k \in 1 .. m
  BY <1>1, <1>3
<1>7. \A i \in 1 .. k : LostOrder[i] \in lost_packets /\ Backlog[i] = Packet(LostOrder[i])
  BY <1>1, <1>4, <1>5
<1>8. \A i \in k + 1 .. k + m : i - k \in 1 .. m /\ Backlog[i] = NewData[i - k]
  BY <1>4, <1>6
<1>. QED BY <1>1, <1>3, <1>4, <1>7, <1>8 DEF k, m

(* A round resends the lost packets with the lowest numbers.               *)
LEMMA LostLeft ==
  ASSUME Base, NEW n \in Nat, NEW i \in 1 .. Cardinality(lost_packets)
  PROVE  Cardinality({x \in lost_packets : x <= LostOrder[i]}) > n <=> i > n
<1>. DEFINE key == [pn \in lost_packets |-> <<0, pn>>]  pn == LostOrder[i]
            below == {x \in lost_packets : x < pn}
<1>1. /\ IsFiniteSet(lost_packets) /\ pn \in lost_packets
      /\ log \in Seq(Packets) /\ lost_packets \subseteq 0 .. Len(log) - 1
  BY RetransmissionsAre DEF Base, LogOK
<1>2. Len(log) \in Nat /\ lost_packets \subseteq Nat
  BY <1>1, LenProperties
<1>3. DOMAIN key = lost_packets /\ \A x \in lost_packets : key[x] = <<0, x>> /\ x \in Nat
  BY <1>2
<1>4. LostOrder = InOrder(key)
  BY DEF LostOrder
<1>. HIDE DEF key
<1>5. Keyed(key)
  <2>1. key \in [DOMAIN key -> Nat \X Nat]
    <3>1. key = [x \in lost_packets |-> <<0, x>>]
      BY DEF key
    <3>. QED BY <1>3, <3>1
  <2>2. \A x, y \in DOMAIN key : key[x] = key[y] => x = y
    BY <1>3
  <2>. QED BY <1>1, <1>3, <2>1, <2>2 DEF Keyed
<1>6. Rank(key, pn) = i - 1
  <2>1. \A j \in 1 .. Cardinality(DOMAIN key) : Rank(key, InOrder(key)[j]) = j - 1
    BY <1>5, InOrderIs
  <2>. QED BY <1>3, <1>4, <2>1
<1>. HIDE DEF pn
<1>7. {y \in DOMAIN key : Before(key[y], key[pn])} = below
  <2>1. ASSUME NEW y \in lost_packets PROVE Before(key[y], key[pn]) <=> y < pn
    <3>1. key[y] = <<0, y>> /\ key[pn] = <<0, pn>> /\ y \in Nat /\ pn \in Nat
      BY <1>1, <1>3
    <3>2. Before(<<0, y>>, <<0, pn>>) <=> y < pn
      BY <3>1 DEF Before
    <3>. QED BY <3>1, <3>2
  <2>. QED BY <1>3, <2>1
<1>8. Cardinality(below) = i - 1
  BY <1>6, <1>7 DEF Rank
<1>9. {x \in lost_packets : x <= pn} = below \cup {pn} /\ pn \notin below
  <2>1. pn \in Nat /\ \A x \in lost_packets : x \in Nat
    BY <1>1, <1>2
  <2>2. \A x \in lost_packets : (x <= pn <=> x < pn \/ x = pn) /\ ~(pn < pn)
    BY <2>1
  <2>. QED BY <1>1, <2>2
<1>10. IsFiniteSet(below)
  <2>1. below \in SUBSET lost_packets
    OBVIOUS
  <2>. HIDE DEF below
  <2>. QED BY <1>1, <2>1, FS_Subset
<1>. HIDE DEF below
<1>11. Cardinality(below \cup {pn}) = Cardinality(below) + 1
  BY <1>9, <1>10, FS_AddElement
<1>12. Cardinality({x \in lost_packets : x <= pn}) = i
  <2>. DEFINE c == Cardinality(below \cup {pn})
  <2>1. c = (i - 1) + 1
    BY <1>8, <1>11
  <2>. HIDE DEF c
  <2>2. c = i
    BY <2>1
  <2>. QED BY <1>9, <2>2 DEF c
<1>. QED BY <1>12 DEF pn

(* After a round of n packets, packet pn is packet o, kept or sent again,  *)
(* or it is the i-th of the backlog, sent for the first time.              *)
Origin(n, s, pn, o) ==
  /\ o \in PacketsOf(s) /\ Packet(pn)' = Packet(o)
  /\ \/ pn = o /\ o \in sent_packets \cup lost_packets'
     \/ \E i \in 1 .. n : i <= Cardinality(lost_packets) /\ pn = Len(log) + i - 1 /\ o = LostOrder[i]
Fresh(n, s, pn, i) ==
  /\ i \in Cardinality(lost_packets) + 1 .. n /\ pn = Len(log) + i - 1
  /\ Packet(pn)' = Backlog[i] /\ Backlog[i] \in Unsent(s)

(* A round loses no packet and adds the new ones it sends, nothing else.   *)
LEMMA RoundPackets ==
  ASSUME Base, NEW n \in 0 .. Len(Backlog), SendRound(Backlog, n), NEW s \in Streams
  PROVE  /\ \A pn \in PacketsOf(s)' : (\E o : Origin(n, s, pn, o)) \/ (\E i : Fresh(n, s, pn, i))
         /\ \A pn \in PacketsOf(s) : \E qn \in PacketsOf(s)' : Packet(qn)' = Packet(pn)
         /\ \A i \in Cardinality(lost_packets) + 1 .. n : Backlog[i].stream = s =>
              \E qn \in PacketsOf(s)' : Packet(qn)' = Backlog[i]
<1>. DEFINE k == Cardinality(lost_packets)
<1>0. PICK L \in Nat : L = Len(log)
  BY Facts DEF Base
<1>1. /\ k \in Nat /\ Len(NewData) \in Nat /\ Len(Backlog) = k + Len(NewData)
      /\ \A i \in 1 .. k : LostOrder[i] \in lost_packets /\ Backlog[i] = Packet(LostOrder[i])
  BY BacklogParts
<1>2. Sent(n)
  BY RoundSends DEF Base
<1>3. /\ n \in Nat /\ L \in Nat
      /\ \A i \in 1 .. L : log'[i] = log[i]
      /\ \A i \in 1 .. n : log'[L + i] = Backlog[i]
  BY <1>0, <1>2 DEF Sent
<1>4. /\ sent_packets' = sent_packets \cup (L .. L + n - 1)
      /\ lost_packets' = {pn \in lost_packets : Cardinality({x \in lost_packets : x <= pn}) > n}
  BY <1>0 DEF SendRound
<1>5. sent_packets \subseteq 0 .. L - 1 /\ lost_packets \subseteq 0 .. L - 1
  BY <1>0 DEF Base, LogOK
<1>6. \A i \in k + 1 .. Len(Backlog) : NewPacket(Backlog[i])
  BY BacklogIs DEF Base
<1>7. \A i \in 1 .. k : LostOrder[i] \in lost_packets' <=> i > n
  BY <1>1, <1>3, <1>4, LostLeft
<1>8. \A pn \in lost_packets : \E i \in 1 .. k : LostOrder[i] = pn
  BY RetransmissionsAre DEF Base, LogOK
<1>. HIDE DEF k
<1>9. ASSUME NEW o \in 0 .. L - 1 PROVE Packet(o)' = Packet(o)
  <2>1. o + 1 \in 1 .. L
    BY <1>3
  <2>. QED BY <1>3, <2>1 DEF Packet
<1>10. ASSUME NEW i \in 1 .. n
       PROVE  L + i - 1 \in L .. L + n - 1 /\ Packet(L + i - 1)' = Backlog[i]
  <2>1. L + i - 1 \in L .. L + n - 1 /\ L + i - 1 + 1 = L + i
    BY <1>3
  <2>2. Packet(L + i - 1)' = log'[L + i - 1 + 1]
    BY DEF Packet
  <2>. QED BY <1>3, <2>1, <2>2
<1>11. PacketsOf(s)' = {pn \in sent_packets' \cup lost_packets' : Packet(pn)'.stream = s}
  BY DEF PacketsOf
<1>12. ASSUME NEW pn \in PacketsOf(s)'
       PROVE  (\E o : Origin(n, s, pn, o)) \/ (\E i : Fresh(n, s, pn, i))
  <2>1. CASE pn \in sent_packets \cup lost_packets'
    <3>1. pn \in 0 .. L - 1 /\ pn \in sent_packets \cup lost_packets
      BY <1>4, <1>5, <2>1
    <3>2. Packet(pn)' = Packet(pn)
      BY <1>9, <3>1
    <3>3. pn \in PacketsOf(s)
      BY <1>11, <3>1, <3>2 DEF PacketsOf
    <3>. QED BY <2>1, <3>2, <3>3 DEF Origin
  <2>2. CASE pn \in L .. L + n - 1
    <3>1. PICK i \in 1 .. n : pn = L + i - 1
      <4>1. (pn - L) + 1 \in 1 .. n /\ pn = L + ((pn - L) + 1) - 1
        BY <1>3, <2>2
      <4>. QED BY <4>1
    <3>2. Packet(pn)' = Backlog[i]
      BY <1>10, <3>1
    <3>3. CASE i <= k
      <4>1. i \in 1 .. k
        BY <1>1, <3>3
      <4>2. LostOrder[i] \in lost_packets /\ Backlog[i] = Packet(LostOrder[i])
        BY <1>1, <4>1
      <4>3. LostOrder[i] \in PacketsOf(s)
        BY <1>11, <3>2, <4>2 DEF PacketsOf
      <4>. QED BY <1>0, <3>1, <3>2, <3>3, <4>2, <4>3 DEF Origin, k
    <3>4. CASE ~(i <= k)
      <4>1. i \in k + 1 .. n /\ i \in k + 1 .. Len(Backlog)
        BY <1>1, <3>4
      <4>2. Backlog[i].stream = s
        BY <1>11, <3>2
      <4>3. Backlog[i] \in Unsent(s)
        BY <1>6, <4>1, <4>2 DEF NewPacket
      <4>. QED BY <1>0, <3>1, <3>2, <4>1, <4>3 DEF Fresh, k
    <3>. QED BY <3>3, <3>4
  <2>. QED BY <1>4, <1>11, <2>1, <2>2
<1>13. ASSUME NEW pn \in PacketsOf(s) PROVE \E qn \in PacketsOf(s)' : Packet(qn)' = Packet(pn)
  <2>1. pn \in sent_packets \cup lost_packets /\ Packet(pn).stream = s /\ pn \in 0 .. L - 1
    BY <1>5 DEF PacketsOf
  <2>2. CASE pn \in sent_packets \/ pn \in lost_packets'
    <3>1. Packet(pn)' = Packet(pn)
      BY <1>9, <2>1
    <3>. QED BY <1>4, <1>11, <2>1, <2>2, <3>1
  <2>3. CASE pn \in lost_packets /\ pn \notin lost_packets'
    <3>1. PICK i \in 1 .. k : LostOrder[i] = pn
      BY <1>8, <2>3
    <3>2. i \in 1 .. n
      BY <1>1, <1>3, <1>7, <2>3, <3>1
    <3>3. /\ L + i - 1 \in L .. L + n - 1 /\ Packet(L + i - 1)' = Packet(pn)
      BY <1>1, <1>10, <3>1, <3>2
    <3>4. L + i - 1 \in PacketsOf(s)'
      BY <1>4, <1>11, <2>1, <3>3
    <3>. QED BY <3>3, <3>4
  <2>. QED BY <2>1, <2>2, <2>3
<1>14. ASSUME NEW i \in k + 1 .. n, Backlog[i].stream = s
       PROVE  \E qn \in PacketsOf(s)' : Packet(qn)' = Backlog[i]
  <2>1. i \in 1 .. n
    BY <1>1
  <2>2. L + i - 1 \in PacketsOf(s)'
    BY <1>4, <1>10, <1>11, <1>14, <2>1
  <2>. QED BY <1>10, <2>1, <2>2
<1>. QED BY <1>12, <1>13, <1>14 DEF k

(* What is sent for the first time is sent in order: nothing is left out   *)
(* below the new sent_offset, and no fragment reaches over it.             *)
LEMMA RoundInOrder ==
  ASSUME Base, NEW n \in 0 .. Len(Backlog), SendRound(Backlog, n), NEW s \in Streams,
         NEW f \in Unsent(s), f.offset < snd'[s].sent_offset
  PROVE  /\ End(f) <= snd'[s].sent_offset
         /\ \E i \in Cardinality(lost_packets) + 1 .. n : Backlog[i] = f
<1>. DEFINE k == Cardinality(lost_packets)
<1>1. /\ k \in Nat /\ Len(NewData) \in Nat /\ Len(Backlog) = k + Len(NewData)
      /\ \A i \in k + 1 .. k + Len(NewData) :
           i - k \in 1 .. Len(NewData) /\ Backlog[i] = NewData[i - k]
  BY BacklogParts
<1>2. /\ n \in Nat
      /\ snd'[s].sent_offset = snd[s].sent_offset
           \/ \E i \in k + 1 .. n : Backlog[i].stream = s /\ snd'[s].sent_offset = End(Backlog[i])
  <2>1. Sent(n)
    BY RoundSends DEF Base
  <2>. QED BY <2>1 DEF Sent
<1>. HIDE DEF k
<1>3. Ready /\ snd[s] \in SendStream /\ InPlace(snd[s]) /\ snd[s].sent_offset \in Nat
  BY Places DEF Ready, SndOK, StreamOK, ControlOK, Base
<1>4. /\ \A g \in Unsent(s) : g \in Packets /\ snd[s].sent_offset <= g.offset
      /\ \A g, h \in Unsent(s) :
           (g.offset < h.offset => End(g) <= h.offset) /\ (g.offset = h.offset => g = h)
  BY <1>3, UnsentIs
<1>5. \A g \in Packets : g.offset \in Nat /\ End(g) \in Nat /\ g.offset < End(g)
  BY BoundsAssumption, SizesAssumption DEF Packets, Offset, End
<1>6. PICK i \in k + 1 .. n : Backlog[i].stream = s /\ snd'[s].sent_offset = End(Backlog[i])
  BY <1>2, <1>3, <1>4, <1>5
<1>7. i \in k + 1 .. k + Len(NewData)
  BY <1>1, <1>2
<1>. DEFINE j == i - k  g == NewData[j]
<1>8. j \in 1 .. Len(NewData) /\ Backlog[i] = g /\ j \in Nat /\ i = k + j
  BY <1>1, <1>7
<1>9. /\ \A x \in 1 .. Len(NewData) :
           NewData[x] \in Unsent(NewData[x].stream) /\ NewData[x].stream \in ToSet(send_queue)
      /\ \A t \in ToSet(send_queue) : \A h \in Unsent(t) : \E x \in 1 .. Len(NewData) : NewData[x] = h
      /\ \A x, y \in 1 .. Len(NewData) :
           NewData[x].stream = NewData[y].stream /\ NewData[x].offset < NewData[y].offset => x < y
  BY <1>3, NewDataIs
<1>. HIDE DEF j, g
<1>10. g = NewData[j] /\ g.stream = s /\ g \in Unsent(s) /\ s \in ToSet(send_queue)
       /\ snd'[s].sent_offset = End(g)
  <2>1. g = NewData[j]
    BY DEF g
  <2>. QED BY <1>6, <1>8, <1>9, <2>1
<1>11. PICK x \in 1 .. Len(NewData) : NewData[x] = f
  BY <1>9, <1>10
<1>12. f.stream = s
  BY <1>3, UnsentIs
<1>13. f = g \/ f.offset < g.offset
  BY <1>4, <1>5, <1>10
<1>14. End(f) <= snd'[s].sent_offset
  <2>1. f = g => End(f) <= End(g)
    BY <1>4, <1>5, <1>10
  <2>2. f.offset < g.offset => End(f) <= g.offset
    BY <1>4, <1>10
  <2>3. f \in Packets /\ g \in Packets
    BY <1>4, <1>10
  <2>. QED BY <1>5, <1>10, <1>13, <2>1, <2>2, <2>3
<1>15. \E y \in k + 1 .. n : Backlog[y] = f
  <2>1. CASE f = g
    BY <1>6, <1>8, <2>1
  <2>2. CASE f.offset < g.offset
    <3>1. x < j
      BY <1>8, <1>9, <1>10, <1>11, <1>12, <2>2
    <3>. DEFINE y == k + x
    <3>2. y \in k + 1 .. n /\ y \in k + 1 .. k + Len(NewData) /\ y - k = x
      BY <1>1, <1>2, <1>6, <1>8, <3>1
    <3>. HIDE DEF y
    <3>3. Backlog[y] = NewData[x]
      BY <1>1, <3>2
    <3>. QED BY <1>11, <3>2, <3>3
  <2>. QED BY <1>13, <2>1, <2>2
<1>. QED BY <1>14, <1>15 DEF k

(* A round keeps what was sent apart, and covers what it adds.             *)
LEMMA RoundTiles ==
  ASSUME Base, NEW s \in Streams, Tiled(s), Queue(s),
         NEW n \in 0 .. Len(Backlog), SendRound(Backlog, n)
  PROVE  Tiled(s)'
<1>. DEFINE k == Cardinality(lost_packets)  out == snd[s].outstanding_acks
            old == snd[s].acked_offset  top == snd[s].sent_offset
<1>1. /\ snd'[s].acked_offset = old /\ snd'[s].outstanding_acks = out
      /\ snd'[s].sent_offset \in top .. snd[s].queue_offset
  <2>1. Sent(n) /\ snd[s] \in SendStream
    BY RoundSends, Places DEF Base
  <2>. DEFINE o == snd'[s].sent_offset
  <2>2. snd'[s] = [snd[s] EXCEPT !.sent_offset = o] /\ o \in top .. snd[s].queue_offset
    BY <2>1 DEF Sent
  <2>. HIDE DEF o
  <2>3. snd'[s].acked_offset = old /\ snd'[s].outstanding_acks = out
    BY <2>1, <2>2 DEF SendStream
  <2>. QED BY <2>2, <2>3 DEF o
<1>2. /\ old \in Nat /\ top \in Nat /\ snd[s].queue_offset \in Nat /\ old <= top
      /\ \A pn \in PacketsOf(s) : /\ Packet(pn).offset \in Nat /\ End(Packet(pn)) \in Nat
                                  /\ Packet(pn).offset < End(Packet(pn)) /\ End(Packet(pn)) <= top
      /\ \A r \in out : r.offset \in Nat /\ End(r) \in Nat /\ r.offset < End(r)
  BY Places
<1>3. \A r \in out : End(r) <= top
  BY DEF Base, SndOK, StreamOK
<1>4. /\ \A pn \in PacketsOf(s) : old <= Packet(pn).offset
      /\ \A pn, qn \in PacketsOf(s) : pn # qn => Apart(Packet(pn), Packet(qn))
      /\ \A r, q \in out : r # q => Apart(r, q)
      /\ \A pn \in PacketsOf(s) : \A r \in out : Apart(Packet(pn), r)
      /\ \A byte \in old .. top - 1 :
           (\E pn \in PacketsOf(s) : Covers(Packet(pn), byte)) \/ (\E r \in out : Covers(r, byte))
  BY DEF Tiled
<1>5. /\ \A pn \in PacketsOf(s)' : (\E o : Origin(n, s, pn, o)) \/ (\E i : Fresh(n, s, pn, i))
      /\ \A pn \in PacketsOf(s) : \E qn \in PacketsOf(s)' : Packet(qn)' = Packet(pn)
      /\ \A i \in k + 1 .. n : Backlog[i].stream = s => \E qn \in PacketsOf(s)' : Packet(qn)' = Backlog[i]
  BY RoundPackets
<1>6. /\ k \in Nat /\ Len(NewData) \in Nat /\ Len(Backlog) = k + Len(NewData) /\ n \in Nat
      /\ \A i \in k + 1 .. k + Len(NewData) :
           i - k \in 1 .. Len(NewData) /\ Backlog[i] = NewData[i - k]
  BY BacklogParts
<1>7. snd[s] \in SendStream /\ InPlace(snd[s]) /\ Ready
  BY Places DEF Ready, SndOK, StreamOK, ControlOK, Base
<1>8. /\ \A f \in Unsent(s) : /\ f \in Packets /\ f.stream = s
                              /\ top <= f.offset /\ f.offset \in Nat /\ End(f) \in Nat
      /\ \A f, g \in Unsent(s) :
           (f.offset < g.offset => End(f) <= g.offset) /\ (f.offset = g.offset => f = g)
  <2>1. \A f \in Packets : f.offset \in Nat /\ End(f) \in Nat
    BY BoundsAssumption, SizesAssumption DEF Packets, Offset, End
  <2>. QED BY <1>7, <2>1, UnsentIs
<1>. HIDE DEF k, out, old, top
\* an origin is the origin of one packet only
<1>9. ASSUME NEW pn, NEW qn, NEW o, Origin(n, s, pn, o), Origin(n, s, qn, o)
      PROVE  pn = qn
  <2>1. /\ lost_packets' = {x \in lost_packets : Cardinality({y \in lost_packets : y <= x}) > n}
        /\ sent_packets \cap lost_packets = {}
    BY DEF SendRound, Base, LogOK
  <2>2. \A i \in 1 .. k : LostOrder[i] \in lost_packets /\ (LostOrder[i] \in lost_packets' <=> i > n)
    BY <1>6, <2>1, BacklogParts, LostLeft DEF k
  <2>3. \A i, j \in 1 .. k : i < j <=> LostOrder[i] < LostOrder[j]
    BY RetransmissionsAre DEF Base, LogOK, k
  <2>4. ASSUME NEW i \in 1 .. n, i <= k, o = LostOrder[i]
        PROVE  o \notin sent_packets \cup lost_packets'
    <3>1. i \in 1 .. k /\ ~(i > n)
      BY <1>6, <2>4
    <3>. QED BY <2>1, <2>2, <2>4, <3>1
  <2>5. ASSUME NEW i \in 1 .. n, i <= k, o = LostOrder[i], NEW j \in 1 .. n, j <= k, o = LostOrder[j]
        PROVE  i = j
    <3>1. i \in 1 .. k /\ j \in 1 .. k
      BY <1>6, <2>5
    <3>2. o \in lost_packets
      BY <2>2, <2>5, <3>1
    <3>3. o \in Nat
      BY <3>2 DEF Base, LogOK
    <3>4. ~(LostOrder[i] < LostOrder[j]) /\ ~(LostOrder[j] < LostOrder[i])
      BY <2>5, <3>3
    <3>5. ~(i < j) /\ ~(j < i)
      BY <2>3, <3>1, <3>4
    <3>6. i \in Nat /\ j \in Nat
      BY <3>1
    <3>. QED BY <3>5, <3>6
  <2>. QED BY <1>9, <2>4, <2>5 DEF Origin, k
<1>10. ASSUME NEW pn, NEW i, NEW j, Fresh(n, s, pn, i), NEW qn, Fresh(n, s, qn, j), pn # qn
       PROVE  Apart(Backlog[i], Backlog[j])
  <2>1. i \in k + 1 .. k + Len(NewData) /\ j \in k + 1 .. k + Len(NewData) /\ i # j
    BY <1>6, <1>10 DEF Fresh, k
  <2>2. /\ Backlog[i] = NewData[i - k] /\ Backlog[j] = NewData[j - k]
        /\ i - k \in 1 .. Len(NewData) /\ j - k \in 1 .. Len(NewData) /\ i - k # j - k
    BY <1>6, <2>1
  <2>3. \A x, y \in 1 .. Len(NewData) : NewData[x] = NewData[y] => x = y
    BY <1>7, NewDataIs
  <2>4. Backlog[i] # Backlog[j]
    BY <2>2, <2>3
  <2>5. Backlog[i] \in Unsent(s) /\ Backlog[j] \in Unsent(s)
    BY <1>10 DEF Fresh
  <2>. QED BY <1>8, <2>4, <2>5 DEF Apart
<1>11. ASSUME NEW pn \in PacketsOf(s)'
       PROVE  \/ \E o \in PacketsOf(s) : Packet(pn)' = Packet(o)
              \/ Packet(pn)' \in Unsent(s)
  BY <1>5 DEF Origin, Fresh
<1>12. ASSUME NEW o \in PacketsOf(s), NEW f \in Unsent(s) PROVE Apart(Packet(o), f) /\ Apart(f, Packet(o))
  BY <1>2, <1>8 DEF Apart
<1>13. (\A pn \in PacketsOf(s) : snd[s].acked_offset <= Packet(pn).offset)'
  BY <1>1, <1>2, <1>4, <1>8, <1>11
<1>14. (\A pn, qn \in PacketsOf(s) : pn # qn => Apart(Packet(pn), Packet(qn)))'
  <2>1. SUFFICES ASSUME NEW pn \in PacketsOf(s)', NEW qn \in PacketsOf(s)', pn # qn
                 PROVE  Apart(Packet(pn)', Packet(qn)')
    BY DEF Apart, End
  <2>2. ASSUME NEW o, NEW p, Origin(n, s, pn, o), Origin(n, s, qn, p)
        PROVE  Apart(Packet(pn)', Packet(qn)')
    <3>1. o # p /\ o \in PacketsOf(s) /\ p \in PacketsOf(s)
      BY <1>9, <2>1, <2>2 DEF Origin
    <3>2. Packet(pn)' = Packet(o) /\ Packet(qn)' = Packet(p)
      BY <2>2 DEF Origin
    <3>. QED BY <1>4, <3>1, <3>2
  <2>3. ASSUME NEW i, NEW j, Fresh(n, s, pn, i), Fresh(n, s, qn, j)
        PROVE  Apart(Packet(pn)', Packet(qn)')
    <3>1. Packet(pn)' = Backlog[i] /\ Packet(qn)' = Backlog[j]
      BY <2>3 DEF Fresh
    <3>. QED BY <1>10, <2>1, <2>3, <3>1
  <2>4. ASSUME NEW o, NEW i, Origin(n, s, pn, o), Fresh(n, s, qn, i)
        PROVE  Apart(Packet(pn)', Packet(qn)')
    BY <1>12, <2>4 DEF Origin, Fresh
  <2>5. ASSUME NEW o, NEW i, Fresh(n, s, pn, i), Origin(n, s, qn, o)
        PROVE  Apart(Packet(pn)', Packet(qn)')
    BY <1>12, <2>5 DEF Origin, Fresh
  <2>. QED BY <1>5, <2>2, <2>3, <2>4, <2>5
<1>15. (\A r, q \in snd[s].outstanding_acks : r # q => Apart(r, q))'
  BY <1>1, <1>4 DEF Apart, End
<1>16. (\A pn \in PacketsOf(s) : \A r \in snd[s].outstanding_acks : Apart(Packet(pn), r))'
  <2>1. SUFFICES ASSUME NEW pn \in PacketsOf(s)', NEW r \in out PROVE Apart(Packet(pn)', r)
    BY <1>1 DEF Apart, End
  <2>2. CASE Packet(pn)' \in Unsent(s)
    BY <1>2, <1>3, <1>8, <2>2 DEF Apart
  <2>. QED BY <1>4, <1>11, <2>2
<1>17. (\A byte \in snd[s].acked_offset .. snd[s].sent_offset - 1 :
          \/ \E pn \in PacketsOf(s) : Covers(Packet(pn), byte)
          \/ \E r \in snd[s].outstanding_acks : Covers(r, byte))'
  <2>1. SUFFICES ASSUME NEW byte \in snd'[s].acked_offset .. snd'[s].sent_offset - 1
                 PROVE  \/ \E pn \in PacketsOf(s)' : Covers(Packet(pn)', byte)
                        \/ \E r \in snd'[s].outstanding_acks : Covers(r, byte)
    BY DEF Covers, End
  <2>2. byte \in old .. top - 1 \/ (byte \in top .. snd[s].queue_offset - 1 /\ byte < snd'[s].sent_offset)
    BY <1>1, <1>2
  <2>3. CASE byte \in old .. top - 1
    <3>1. CASE \E r \in out : Covers(r, byte)
      BY <1>1, <3>1
    <3>2. CASE \E pn \in PacketsOf(s) : Covers(Packet(pn), byte)
      <4>1. PICK pn \in PacketsOf(s) : Covers(Packet(pn), byte)
        BY <3>2
      <4>2. PICK qn \in PacketsOf(s)' : Packet(qn)' = Packet(pn)
        BY <1>5
      <4>. QED BY <4>1, <4>2
    <3>. QED BY <1>4, <2>3, <3>1, <3>2
  <2>4. CASE byte \in top .. snd[s].queue_offset - 1 /\ byte < snd'[s].sent_offset
    <3>1. PICK f \in Unsent(s) : Covers(f, byte)
      BY <2>4, UnsentCovers DEF top
    <3>2. f.offset < snd'[s].sent_offset /\ f.stream = s
      BY <1>1, <1>2, <1>8, <2>4, <3>1 DEF Covers
    <3>3. PICK i \in k + 1 .. n : Backlog[i] = f
      BY <3>2, RoundInOrder DEF k
    <3>4. PICK qn \in PacketsOf(s)' : Packet(qn)' = f
      BY <1>5, <3>2, <3>3
    <3>. QED BY <3>1, <3>4
  <2>. QED BY <2>2, <2>3, <2>4
<1>. QED BY <1>13, <1>14, <1>15, <1>16, <1>17 DEF Tiled

(* The queued items are as before; sent_offset moves on by whole           *)
(* fragments.                                                              *)
LEMMA RoundQueue ==
  ASSUME Base, NEW s \in Streams, Queue(s), NEW n \in 0 .. Len(Backlog), SendRound(Backlog, n)
  PROVE  Queue(s)'
<1>. DEFINE dq == snd[s].data_queue  top == snd'[s].sent_offset
<1>1. /\ snd'[s].data_queue = dq /\ snd'[s].acked_offset = snd[s].acked_offset
      /\ snd'[s].queue_offset = snd[s].queue_offset
      /\ top \in snd[s].sent_offset .. snd[s].queue_offset
  <2>1. Sent(n) /\ snd[s] \in SendStream
    BY RoundSends, Places DEF Base
  <2>2. snd'[s] = [snd[s] EXCEPT !.sent_offset = top] /\ top \in snd[s].sent_offset .. snd[s].queue_offset
    BY <2>1 DEF Sent
  <2>. HIDE DEF top
  <2>. QED BY <2>1, <2>2 DEF SendStream
<1>2. /\ dq \in Seq(Item) /\ DOMAIN dq = 1 .. Len(dq)
  <2>1. dq \in Seq(Item)
    BY Places DEF SendStream
  <2>. HIDE DEF dq
  <2>. QED BY <2>1, LenProperties
<1>3. \A i \in 1 .. Len(dq) : /\ dq[i] \in Item /\ dq[i].offset \in Nat /\ dq[i].size \in Nat
                              /\ dq[i].offset + dq[i].size <= MaxBytes
  BY Places
<1>4. snd[s].sent_offset \in Nat /\ snd[s].queue_offset \in Nat
  BY Places
<1>5. ASSUME NEW i \in 1 .. Len(dq), NEW f \in Fragments(s, dq[i])
      PROVE  f.offset \in Nat /\ End(f) \in Nat /\ dq[i].offset <= f.offset
             /\ End(f) <= dq[i].offset + dq[i].size
  <2>1. PICK item \in Item : item = dq[i] /\ item.offset + item.size <= MaxBytes
    BY <1>3
  <2>2. f \in Packets /\ item.offset <= f.offset /\ End(f) <= item.offset + item.size
    BY <2>1, FragmentsAre
  <2>3. f.offset \in Nat /\ f.length \in Nat
    <3>1. MaxBytes \in Nat /\ Fragment \in Nat
      BY BoundsAssumption, SizesAssumption
    <3>. QED BY <2>2, <3>1 DEF Packets, Offset
  <2>. QED BY <2>1, <2>2, <2>3 DEF End
<1>6. ASSUME NEW i \in 1 .. Len(dq), NEW f \in Fragments(s, dq[i]), f.offset < top
      PROVE  End(f) <= top
  <2>1. CASE f.offset < snd[s].sent_offset
    <3>1. End(f) <= snd[s].sent_offset
      BY <2>1 DEF Queue
    <3>. QED BY <1>1, <1>4, <1>5, <3>1
  <2>2. CASE ~(f.offset < snd[s].sent_offset)
    <3>1. f \in Unsent(s)
      BY <1>2, <1>4, <1>5, <2>2 DEF Unsent
    <3>. QED BY <1>6, <3>1, RoundInOrder
  <2>. QED BY <2>1, <2>2
<1>7. ASSUME NEW pn \in PacketsOf(s)'
      PROVE  \E i \in 1 .. Len(dq) :
               dq[i].offset <= Packet(pn)'.offset /\ End(Packet(pn)') <= dq[i].offset + dq[i].size
  <2>1. (\E o : Origin(n, s, pn, o)) \/ (\E i : Fresh(n, s, pn, i))
    BY RoundPackets
  <2>2. CASE \E o : Origin(n, s, pn, o)
    <3>1. PICK o \in PacketsOf(s) : Packet(pn)' = Packet(o)
      BY <2>2 DEF Origin
    <3>. QED BY <3>1 DEF Queue, Inside
  <2>3. CASE \E i : Fresh(n, s, pn, i)
    <3>1. Packet(pn)' \in Unsent(s)
      BY <2>3 DEF Fresh
    <3>2. PICK i \in 1 .. Len(dq) : Packet(pn)' \in Fragments(s, dq[i])
      BY <1>2, <3>1 DEF Unsent
    <3>. QED BY <1>5, <3>2
  <2>. QED BY <2>1, <2>2, <2>3
<1>. HIDE DEF dq, top
<1>8. (\A byte \in snd[s].acked_offset .. snd[s].queue_offset - 1 : ItemAt(snd[s], byte))'
  <2>1. SUFFICES ASSUME NEW byte \in snd'[s].acked_offset .. snd'[s].queue_offset - 1
                 PROVE  ItemAt(snd'[s], byte)
    OBVIOUS
  <2>2. ItemAt(snd[s], byte)
    BY <1>1 DEF Queue
  <2>. QED BY <1>1, <2>2 DEF ItemAt, dq
<1>9. (\A i \in 1 .. Len(snd[s].data_queue) : \A f \in Fragments(s, snd[s].data_queue[i]) :
         f.offset < snd[s].sent_offset => End(f) <= snd[s].sent_offset)'
  BY <1>1, <1>6 DEF Fragments, End, top
<1>10. (\A pn \in PacketsOf(s) : Inside(snd[s], Packet(pn)))'
  BY <1>1, <1>7 DEF Inside, End
<1>. QED BY <1>8, <1>9, <1>10 DEF Queue

-----------------------------------------------------------------------------
(* The theorems                                                            *)

(* Every step of the data plane keeps the books in order.                  *)
LEMMA BooksStep ==
  ASSUME Base, Books, [Next]_vars
  PROVE  Books'
<1>1. /\ DOMAIN snd = Streams /\ \A s \in Streams : snd[s] \in SendStream
  BY DEF Base, SndOK, StreamOK
<1>2. ASSUME log' = log, sent_packets' \cup lost_packets' = sent_packets \cup lost_packets,
             snd' = snd
      PROVE  Books'
  BY <1>2, BooksStay
<1>3. ASSUME NEW x \in Streams, log' = log, sent_packets' = sent_packets, lost_packets' = lost_packets,
             \/ snd' = [snd EXCEPT ![x].flush_timer = 2 * @]
             \/ snd' = [snd EXCEPT ![x].flush_timer = 0]
             \/ snd' = snd
      PROVE  Books'
  <2>1. \A s \in Streams :
          /\ snd'[s].data_queue = snd[s].data_queue /\ snd'[s].queue_offset = snd[s].queue_offset
          /\ snd'[s].sent_offset = snd[s].sent_offset /\ snd'[s].acked_offset = snd[s].acked_offset
          /\ snd'[s].outstanding_acks = snd[s].outstanding_acks
    <3>. SUFFICES ASSUME NEW s \in Streams
                  PROVE  /\ snd'[s].data_queue = snd[s].data_queue
                         /\ snd'[s].queue_offset = snd[s].queue_offset
                         /\ snd'[s].sent_offset = snd[s].sent_offset
                         /\ snd'[s].acked_offset = snd[s].acked_offset
                         /\ snd'[s].outstanding_acks = snd[s].outstanding_acks
      OBVIOUS
    <3>1. \/ snd'[s] = snd[s]
          \/ \E t : snd'[s] = [snd[s] EXCEPT !.flush_timer = t]
      BY <1>1, <1>3
    <3>2. DOMAIN snd[s] = {"data_queue", "queue_offset", "sent_offset", "acked_offset",
                          "outstanding_acks", "flush_timer"}
      BY <1>1 DEF SendStream
    <3>. QED BY <3>1, <3>2
  <2>. QED BY <1>3, <2>1, BooksStay
<1>4. ASSUME NEW s \in Streams, flush_timer_cb(s) PROVE Books'
  BY <1>3, <1>4 DEF flush_timer_cb
<1>5. ASSUME NEW s \in Streams, skip_stream(s) \/ skip_timer_cb(s) PROVE Books'
  BY <1>2, <1>5 DEF skip_stream, skip_timer_cb, sender
<1>6. ASSUME pacing_timer_cb PROVE Books'
  <2>1. PICK n \in 0 .. Len(Backlog) : SendRound(Backlog, n)
    BY <1>6 DEF pacing_timer_cb
  <2>2. \A s \in Streams : Tiled(s)' /\ Queue(s)'
    BY <2>1, RoundTiles, RoundQueue DEF Books
  <2>. QED BY <2>2 DEF Books
<1>7. ASSUME tlp_timer_cb PROVE Books'
  <2>1. log' = log /\ snd' = snd
    BY <1>7 DEF tlp_timer_cb
  <2>2. sent_packets' \cup lost_packets' = sent_packets \cup lost_packets
    BY <1>7 DEF tlp_timer_cb
  <2>. QED BY <1>2, <2>1, <2>2
<1>8. ASSUME ack_timer_cb \/ (\E m \in net : Lose(m)) \/ UNCHANGED vars PROVE Books'
  <2>1. log' = log /\ snd' = snd /\ sent_packets' = sent_packets /\ lost_packets' = lost_packets
    BY <1>8 DEF ack_timer_cb, Lose, vars, sender
  <2>. QED BY <1>2, <2>1
<1>9. ASSUME NEW m \in net, did_recv(m) PROVE Books'
  <2>1. m \in Message
    BY DEF Base, NetOK, MessageOK
  <2>2. CASE did_recv_DATA(m) \/ did_recv_FLUSHSTREAM(m)
    BY <1>2, <2>2 DEF did_recv_DATA, did_recv_FLUSHSTREAM, sender
  <2>3. CASE did_recv_ACK(m)
    BY <2>3, AckBooks
  <2>4. CASE did_recv_SKIPSTREAM(m)
    <3>1. m.stream \in Streams
      BY <2>1, <2>4 DEF did_recv_SKIPSTREAM, Message
    <3>2. CASE UNCHANGED <<sender, receiver, up, lost>>
      BY <1>2, <3>2 DEF sender
    <3>3. CASE Flush(m.stream, {m})
      BY <3>1, <3>3, FlushBooks
    <3>. QED BY <2>4, <3>2, <3>3 DEF did_recv_SKIPSTREAM
  <2>5. CASE did_recv_FLUSHCONF(m)
    <3>1. m.stream \in Streams
      BY <2>1, <2>5 DEF did_recv_FLUSHCONF, Message
    <3>. QED BY <1>3, <2>5, <3>1 DEF did_recv_FLUSHCONF
  <2>. QED BY <1>9, <2>2, <2>3, <2>4, <2>5 DEF did_recv
<1>10. CASE \E s \in Streams : \E size \in Sizes : send(s, size)
  BY <1>10, SendBooks
<1>11. CASE \E s \in Streams : flush_stream(s)
  BY <1>11, FlushBooks DEF flush_stream
<1>12. CASE \E s \in Streams : flush_timer_cb(s) \/ skip_stream(s) \/ skip_timer_cb(s)
  BY <1>4, <1>5, <1>12
<1>. QED BY <1>6, <1>7, <1>8, <1>9, <1>10, <1>11, <1>12 DEF Next, Receive

(* The books are in order, always.                                         *)
THEOREM BooksAlways == Spec => []Books
<1>1. Init => Books
  <2>. SUFFICES ASSUME Init, NEW s \in Streams PROVE Tiled(s) /\ Queue(s)
    BY DEF Books
  <2>1. /\ snd[s].data_queue = <<>> /\ snd[s].outstanding_acks = {}
        /\ snd[s].acked_offset = 0 /\ snd[s].sent_offset = 0 /\ snd[s].queue_offset = 0
        /\ PacketsOf(s) = {}
    BY DEF Init, PacketsOf
  <2>2. 0 .. 0 - 1 = {} /\ 1 .. Len(<<>>) = {}
    OBVIOUS
  <2>. QED BY <2>1, <2>2 DEF Tiled, Queue
<1>2. Base /\ Books /\ [Next]_vars => Books'
  BY BooksStep
<1>. QED BY <1>1, <1>2, BaseAlways, PTL DEF Spec

(* Every byte sent and not acked is in exactly one of a packet in flight,  *)
(* a packet to retransmit and an out-of-order ack: nothing sent is         *)
(* forgotten, and nothing is counted twice.                                *)
THEOREM NothingForgotten == Spec => []TrackedOnce
<1>1. Base /\ Books => TrackedOnce
  <2>1. SUFFICES ASSUME Base, Books, NEW s \in Streams,
                        NEW byte \in snd[s].acked_offset .. snd[s].sent_offset - 1
                 PROVE  Cardinality({pn \in sent_packets \cup lost_packets :
                                       Packet(pn).stream = s /\ Covers(Packet(pn), byte)})
                          + Cardinality({r \in snd[s].outstanding_acks : Covers(r, byte)}) = 1
    BY DEF TrackedOnce
  <2>. DEFINE A == {pn \in sent_packets \cup lost_packets :
                      Packet(pn).stream = s /\ Covers(Packet(pn), byte)}
              B == {r \in snd[s].outstanding_acks : Covers(r, byte)}
  <2>2. A = {pn \in PacketsOf(s) : Covers(Packet(pn), byte)}
    BY DEF PacketsOf
  <2>3. byte \in Int
    OBVIOUS
  <2>4. /\ \A pn \in PacketsOf(s) : Packet(pn).offset \in Nat /\ End(Packet(pn)) \in Nat
        /\ \A r \in snd[s].outstanding_acks : r.offset \in Nat /\ End(r) \in Nat
    BY <2>1, Places
  <2>5. Tiled(s)
    BY <2>1 DEF Books
  <2>6. CASE \E pn \in PacketsOf(s) : Covers(Packet(pn), byte)
    <3>1. PICK pn \in PacketsOf(s) : Covers(Packet(pn), byte)
      BY <2>6
    <3>2. A = {pn}
      BY <2>2, <2>3, <2>4, <2>5, <3>1 DEF Tiled, Apart, Covers
    <3>3. B = {}
      BY <2>3, <2>4, <2>5, <3>1 DEF Tiled, Apart, Covers
    <3>4. Cardinality(A) = 1 /\ Cardinality(B) = 0
      BY <3>2, <3>3, FS_Singleton, FS_EmptySet
    <3>. QED BY <3>4
  <2>7. CASE \E r \in snd[s].outstanding_acks : Covers(r, byte)
    <3>1. PICK r \in snd[s].outstanding_acks : Covers(r, byte)
      BY <2>7
    <3>2. A = {}
      BY <2>2, <2>3, <2>4, <2>5, <3>1 DEF Tiled, Apart, Covers
    <3>3. B = {r}
      BY <2>3, <2>4, <2>5, <3>1 DEF Tiled, Apart, Covers
    <3>4. Cardinality(A) = 0 /\ Cardinality(B) = 1
      BY <3>2, <3>3, FS_Singleton, FS_EmptySet
    <3>. QED BY <3>4
  <2>. QED BY <2>5, <2>6, <2>7 DEF Tiled
<1>. QED BY <1>1, BaseAlways, BooksAlways, PTL

(* No packet that may still be acked or retransmitted points to an item    *)
(* that was freed.                                                         *)
THEOREM NothingDangles == Spec => []NoDanglingItem
<1>1. Base /\ Books => NoDanglingItem
  <2>1. SUFFICES ASSUME Base, Books, NEW pn \in sent_packets \cup lost_packets
                 PROVE  \E i \in DOMAIN snd[Packet(pn).stream].data_queue :
                          LET item == snd[Packet(pn).stream].data_queue[i]
                          IN item.offset <= Packet(pn).offset
                             /\ End(Packet(pn)) <= item.offset + item.size
    BY DEF NoDanglingItem
  <2>2. Packet(pn).stream \in Streams
    <3>1. pn + 1 \in 1 .. Len(log) /\ Packet(pn) = log[pn + 1]
      BY <2>1, Facts DEF Base, LogOK, Packet
    <3>. QED BY <2>1, <3>1, Facts DEF Base
  <2>3. PICK s \in Streams : s = Packet(pn).stream
    BY <2>2
  <2>4. pn \in PacketsOf(s)
    BY <2>3 DEF PacketsOf
  <2>5. Inside(snd[s], Packet(pn))
    BY <2>1, <2>4 DEF Books, Queue
  <2>. DEFINE dq == snd[s].data_queue
  <2>6. DOMAIN dq = 1 .. Len(dq)
    <3>1. dq \in Seq(Item)
      BY <2>1, Places DEF SendStream
    <3>. HIDE DEF dq
    <3>. QED BY <3>1, LenProperties
  <2>. QED BY <2>3, <2>5, <2>6 DEF Inside
<1>. QED BY <1>1, BaseAlways, BooksAlways, PTL

-----------------------------------------------------------------------------
(* A connection without losses                                             *)

(* The first stream of the queue has something to send.                    *)
HeadHasData ==
  send_queue # <<>> => snd[send_queue[1]].sent_offset < snd[send_queue[1]].queue_offset

(* An ack is on its way to the sender, or what calls for one is, or will   *)
(* be sent by the next round.                                              *)
AnswerComing ==
  \/ /\ is_pacing_timer_active /\ sent_packets = {}
     /\ lost_packets # {} \/ send_queue # <<>>
  \/ ack_timer_active
  \/ \E m \in net : m.type \in {"DATA", "ACK"}

(* The tail loss probe fires once without an ack in between, not twice.    *)
Steady ==
  /\ up /\ HeadHasData
  /\ \A s \in Streams : ~rcv[s].wait_flush /\ rcv[s].skip_timer = 0
  /\ tlp_interval = 1 \/ (tlp_interval = 2 /\ AnswerComing)

Undisturbed == flushes = 0 /\ skips = 0 /\ lost = 0
Survives == Undisturbed => Steady

(* What disturbs a connection is counted.                                  *)
LEMMA DisturbancesCount ==
  ASSUME Base, [Next]_vars, Undisturbed'
  PROVE  Undisturbed
<1>1. skips \in Nat /\ lost \in Nat /\ flushes' = 0
  BY BoundsAssumption DEF Base, ControlOK, Undisturbed
<1>2. flushes = 0
  BY <1>1, FlushesCount
<1>3. ASSUME NEW s, NEW request, Flush(s, request) PROVE FALSE
  <2>1. flushes' = flushes + 1
    BY <1>3 DEF Flush
  <2>. QED BY <1>1, <1>2, <2>1
<1>4. skips' \in {skips, skips + 1} /\ lost' \in {lost, lost + 1}
  <2>1. ASSUME NEW s \in Streams, NEW size \in Sizes, send(s, size)
        PROVE  skips' = skips /\ lost' = lost
    BY <2>1 DEF send, receiver
  <2>2. ASSUME NEW s \in Streams, flush_timer_cb(s) \/ skip_stream(s) \/ skip_timer_cb(s)
        PROVE  skips' \in {skips, skips + 1} /\ lost' = lost
    BY <2>2 DEF flush_timer_cb, skip_stream, skip_timer_cb, receiver
  <2>3. ASSUME NEW m, did_recv_DATA(m) \/ did_recv_ACK(m) \/ did_recv_FLUSHSTREAM(m) \/ did_recv_FLUSHCONF(m)
        PROVE  skips' = skips /\ lost' = lost
    BY <2>3 DEF did_recv_DATA, did_recv_ACK, did_recv_FLUSHSTREAM, did_recv_FLUSHCONF, receiver
  <2>4. ASSUME NEW m, Lose(m) PROVE skips' = skips /\ lost' = lost + 1
    BY <2>4 DEF Lose, receiver
  <2>5. ASSUME NEW m, did_recv_SKIPSTREAM(m) PROVE skips' = skips /\ lost' = lost
    BY <1>3, <2>5 DEF did_recv_SKIPSTREAM, receiver
  <2>6. ASSUME pacing_timer_cb \/ tlp_timer_cb \/ ack_timer_cb \/ UNCHANGED vars
        PROVE  skips' = skips /\ lost' = lost
    BY <2>6 DEF pacing_timer_cb, tlp_timer_cb, ack_timer_cb, vars, receiver
  <2>. QED BY <1>3, <2>1, <2>2, <2>3, <2>4, <2>5, <2>6 DEF Next, Receive, did_recv, flush_stream
<1>5. skips' = 0 /\ lost' = 0
  BY DEF Undisturbed
<1>. QED BY <1>1, <1>2, <1>4, <1>5 DEF Undisturbed

(* With something to send and nothing in flight, there is a packet and it  *)
(* fits the window.                                                        *)
LEMMA FirstFits ==
  ASSUME Base, Books, HeadHasData, bytes_in_flight = 0, lost_packets # {} \/ send_queue # <<>>
  PROVE  Len(Backlog) \in Nat \ {0} /\ ~Blocked(Backlog, 1)
<1>. DEFINE k == Cardinality(lost_packets)  m == Len(NewData)  l == Len(Backlog)
<1>1. k \in Nat /\ m \in Nat /\ l = k + m
  BY BacklogParts
<1>2. l # 0
  <2>1. CASE lost_packets # {}
    <3>1. IsFiniteSet(lost_packets)
      BY RetransmissionsAre DEF Base, LogOK
    <3>2. k # 0
      BY <2>1, <3>1, FS_EmptySet
    <3>. HIDE DEF k, m, l
    <3>. QED BY <1>1, <3>2
  <2>2. CASE send_queue # <<>>
    <3>1. send_queue \in Seq(Streams)
      BY DEF Base, ControlOK
    <3>2. Len(send_queue) \in Nat /\ Len(send_queue) # 0 /\ DOMAIN send_queue = 1 .. Len(send_queue)
      BY <2>2, <3>1, EmptySeq, LenProperties
    <3>3. PICK s \in Streams : s = send_queue[1] /\ s \in ToSet(send_queue)
      <4>1. 1 \in 1 .. Len(send_queue)
        BY <3>2
      <4>2. send_queue[1] \in Streams
        BY <3>1, <4>1, ElementOfSeq
      <4>. QED BY <3>2, <4>1, <4>2 DEF ToSet
    <3>4. snd[s].sent_offset \in snd[s].sent_offset .. snd[s].queue_offset - 1
      BY <2>2, <3>3, Places DEF HeadHasData
    <3>5. PICK f \in Unsent(s) : Covers(f, snd[s].sent_offset)
      BY <3>4, UnsentCovers DEF Books
    <3>6. Ready
      BY DEF Ready, SndOK, StreamOK, ControlOK, Base
    <3>7. PICK i \in 1 .. m : NewData[i] = f
      BY <3>3, <3>5, <3>6, NewDataIs
    <3>. HIDE DEF k, m, l
    <3>. QED BY <1>1, <3>7
  <2>. QED BY <2>1, <2>2
<1>. HIDE DEF k, m, l
<1>3. l \in Nat \ {0} /\ 1 \in 1 .. l
  BY <1>1, <1>2
<1>4. Bytes(Backlog, 0) = 0
  <2>. DEFINE d == [i \in DOMAIN Backlog |-> Backlog[i].length]
  <2>1. \A i \in 1 .. 0 : d[i] \in Int
    OBVIOUS
  <2>2. Bytes(Backlog, 0) = Total(d, 0)
    BY DEF Bytes
  <2>. HIDE DEF d
  <2>3. Total(d, 0) = 0
    BY <2>1, Totals
  <2>. QED BY <2>2, <2>3
<1>5. Backlog[1].length \in 1 .. Fragment
  <2>1. Backlog \in Seq(Packets)
    BY BacklogIs DEF Base
  <2>2. Backlog[1] \in Packets
    BY <1>3, <2>1, ElementOfSeq DEF l
  <2>. QED BY <2>2 DEF Packets
<1>6. PacingLimit \in Nat \ {0} /\ Fragment \in Nat /\ congestion_window \in Nat /\ congestion_window >= Fragment
  BY SizesAssumption DEF Base, ControlOK
<1>7. Bytes(Backlog, 1 - 1) = 0
  <2>1. 1 - 1 = 0
    OBVIOUS
  <2>. QED BY <1>4, <2>1, Zenon
<1>8. ~OverPaced(Backlog, 1)
  BY <1>6, <1>7 DEF OverPaced
<1>9. Plus(0, 0) = 0
  <2>1. Word \in Nat /\ Plus(0, 0) \in 0 .. Word - 1
    BY Wraps, BoundsAssumption
  <2>. QED BY <2>1 DEF Plus
<1>10. ~OverWindow(Backlog, 1)
  <2>. DEFINE x == Plus(bytes_in_flight, Bytes(Backlog, 1 - 1))
  <2>1. x = 0
    BY <1>7, <1>9
  <2>2. OverWindow(Backlog, 1) <=> x > congestion_window - Backlog[1].length
    BY DEF OverWindow
  <2>. HIDE DEF x
  <2>. QED BY <1>5, <1>6, <2>1, <2>2
<1>. QED BY <1>3, <1>8, <1>10 DEF Blocked, l


(* Taking a packet leaves the timer of a stream and what it waits for.     *)
LEMMA AcceptFields ==
  ASSUME NEW st \in RecvStream, NEW pkt
  PROVE  Accept(st, pkt).wait_flush = st.wait_flush /\ Accept(st, pkt).skip_timer = st.skip_timer
BY DEF Accept, RecvStream


(* A round that finds something to send, and nothing in flight, sends it.  *)
LEMMA RoundSendsOne ==
  ASSUME Base, Books, Quiet, HeadHasData, sent_packets = {}, lost_packets # {} \/ send_queue # <<>>,
         NEW n \in 0 .. Len(Backlog), Round(Backlog, n), SendRound(Backlog, n)
  PROVE  \E m \in net' : m.type = "DATA"
<1>1. bytes_in_flight = 0
  BY LengthOfNone DEF Quiet, BytesInFlightExact, Base
<1>2. Len(Backlog) \in Nat \ {0} /\ ~Blocked(Backlog, 1)
  BY <1>1, FirstFits
<1>3. n # 0
  <2>. SUFFICES ASSUME n = 0 PROVE FALSE
    OBVIOUS
  <2>1. n + 1 = 1 /\ n < Len(Backlog)
    BY <1>2
  <2>2. Blocked(Backlog, n + 1)
    BY <2>1 DEF Round
  <2>. QED BY <1>2, <2>1, <2>2
<1>4. Len(log) \in Nat
  BY Facts DEF Base
<1>5. Len(log) \in Len(log) .. Len(log) + n - 1
  BY <1>2, <1>3, <1>4
<1>6. DATA(Len(log)) \in net'
  BY <1>5 DEF SendRound
<1>7. DATA(Len(log)).type = "DATA"
  BY DEF DATA
<1>. QED BY <1>6, <1>7

(* What a round leaves of the queue begins with a stream that has more.    *)
LEMMA RoundHead ==
  ASSUME Base, HeadHasData, NEW n \in 0 .. Len(Backlog), SendRound(Backlog, n)
  PROVE  HeadHasData'
<1>. DEFINE losses == Cardinality(lost_packets)
            SentTo(s) == Max({snd[s].sent_offset}
                             \cup {End(Backlog[i]) : i \in {j \in losses + 1 .. n : Backlog[j].stream = s}})
            unfinished == {i \in DOMAIN send_queue :
                             SentTo(send_queue[i]) < snd[send_queue[i]].queue_offset}
            l == Len(send_queue)
<1>1. /\ snd' = [s \in Streams |-> [snd[s] EXCEPT !.sent_offset = SentTo(s)]]
      /\ send_queue' = IF n < losses THEN send_queue ELSE From(send_queue, unfinished)
  BY DEF SendRound
<1>2. send_queue \in Seq(Streams) /\ l \in Nat /\ DOMAIN send_queue = 1 .. l /\ \A i \in 1 .. l : send_queue[i] \in Streams
  BY LenProperties, ElementOfSeq DEF Base, ControlOK
<1>3. ASSUME NEW s \in Streams
      PROVE  snd'[s].sent_offset = SentTo(s) /\ snd'[s].queue_offset = snd[s].queue_offset
  <2>1. snd[s] \in SendStream /\ snd'[s] = [snd[s] EXCEPT !.sent_offset = SentTo(s)]
    BY <1>1, Places
  <2>. HIDE DEF SentTo
  <2>. QED BY <2>1 DEF SendStream
<1>4. CASE n < losses
  <2>1. send_queue' = send_queue
    BY <1>1, <1>4
  <2>2. ASSUME NEW s \in Streams PROVE snd'[s].sent_offset = snd[s].sent_offset
    <3>1. losses \in Nat /\ n \in Nat
      BY BacklogParts DEF Base
    <3>2. losses + 1 .. n = {}
      <4>. HIDE DEF losses
      <4>. QED BY <1>4, <3>1
    <3>3. SentTo(s) = Max({snd[s].sent_offset})
      BY <3>2
    <3>4. \A x \in Nat : Max({x}) = x
      <4>. SUFFICES ASSUME NEW x \in Nat PROVE Max({x}) = x
        OBVIOUS
      <4>1. Max({x}) \in {x}
        BY FS_Singleton, Greatest
      <4>. QED BY <4>1
    <3>5. snd[s].sent_offset \in Nat
      BY Places
    <3>. QED BY <1>3, <3>3, <3>4, <3>5
  <2>3. ASSUME send_queue # <<>> PROVE send_queue[1] \in Streams
    <3>1. l # 0
      BY <1>2, <2>3, EmptySeq
    <3>. HIDE DEF l
    <3>. QED BY <1>2, <3>1
  <2>. QED BY <1>3, <2>1, <2>2, <2>3 DEF HeadHasData
<1>5. CASE ~(n < losses)
  <2>. DEFINE rest == From(send_queue, unfinished)
  <2>1. send_queue' = rest
    BY <1>1, <1>5
  <2>2. unfinished \subseteq 1 .. l /\ unfinished \subseteq DOMAIN send_queue
    BY <1>2
  <2>. HIDE DEF unfinished
  <2>3. PICK m \in 1 .. l + 1 :
          /\ m = Min(unfinished \cup {l + 1})
          /\ rest \in Seq(Streams) /\ Len(rest) = l - m + 1
          /\ \A i \in 1 .. l - m + 1 : rest[i] = send_queue[m + i - 1]
    <3>1. \E m \in 1 .. Len(send_queue) + 1 :
            /\ m = Min(unfinished \cup {Len(send_queue) + 1})
            /\ From(send_queue, unfinished) \in Seq(Streams)
            /\ Len(From(send_queue, unfinished)) = Len(send_queue) - m + 1
            /\ \A i \in 1 .. Len(send_queue) - m + 1 : From(send_queue, unfinished)[i] = send_queue[m + i - 1]
            /\ \A i \in 1 .. m - 1 : i \notin unfinished
      BY <1>2, <2>2, FromIs, ZenonT(60)
    <3>. QED BY <3>1
  <2>4. m \in unfinished \cup {l + 1}
    <3>1. unfinished \cup {l + 1} \subseteq Nat
      BY <1>2, <2>2
    <3>2. unfinished \cup {l + 1} # {}
      OBVIOUS
    <3>. QED BY <2>3, <3>1, <3>2, Least
  <2>5. ASSUME rest # <<>> PROVE m \in unfinished /\ rest[1] = send_queue[m]
    <3>1. Len(rest) # 0
      BY <2>3, <2>5, EmptySeq
    <3>. HIDE DEF rest, l
    <3>2. m # l + 1 /\ 1 \in 1 .. l - m + 1
      BY <1>2, <2>3, <3>1
    <3>3. \A i \in 1 .. l - m + 1 : rest[i] = send_queue[m + i - 1]
      BY <2>3
    <3>4. rest[1] = send_queue[m + 1 - 1]
      BY <3>2, <3>3, Zenon
    <3>5. m + 1 - 1 = m
      BY <2>3
    <3>6. rest[1] = send_queue[m]
      BY <3>4, <3>5, Zenon
    <3>. QED BY <2>4, <3>2, <3>6
  <2>6. ASSUME NEW i \in unfinished
        PROVE  send_queue[i] \in Streams /\ SentTo(send_queue[i]) < snd[send_queue[i]].queue_offset
    BY <1>2 DEF unfinished
  <2>. HIDE DEF rest, SentTo
  <2>7. ASSUME rest # <<>>
        PROVE  rest[1] \in Streams /\ SentTo(rest[1]) < snd[rest[1]].queue_offset
    BY <2>5, <2>6, <2>7
  <2>. QED BY <1>3, <2>1, <2>7 DEF HeadHasData
<1>. QED BY <1>4, <1>5


(* No step of a connection that nothing disturbs breaks it.                *)
LEMMA SteadyStep ==
  ASSUME PromptNetwork, TlpAbort > 2, Base, Books, Quiet, Steady, Undisturbed, Undisturbed', Next
  PROVE  Steady'
<1>1. /\ up /\ HeadHasData
      /\ \A s \in Streams : ~rcv[s].wait_flush /\ rcv[s].skip_timer = 0
      /\ tlp_interval = 1 \/ (tlp_interval = 2 /\ AnswerComing)
  BY DEF Steady
<1>2. /\ DOMAIN snd = Streams /\ rcv \in [Streams -> RecvStream]
      /\ \A s \in Streams : /\ snd[s] \in SendStream /\ snd[s].flush_timer = 0
                            /\ snd[s].sent_offset \in Nat /\ snd[s].queue_offset \in Nat
                            /\ snd[s].sent_offset <= snd[s].queue_offset
  BY Places DEF Base, SndOK, RcvOK, Quiet
<1>3. send_queue \in Seq(Streams) /\ (send_queue # <<>> => send_queue[1] \in Streams)
  <2>1. send_queue \in Seq(Streams)
    BY DEF Base, ControlOK
  <2>2. ASSUME send_queue # <<>> PROVE 1 \in 1 .. Len(send_queue)
    BY <2>1, <2>2, EmptySeq
  <2>. QED BY <2>1, <2>2, ElementOfSeq
<1>4. flushes = 0 /\ flushes' = 0 /\ skips = 0 /\ skips' = 0 /\ lost = 0 /\ lost' = 0
  BY DEF Undisturbed
\* the head of the queue keeps what it has to send
<1>5. ASSUME send_queue' = send_queue,
             \A s \in Streams : snd'[s].sent_offset = snd[s].sent_offset /\ snd'[s].queue_offset = snd[s].queue_offset
      PROVE  HeadHasData'
  BY <1>1, <1>3, <1>5 DEF HeadHasData
<1>6. ASSUME NEW s, NEW request, Flush(s, request) PROVE FALSE
  <2>1. flushes' = flushes + 1
    BY <1>6 DEF Flush
  <2>. QED BY <1>4, <2>1
<1>7. ASSUME NEW s \in Streams, NEW size \in Sizes, send(s, size) PROVE Steady'
  <2>1. /\ snd' = [snd EXCEPT
             ![s].data_queue = Append(@, [offset |-> snd[s].queue_offset, size |-> size]),
             ![s].queue_offset = @ + size]
        /\ send_queue' = IF s \in ToSet(send_queue) THEN send_queue ELSE Append(send_queue, s)
        /\ is_pacing_timer_active' = TRUE /\ sent_packets' = sent_packets /\ lost_packets' = lost_packets
        /\ rcv' = rcv /\ net' = net /\ up' = up /\ tlp_interval' = tlp_interval
        /\ ack_timer_active' = ack_timer_active
    BY <1>7 DEF send, receiver
  <2>2. size \in Nat \ {0}
    BY SizesAssumption
  <2>3. \A x \in Streams : /\ snd'[x].sent_offset = snd[x].sent_offset
                           /\ snd'[x].queue_offset = IF x = s THEN snd[x].queue_offset + size ELSE snd[x].queue_offset
    BY <1>2, <2>1 DEF SendStream
  <2>4. \A x \in Streams : snd[x].sent_offset < snd[x].queue_offset => snd'[x].sent_offset < snd'[x].queue_offset
    BY <1>2, <2>2, <2>3
  <2>5. snd'[s].sent_offset < snd'[s].queue_offset
    BY <1>2, <2>2, <2>3
  <2>6. send_queue' # <<>> /\ (send_queue'[1] = s \/ (send_queue # <<>> /\ send_queue'[1] = send_queue[1]))
    <3>1. CASE s \in ToSet(send_queue)
      <4>1. send_queue # <<>>
        <5>1. DOMAIN <<>> = {}
          OBVIOUS
        <5>. QED BY <3>1, <5>1 DEF ToSet
      <4>. QED BY <2>1, <3>1, <4>1
    <3>2. CASE s \notin ToSet(send_queue)
      <4>. DEFINE l == Len(send_queue)  more == Append(send_queue, s)
      <4>1. /\ more \in Seq(Streams) /\ Len(more) = l + 1 /\ l \in Nat
            /\ (\A i \in 1 .. l : more[i] = send_queue[i]) /\ more[l + 1] = s
        BY <1>3, AppendProperties, LenProperties
      <4>2. more # <<>>
        BY <4>1, EmptySeq
      <4>3. send_queue = <<>> <=> l = 0
        BY <1>3, EmptySeq
      <4>4. send_queue' = more
        BY <2>1, <3>2
      <4>. HIDE DEF l, more
      <4>5. CASE l = 0
        BY <4>1, <4>2, <4>4, <4>5
      <4>6. CASE l # 0
        <5>1. 1 \in 1 .. l
          BY <4>1, <4>6
        <5>. QED BY <4>1, <4>2, <4>3, <4>4, <4>6, <5>1
      <4>. QED BY <4>5, <4>6
    <3>. QED BY <3>1, <3>2
  <2>7. HeadHasData'
    BY <1>1, <1>3, <2>4, <2>5, <2>6 DEF HeadHasData
  <2>8. AnswerComing => AnswerComing'
    BY <2>1, <2>6 DEF AnswerComing
  <2>. QED BY <1>1, <2>1, <2>7, <2>8 DEF Steady
<1>8. ASSUME pacing_timer_cb PROVE Steady'
  <2>1. PICK n \in 0 .. Len(Backlog) : Round(Backlog, n) /\ SendRound(Backlog, n)
    BY <1>8 DEF pacing_timer_cb
  <2>2. /\ rcv' = rcv /\ up' = up /\ tlp_interval' = tlp_interval /\ ack_timer_active' = ack_timer_active
    BY <1>8 DEF pacing_timer_cb, receiver
  <2>3. net \subseteq net'
    BY <2>1 DEF SendRound
  <2>4. HeadHasData'
    BY <1>1, <2>1, RoundHead
  <2>5. AnswerComing => AnswerComing'
    <3>1. CASE sent_packets = {} /\ (lost_packets # {} \/ send_queue # <<>>)
      BY <1>1, <2>1, <3>1, RoundSendsOne DEF AnswerComing
    <3>. QED BY <2>2, <2>3, <3>1 DEF AnswerComing
  <2>. QED BY <1>1, <2>2, <2>4, <2>5 DEF Steady
<1>9. ASSUME tlp_timer_cb PROVE Steady'
  <2>1. RetryDue /\ snd' = snd /\ send_queue' = send_queue /\ rcv' = rcv
    BY <1>9 DEF tlp_timer_cb, receiver
  <2>2. ~AnswerComing
    BY <2>1 DEF RetryDue, AnswerComing
  <2>3. tlp_interval = 1
    BY <1>1, <2>2
  <2>4. HeadHasData'
    BY <1>5, <2>1
  <2>5. CASE Idle
    <3>1. tlp_interval' = 1 /\ up' = up
      BY <1>9, <2>5 DEF tlp_timer_cb
    <3>. QED BY <1>1, <2>1, <2>4, <3>1 DEF Steady
  <2>6. CASE ~Idle
    <3>1. /\ lost_packets' = lost_packets \cup sent_packets /\ sent_packets' = {}
          /\ is_pacing_timer_active' = TRUE
          /\ \/ tlp_interval < TlpAbort /\ tlp_interval' = 2 * tlp_interval /\ up' = up
             \/ tlp_interval >= TlpAbort
      BY <1>9, <2>6 DEF tlp_timer_cb
    <3>2. tlp_interval' = 2 /\ up' = up
      <4>1. TlpAbort \in Nat
        BY BoundsAssumption
      <4>. QED BY <2>3, <3>1, <4>1
    <3>3. AnswerComing'
      BY <2>1, <2>6, <3>1 DEF Idle, AnswerComing
    <3>. QED BY <1>1, <2>1, <2>4, <3>2, <3>3 DEF Steady
  <2>. QED BY <2>5, <2>6
<1>10. ASSUME ack_timer_cb PROVE Steady'
  <2>1. /\ rcv' = rcv /\ up' = up /\ snd' = snd /\ send_queue' = send_queue /\ tlp_interval' = tlp_interval
        /\ ACK(ack_ranges) \in net'
    BY <1>10 DEF ack_timer_cb, sender, timers
  <2>2. ACK(ack_ranges).type = "ACK"
    BY DEF ACK
  <2>3. AnswerComing'
    BY <2>1, <2>2 DEF AnswerComing
  <2>. QED BY <1>1, <1>5, <2>1, <2>3 DEF Steady
\* the receiver's and the sender's other handlers leave what is coming
<1>11. ASSUME up' = up, \A s \in Streams : ~rcv'[s].wait_flush /\ rcv'[s].skip_timer = 0,
              send_queue' = send_queue, timers' = timers,
              sent_packets' = sent_packets, lost_packets' = lost_packets,
              ack_timer_active' = ack_timer_active,
              \A s \in Streams : snd'[s].sent_offset = snd[s].sent_offset /\ snd'[s].queue_offset = snd[s].queue_offset,
              \A m \in net : m \in net' \/ m.type \notin {"DATA", "ACK"}
       PROVE  Steady'
  <2>1. HeadHasData'
    BY <1>5, <1>11
  <2>2. is_pacing_timer_active' = is_pacing_timer_active /\ tlp_interval' = tlp_interval
    BY <1>11 DEF timers
  <2>3. AnswerComing => AnswerComing'
    BY <1>11, <2>2 DEF AnswerComing
  <2>. QED BY <1>1, <1>11, <2>1, <2>2, <2>3 DEF Steady
<1>12. ASSUME NEW s \in Streams, flush_timer_cb(s) \/ skip_stream(s) \/ skip_timer_cb(s) PROVE FALSE
  <2>1. skip_stream(s) => skips' = skips + 1
    BY DEF skip_stream
  <2>2. ~flush_timer_cb(s)
    BY <1>2 DEF flush_timer_cb
  <2>3. ~skip_timer_cb(s)
    <3>1. skip_timer_cb(s) => rcv[s].skip_timer > 0
      BY DEF skip_timer_cb
    <3>2. rcv[s].skip_timer = 0
      BY <1>1
    <3>3. ~(0 > 0)
      OBVIOUS
    <3>. QED BY <3>1, <3>2, <3>3
  <2>. QED BY <1>4, <1>12, <2>1, <2>2, <2>3
<1>13. ASSUME NEW m \in net, did_recv_DATA(m) PROVE Steady'
  <2>. DEFINE pkt == Packet(m.packet_number)  s == pkt.stream
  <2>1. /\ up' = up /\ snd' = snd /\ send_queue' = send_queue /\ timers' = timers
    BY <1>13 DEF did_recv_DATA, sender
  <2>2. s \in Streams /\ pkt \in Packets
    <3>1. m.type = "DATA" /\ MessageOK(m) /\ LogOK /\ SndOK /\ RcvOK
      BY <1>13 DEF did_recv_DATA, Base, NetOK
    <3>. QED BY <3>1, BroughtIs
  <2>3. /\ rcv' = [rcv EXCEPT ![s] = Accept(rcv[s], pkt)] /\ ack_timer_active' = TRUE
    BY <1>1, <1>13, <2>2 DEF did_recv_DATA, Acks
  <2>4. ASSUME NEW x \in Streams PROVE ~rcv'[x].wait_flush /\ rcv'[x].skip_timer = 0
    <3>1. rcv[s] \in RecvStream /\ rcv'[x] = IF x = s THEN Accept(rcv[s], pkt) ELSE rcv[x]
      BY <1>2, <2>2, <2>3
    <3>2. Accept(rcv[s], pkt).wait_flush = rcv[s].wait_flush /\ Accept(rcv[s], pkt).skip_timer = rcv[s].skip_timer
      BY <2>2, <3>1, AcceptFields
    <3>. QED BY <1>1, <2>2, <3>1, <3>2
  <2>5. HeadHasData' /\ AnswerComing'
    BY <1>5, <2>1, <2>3 DEF AnswerComing
  <2>6. tlp_interval' = tlp_interval
    BY <2>1 DEF timers
  <2>. QED BY <1>1, <2>1, <2>4, <2>5, <2>6 DEF Steady
<1>14. ASSUME NEW m \in net, did_recv_ACK(m) PROVE Steady'
  <2>1. /\ up' = up /\ rcv' = rcv /\ send_queue' = send_queue /\ tlp_interval' = 1
        /\ snd' = [s \in Streams |-> AckStream(NewlyAcked(m), s)]
    BY <1>14 DEF did_recv_ACK, receiver
  <2>2. NewlyAcked(m) \subseteq 0 .. Len(log) - 1
    BY DEF NewlyAcked, Base, LogOK
  <2>3. \A s \in Streams : snd'[s].sent_offset = snd[s].sent_offset /\ snd'[s].queue_offset = snd[s].queue_offset
    BY <2>1, <2>2, AckedFields
  <2>4. HeadHasData'
    BY <1>5, <2>1, <2>3
  <2>. QED BY <1>1, <2>1, <2>4 DEF Steady
<1>15. ASSUME NEW m \in net, did_recv_FLUSHSTREAM(m) PROVE Steady'
  <2>1. m.stream \in Streams /\ m.type = "FLUSHSTREAM"
    <3>1. m \in Message /\ m.type = "FLUSHSTREAM"
      BY <1>15 DEF did_recv_FLUSHSTREAM, Base, NetOK, MessageOK
    <3>. QED BY <3>1 DEF Message
  <2>2. /\ up' = up /\ snd' = snd /\ send_queue' = send_queue /\ timers' = timers
        /\ sent_packets' = sent_packets /\ lost_packets' = lost_packets /\ ack_timer_active' = ack_timer_active
    BY <1>15 DEF did_recv_FLUSHSTREAM, sender
  <2>3. \/ rcv' = rcv
        \/ rcv' = [rcv EXCEPT ![m.stream].read_offset = m.offset,
                              ![m.stream].wait_flush = FALSE,
                              ![m.stream].skip_timer = 0]
    BY <1>15 DEF did_recv_FLUSHSTREAM
  <2>4. \A s \in Streams : ~rcv'[s].wait_flush /\ rcv'[s].skip_timer = 0
    BY <1>1, <1>2, <2>1, <2>3 DEF RecvStream
  <2>5. \A x \in net : x \in net' \/ x.type \notin {"DATA", "ACK"}
    BY <1>15, <2>1 DEF did_recv_FLUSHSTREAM, Reply, Exchange
  <2>. QED BY <1>11, <2>2, <2>4, <2>5
<1>16. ASSUME NEW m \in net, did_recv_FLUSHCONF(m) PROVE Steady'
  <2>1. m.stream \in Streams /\ m.type = "FLUSHCONF"
    <3>1. m \in Message /\ m.type = "FLUSHCONF"
      BY <1>16 DEF did_recv_FLUSHCONF, Base, NetOK, MessageOK
    <3>. QED BY <3>1 DEF Message
  <2>2. /\ up' = up /\ rcv' = rcv /\ send_queue' = send_queue /\ timers' = timers
        /\ sent_packets' = sent_packets /\ lost_packets' = lost_packets /\ ack_timer_active' = ack_timer_active
        /\ snd' = [snd EXCEPT ![m.stream].flush_timer = 0]
    BY <1>16 DEF did_recv_FLUSHCONF, receiver
  <2>3. \A s \in Streams : snd'[s].sent_offset = snd[s].sent_offset /\ snd'[s].queue_offset = snd[s].queue_offset
    BY <1>2, <2>1, <2>2 DEF SendStream
  <2>4. \A x \in net : x \in net' \/ x.type \notin {"DATA", "ACK"}
    BY <1>16, <2>1 DEF did_recv_FLUSHCONF, Reply, Exchange
  <2>. QED BY <1>1, <1>11, <2>2, <2>3, <2>4
<1>17. ASSUME NEW m \in net, did_recv_SKIPSTREAM(m) PROVE Steady'
  <2>1. m.type = "SKIPSTREAM" /\ Reply(m, {FLUSHSTREAM(m.stream, snd[m.stream].acked_offset)})
        /\ UNCHANGED <<sender, receiver, up, lost>>
    BY <1>6, <1>17 DEF did_recv_SKIPSTREAM
  <2>2. /\ up' = up /\ rcv' = rcv /\ snd' = snd /\ send_queue' = send_queue /\ timers' = timers
        /\ sent_packets' = sent_packets /\ lost_packets' = lost_packets /\ ack_timer_active' = ack_timer_active
    BY <2>1 DEF sender, receiver
  <2>3. \A x \in net : x \in net' \/ x.type \notin {"DATA", "ACK"}
    BY <2>1 DEF Reply, Exchange
  <2>. QED BY <1>1, <1>11, <2>2, <2>3
<1>18. ASSUME NEW m, Lose(m) PROVE FALSE
  <2>1. lost' = lost + 1
    BY <1>18 DEF Lose
  <2>. QED BY <1>4, <2>1
<1>19. ASSUME Receive PROVE Steady'
  BY <1>13, <1>14, <1>15, <1>16, <1>17, <1>19 DEF Receive, did_recv
<1>. QED BY <1>6, <1>7, <1>8, <1>9, <1>10, <1>12, <1>18, <1>19 DEF Next, flush_stream

(* As long as the network loses nothing and delivers before a retry timer  *)
(* fires, and nothing is skipped or flushed, the connection is not given   *)
(* up: every second firing of tlp_timer, at the latest, is preceded by an  *)
(* ack, and TlpAbort is more than one doubling away.                       *)
THEOREM LosslessAlwaysUp ==
  ASSUME PromptNetwork, TlpAbort > 2
  PROVE  Spec => [](flushes = 0 /\ skips = 0 => LosslessStaysUp)
<1>1. Init => Survives
  BY DEF Init, Survives, Steady, HeadHasData
<1>2. Base /\ Books /\ Calm /\ Survives /\ [Next]_vars => Survives'
  <2>. SUFFICES ASSUME Base, Books, Calm, Survives, [Next]_vars, Undisturbed' PROVE Steady'
    BY DEF Survives
  <2>1. Undisturbed
    BY DisturbancesCount
  <2>2. Steady /\ Quiet
    BY <2>1 DEF Survives, Calm, Undisturbed
  <2>3. CASE Next
    BY <2>1, <2>2, <2>3, SteadyStep
  <2>4. CASE UNCHANGED vars
    BY <2>2, <2>4 DEF vars, sender, receiver, timers, Steady, HeadHasData, AnswerComing
  <2>. QED BY <2>3, <2>4
<1>3. Survives => (flushes = 0 /\ skips = 0 => LosslessStaysUp)
  BY DEF Survives, Undisturbed, Steady, LosslessStaysUp
<1>. QED BY <1>1, <1>2, <1>3, BaseAlways, BooksAlways, CalmAlways, PTL DEF Spec
=============================================================================
