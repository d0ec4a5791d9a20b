-------------------------- MODULE AckRanges_proofs --------------------------
(***************************************************************************)
(* Proofs about AckRanges: the run-length list is a faithful picture of    *)
(* the set of packet numbers that were added to it.                        *)
(***************************************************************************)
EXTENDS AckRanges, SequenceTheorems, WellFoundedInduction, TLAPS

-----------------------------------------------------------------------------
(* Numbers and sums                                                        *)

(* A set of numbers has a least.                                           *)
LEMMA LeastNumber ==
  ASSUME NEW T \in SUBSET Nat, T # {}
  PROVE  \E x \in T : \A y \in T : x <= y
<1>. DEFINE R == OpToRel(<, Nat)
<1>1. \A x, y \in Nat : <<x, y>> \in R <=> x < y
  BY DEF OpToRel
<1>2. IsWellFoundedOn(R, Nat)
  BY NatLessThanWellFounded
<1>. HIDE DEF R
<1>3. PICK x \in T : \A y \in T : ~(<<y, x>> \in R)
  BY <1>2, WFMin
<1>4. ASSUME NEW y \in T PROVE x <= y
  <2>1. ~(y < x)
    BY <1>1, <1>3
  <2>. QED BY <2>1
<1>. QED BY <1>4

(* The recursion of Total has a solution.                                  *)
LEMMA SumsExist ==
  ASSUME NEW n \in Nat, NEW d, \A i \in 1 .. n : d[i] \in Int
  PROVE  \E f : /\ f = [i \in 0 .. n |-> IF i = 0 THEN 0 ELSE f[i - 1] + d[i]]
                /\ f \in [0 .. n -> Int]
<1>. DEFINE P(m) == \E f \in [0 .. m -> Int] :
              f = [i \in 0 .. m |-> IF i = 0 THEN 0 ELSE f[i - 1] + d[i]]
            bad == {m \in 0 .. n : ~P(m)}
<1>1. P(0)
  <2>. DEFINE f == [i \in 0 .. 0 |-> 0]
  <2>1. f \in [0 .. 0 -> Int] /\ \A i \in 0 .. 0 : i = 0
    OBVIOUS
  <2>2. f = [i \in 0 .. 0 |-> IF i = 0 THEN 0 ELSE f[i - 1] + d[i]]
    BY <2>1
  <2>. QED BY <2>1, <2>2
<1>2. ASSUME NEW m \in 1 .. n, P(m - 1) PROVE P(m)
  <2>1. PICK f \in [0 .. m - 1 -> Int] :
          f = [i \in 0 .. m - 1 |-> IF i = 0 THEN 0 ELSE f[i - 1] + d[i]]
    BY <1>2
  <2>. DEFINE g == [i \in 0 .. m |-> IF i = m THEN f[m - 1] + d[m] ELSE f[i]]
  <2>2. g \in [0 .. m -> Int]
    OBVIOUS
  <2>3. ASSUME NEW i \in 0 .. m PROVE g[i] = (IF i = 0 THEN 0 ELSE g[i - 1] + d[i])
    <3>1. CASE i = m
      BY <3>1
    <3>2. CASE i # m
      <4>1. i \in 0 .. m - 1 /\ g[i] = f[i]
        BY <3>2
      <4>2. f[i] = (IF i = 0 THEN 0 ELSE f[i - 1] + d[i])
        BY <2>1, <4>1
      <4>3. i # 0 => g[i - 1] = f[i - 1]
        BY <4>1
      <4>. QED BY <4>1, <4>2, <4>3
    <3>. QED BY <3>1, <3>2
  <2>4. g = [i \in 0 .. m |-> IF i = 0 THEN 0 ELSE g[i - 1] + d[i]]
    BY <2>3
  <2>. QED BY <2>2, <2>4
<1>. HIDE DEF P
<1>3. bad = {}
  <2>1. SUFFICES ASSUME bad # {} PROVE FALSE
    OBVIOUS
  <2>0. bad \in SUBSET Nat
    OBVIOUS
  <2>2. PICK m \in bad : \A k \in bad : m <= k
    <3>. HIDE DEF bad
    <3>. QED BY <2>0, <2>1, LeastNumber
  <2>3. m # 0 /\ m \in 1 .. n /\ m - 1 \in 0 .. n /\ m - 1 \notin bad
    BY <1>1, <2>2
  <2>. QED BY <1>2, <2>2, <2>3
<1>4. P(n)
  BY <1>3
<1>. QED BY <1>4 DEF P

(* A function that adds up the numbers one by one gives their totals.      *)
LEMMA TotalIs ==
  ASSUME NEW n \in Nat, NEW d, \A i \in 1 .. n : d[i] \in Int,
         NEW L, L[0] = 0, \A i \in 1 .. n : L[i] = L[i - 1] + d[i]
  PROVE  \A k \in 0 .. n : Total(d, k) = L[k]
<1>1. SUFFICES ASSUME NEW k \in 0 .. n PROVE Total(d, k) = L[k]
  OBVIOUS
<1>. DEFINE Sums(f) == f = [i \in 0 .. k |-> IF i = 0 THEN 0 ELSE f[i - 1] + d[i]]
            f == CHOOSE g : Sums(g)
            bad == {i \in 0 .. k : f[i] # L[i]}
<1>2. k \in Nat /\ \A i \in 1 .. k : d[i] \in Int
  OBVIOUS
<1>3. \E g : Sums(g)
  <2>1. PICK g : /\ g = [i \in 0 .. k |-> IF i = 0 THEN 0 ELSE g[i - 1] + d[i]]
                 /\ g \in [0 .. k -> Int]
    <3>. HIDE DEF f
    <3>. QED BY <1>2, SumsExist
  <2>. QED BY <2>1
<1>4. Sums(f)
  BY <1>3
<1>5. Total(d, k) = f[k]
  BY DEF Total
<1>6. f[0] = 0 /\ \A i \in 1 .. k : f[i] = f[i - 1] + d[i]
  <2>. HIDE DEF f
  <2>. QED BY <1>4
<1>. HIDE DEF f
<1>7. bad = {}
  <2>1. SUFFICES ASSUME bad # {} PROVE FALSE
    OBVIOUS
  <2>2. bad \in SUBSET Nat
    OBVIOUS
  <2>3. PICK i \in bad : \A j \in bad : i <= j
    <3>. HIDE DEF bad
    <3>. QED BY <2>1, <2>2, LeastNumber
  <2>4. i \in 1 .. k /\ i - 1 \in 0 .. k /\ i - 1 \notin bad
    BY <1>6, <2>3
  <2>5. f[i - 1] = L[i - 1] /\ L[i] = L[i - 1] + d[i] /\ f[i] = f[i - 1] + d[i]
    BY <1>6, <2>4
  <2>. QED BY <2>3, <2>5
<1>. QED BY <1>5, <1>7

(* Totals, step by step.                                                   *)
LEMMA Totals ==
  ASSUME NEW n \in Nat, NEW d, \A i \in 1 .. n : d[i] \in Int
  PROVE  /\ Total(d, 0) = 0
         /\ \A i \in 0 .. n : Total(d, i) \in Int
         /\ \A i \in 1 .. n : Total(d, i) = Total(d, i - 1) + d[i]
<1>1. PICK f : /\ f = [i \in 0 .. n |-> IF i = 0 THEN 0 ELSE f[i - 1] + d[i]]
               /\ f \in [0 .. n -> Int]
  BY SumsExist
<1>2. f[0] = 0 /\ \A i \in 1 .. n : f[i] = f[i - 1] + d[i]
  BY <1>1
<1>3. \A k \in 0 .. n : Total(d, k) = f[k]
  BY <1>2, TotalIs
<1>. QED BY <1>1, <1>2, <1>3

-----------------------------------------------------------------------------
(* Runs                                                                    *)

(* A run-length list as the code keeps it: no empty run, seen numbers at   *)
(* both ends, and nothing below 0.                                         *)
WellFormed(ar) ==
  /\ ar \in [ranges : Seq(Nat \ {0}), largest : Nat]
  /\ ar.ranges # <<>> => /\ Len(ar.ranges) % 2 = 1
                         /\ Low(ar, Len(ar.ranges)) >= -1

(* The ends of the runs descend.                                           *)
LEMMA Lows ==
  ASSUME NEW ar, ar \in [ranges : Seq(Nat \ {0}), largest : Nat]
  PROVE  /\ Low(ar, 0) = ar.largest
         /\ \A i \in 0 .. Len(ar.ranges) : Low(ar, i) \in Int
         /\ \A i \in 1 .. Len(ar.ranges) : /\ Low(ar, i) = Low(ar, i - 1) - ar.ranges[i]
                                           /\ Low(ar, i) < Low(ar, i - 1)
<1>1. Len(ar.ranges) \in Nat /\ \A i \in 1 .. Len(ar.ranges) : ar.ranges[i] \in Nat \ {0}
  BY LenProperties, ElementOfSeq
<1>. DEFINE n == Len(ar.ranges)  d == ar.ranges
<1>4. n \in Nat /\ \A i \in 1 .. n : d[i] \in Int
  BY <1>1
<1>2. /\ Total(ar.ranges, 0) = 0
      /\ \A i \in 0 .. Len(ar.ranges) : Total(ar.ranges, i) \in Int
      /\ \A i \in 1 .. Len(ar.ranges) :
           Total(ar.ranges, i) = Total(ar.ranges, i - 1) + ar.ranges[i]
  <2>. HIDE DEF n, d
  <2>1. /\ Total(d, 0) = 0
        /\ \A i \in 0 .. n : Total(d, i) \in Int
        /\ \A i \in 1 .. n : Total(d, i) = Total(d, i - 1) + d[i]
    BY <1>4, Totals
  <2>. QED BY <2>1 DEF n, d
<1>3. ar.largest \in Nat
  OBVIOUS
<1>5. \A i \in 0 .. n : Low(ar, i) = ar.largest - Total(d, i)
  BY DEF Low
<1>6. ASSUME NEW i \in 1 .. n PROVE Low(ar, i) = Low(ar, i - 1) - d[i] /\ Low(ar, i) < Low(ar, i - 1)
  <2>1. i \in 0 .. n /\ i - 1 \in 0 .. n /\ d[i] \in Nat \ {0}
    BY <1>1
  <2>2. Total(d, i) \in Int /\ Total(d, i - 1) \in Int /\ Total(d, i) = Total(d, i - 1) + d[i]
    BY <1>2, <2>1
  <2>3. Low(ar, i) = ar.largest - Total(d, i) /\ Low(ar, i - 1) = ar.largest - Total(d, i - 1)
    BY <1>5, <2>1
  <2>. HIDE DEF d
  <2>. QED BY <1>3, <2>1, <2>2, <2>3
<1>7. 0 \in 0 .. n
  BY <1>1
<1>8. Low(ar, 0) = ar.largest /\ \A i \in 0 .. n : Low(ar, i) \in Int
  BY <1>2, <1>3, <1>5, <1>7
<1>. QED BY <1>6, <1>8

(* The ends of a list are those a function gives that starts at its        *)
(* largest number and goes down by its runs.                               *)
LEMMA LowsAre ==
  ASSUME NEW ar, ar \in [ranges : Seq(Nat \ {0}), largest : Nat],
         NEW L, L[0] = ar.largest,
         \A i \in 1 .. Len(ar.ranges) : L[i] = L[i - 1] - ar.ranges[i]
  PROVE  \A i \in 0 .. Len(ar.ranges) : Low(ar, i) = L[i]
<1>. DEFINE n == Len(ar.ranges)
            bad == {i \in 0 .. n : Low(ar, i) # L[i]}
<1>1. /\ Low(ar, 0) = ar.largest
      /\ \A i \in 1 .. n : Low(ar, i) = Low(ar, i - 1) - ar.ranges[i]
  BY Lows
<1>2. n \in Nat
  BY LenProperties
<1>. HIDE DEF n
<1>3. bad = {}
  <2>1. SUFFICES ASSUME bad # {} PROVE FALSE
    OBVIOUS
  <2>2. bad \in SUBSET Nat
    BY <1>2
  <2>3. PICK i \in bad : \A j \in bad : i <= j
    <3>. HIDE DEF bad
    <3>. QED BY <2>1, <2>2, LeastNumber
  <2>4. i \in 1 .. n /\ i - 1 \in 0 .. n /\ i - 1 \notin bad
    BY <1>1, <1>2, <2>3
  <2>5. Low(ar, i - 1) = L[i - 1]
    BY <2>4
  <2>6. L[i] = L[i - 1] - ar.ranges[i] /\ Low(ar, i) = Low(ar, i - 1) - ar.ranges[i]
    BY <1>1, <2>4 DEF n
  <2>. QED BY <2>3, <2>5, <2>6
<1>. QED BY <1>3 DEF n

(* The ends descend all the way.                                           *)
LEMMA Descend ==
  ASSUME NEW ar, ar \in [ranges : Seq(Nat \ {0}), largest : Nat],
         NEW i \in 0 .. Len(ar.ranges)
  PROVE  \A j \in i .. Len(ar.ranges) : Low(ar, j) <= Low(ar, i) - (j - i)
<1>. DEFINE n == Len(ar.ranges)
            bad == {j \in i .. n : ~(Low(ar, j) <= Low(ar, i) - (j - i))}
<1>1. n \in Nat
  BY LenProperties
<1>2. /\ \A j \in 0 .. n : Low(ar, j) \in Int
      /\ \A j \in 1 .. n : Low(ar, j) < Low(ar, j - 1)
  BY Lows
<1>. HIDE DEF n
<1>3. i \in 0 .. n
  BY DEF n
<1>4. bad = {}
  <2>1. SUFFICES ASSUME bad # {} PROVE FALSE
    OBVIOUS
  <2>2. bad \in SUBSET Nat
    BY <1>1, <1>3
  <2>3. PICK j \in bad : \A k \in bad : j <= k
    <3>. HIDE DEF bad
    <3>. QED BY <2>1, <2>2, LeastNumber
  <2>4. j # i
    BY <1>1, <1>2, <1>3, <2>3
  <2>5. j \in 1 .. n /\ j - 1 \in i .. n /\ j - 1 \in 0 .. n /\ j \in 0 .. n
    BY <1>1, <1>3, <2>3, <2>4
  <2>6. j - 1 \notin bad
    BY <2>3, <2>5
  <2>7. Low(ar, j - 1) <= Low(ar, i) - ((j - 1) - i)
    BY <2>5, <2>6
  <2>8. Low(ar, j) < Low(ar, j - 1) /\ Low(ar, j) \in Int /\ Low(ar, j - 1) \in Int /\ Low(ar, i) \in Int
    BY <1>2, <1>3, <2>5
  <2>9. Low(ar, j) <= Low(ar, i) - (j - i)
    BY <1>1, <1>3, <2>5, <2>7, <2>8
  <2>. QED BY <2>3, <2>9
<1>. QED BY <1>4 DEF n

(* x lies in a run of seen numbers, the runs having the ends L.            *)
In(L, n, x) == \E i \in 1 .. n : i % 2 = 1 /\ L[i] < x /\ x <= L[i - 1]

(* A list described by its ends is well formed, and these say what is      *)
(* seen.                                                                   *)
LEMMA ByEnds ==
  ASSUME NEW ar, ar \in [ranges : Seq(Nat \ {0}), largest : Nat], Len(ar.ranges) % 2 = 1,
         NEW L, L[0] = ar.largest, L[Len(ar.ranges)] >= -1,
         \A i \in 1 .. Len(ar.ranges) : L[i] = L[i - 1] - ar.ranges[i]
  PROVE  WellFormed(ar) /\ \A x \in Int : x \in Seen(ar) <=> In(L, Len(ar.ranges), x)
<1>. DEFINE n == Len(ar.ranges)
<1>1. n \in Nat /\ DOMAIN ar.ranges = 1 .. n
  BY LenProperties
<1>2. \A i \in 0 .. n : Low(ar, i) = L[i]
  BY LowsAre
<1>3. WellFormed(ar)
  <2>1. Low(ar, n) = L[n]
    BY <1>1, <1>2
  <2>. QED BY <2>1 DEF WellFormed
<1>4. \A i \in 0 .. n : Low(ar, i) \in Int /\ Low(ar, i) <= ar.largest /\ -1 <= Low(ar, i)
  <2>1. SUFFICES ASSUME NEW i \in 0 .. n
                 PROVE  Low(ar, i) \in Int /\ Low(ar, i) <= ar.largest /\ -1 <= Low(ar, i)
    OBVIOUS
  <2>2. Low(ar, i) \in Int /\ Low(ar, n) \in Int /\ Low(ar, 0) = ar.largest
    BY SMTT(30), <1>1, Lows
  <2>3. Low(ar, i) <= Low(ar, 0) - (i - 0)
    BY <1>1, Descend
  <2>4. Low(ar, n) <= Low(ar, i) - (n - i)
    BY <1>1, Descend
  <2>5. Low(ar, n) >= -1
    BY <1>1, <1>2
  <2>6. ar.largest \in Nat
    OBVIOUS
  <2>. QED BY <1>1, <2>2, <2>3, <2>4, <2>5, <2>6
<1>5. ASSUME NEW x \in Int PROVE x \in Seen(ar) <=> In(L, n, x)
  <2>1. ASSUME NEW i \in 1 .. n PROVE InRange(ar, i, x) <=> L[i] < x /\ x <= L[i - 1]
    <3>1. Low(ar, i) = L[i] /\ Low(ar, i - 1) = L[i - 1]
      BY <1>1, <1>2
    <3>. QED BY <3>1 DEF InRange
  <2>2. ASSUME NEW i \in 1 .. n, InRange(ar, i, x) PROVE x \in 0 .. ar.largest
    <3>1. i \in 0 .. n /\ i - 1 \in 0 .. n
      BY <1>1
    <3>2. /\ Low(ar, i) \in Int /\ -1 <= Low(ar, i)
          /\ Low(ar, i - 1) \in Int /\ Low(ar, i - 1) <= ar.largest
      BY <1>4, <3>1
    <3>3. Low(ar, i) < x /\ x <= Low(ar, i - 1)
      BY <2>2 DEF InRange
    <3>4. ar.largest \in Nat
      OBVIOUS
    <3>. QED BY <3>2, <3>3, <3>4
  <2>3. In(L, n, x) <=> \E i \in 1 .. n : i % 2 = 1 /\ InRange(ar, i, x)
    BY <2>1 DEF In
  <2>. QED BY <1>1, <2>2, <2>3 DEF Seen
<1>. QED BY <1>3, <1>5

(* A well-formed list in terms of its ends.                                *)
LEMMA EndsOf ==
  ASSUME NEW ar, WellFormed(ar), ar.ranges # <<>>,
         NEW L, L = [i \in 0 .. Len(ar.ranges) |-> Low(ar, i)]
  PROVE  /\ L[0] = ar.largest /\ L[Len(ar.ranges)] >= -1
         /\ \A i \in 0 .. Len(ar.ranges) : L[i] \in Int /\ L[i] <= ar.largest
         /\ \A i \in 1 .. Len(ar.ranges) : L[i] = L[i - 1] - ar.ranges[i] /\ L[i] < L[i - 1]
         /\ \A x \in Int : x \in Seen(ar) <=> In(L, Len(ar.ranges), x)
<1>. DEFINE n == Len(ar.ranges)
<1>1. /\ ar \in [ranges : Seq(Nat \ {0}), largest : Nat]
      /\ n % 2 = 1 /\ Low(ar, n) >= -1
  BY DEF WellFormed
<1>2. n \in Nat
  BY <1>1, LenProperties
<1>3. \A i \in 0 .. n : L[i] = Low(ar, i)
  OBVIOUS
<1>4. /\ L[0] = ar.largest /\ L[n] >= -1
      /\ \A i \in 0 .. n : L[i] \in Int
      /\ \A i \in 1 .. n : L[i] = L[i - 1] - ar.ranges[i] /\ L[i] < L[i - 1]
  BY <1>1, <1>2, <1>3, Lows
<1>5. ASSUME NEW i \in 0 .. n PROVE L[i] <= ar.largest
  <2>1. Low(ar, i) <= Low(ar, 0) - (i - 0)
    BY <1>1, <1>2, Descend
  <2>2. L[i] <= L[0] - (i - 0)
    BY <1>2, <1>3, <2>1
  <2>. QED BY <1>1, <1>2, <1>4, <2>2
<1>6. \A x \in Int : x \in Seen(ar) <=> In(L, n, x)
  BY <1>1, <1>4, ByEnds
<1>. QED BY <1>4, <1>5, <1>6

(* How the ends L of n runs become the ends M: one moves by one.           *)
Move(L, M, n, k, num) ==
  /\ n \in Nat /\ n % 2 = 1 /\ num \in Int /\ k \in 0 .. n
  /\ \A i \in 0 .. n : L[i] \in Int
  /\ \A i \in 1 .. n : L[i] < L[i - 1]
  /\ \A i \in (0 .. n) \ {k} : M[i] = L[i]
  /\ \/ k % 2 = 1 /\ L[k] = num /\ M[k] = num - 1
     \/ k % 2 = 0 /\ L[k] = num - 1 /\ M[k] = num

(* Two ends around num are put in.                                         *)
Insert(L, M, n, k, num) ==
  /\ n \in Nat /\ num \in Int /\ k \in 0 .. n + 1
  /\ \A i \in 0 .. n : L[i] \in Int
  /\ M[k] = num /\ M[k + 1] = num - 1
  /\ \A i \in 0 .. n : (i < k => M[i] = L[i]) /\ (i >= k => M[i + 2] = L[i])

(* An end that moves over num turns it from a gap into a seen number.      *)
LEMMA Moved ==
  ASSUME NEW n, NEW k, NEW num, NEW L, NEW M, Move(L, M, n, k, num)
  PROVE  \A x \in Int : In(M, n, x) <=> (In(L, n, x) \/ x = num)
<1>. USE DEF Move
<1>1. SUFFICES ASSUME NEW x \in Int PROVE In(M, n, x) <=> (In(L, n, x) \/ x = num)
  OBVIOUS
<1>2. \A i \in 0 .. n : M[i] \in Int
  OBVIOUS
<1>3. ASSUME NEW i \in 1 .. n, i % 2 = 1
      PROVE  (M[i] < x /\ x <= M[i - 1]) <=>
               ((L[i] < x /\ x <= L[i - 1]) \/ (x = num /\ (i = k \/ i - 1 = k)))
  <2>1. i \in 0 .. n /\ i - 1 \in 0 .. n /\ (i - 1) % 2 = 0
    BY <1>3
  <2>2. L[i] \in Int /\ L[i - 1] \in Int /\ L[i] < L[i - 1]
    BY <2>1
  <2>3. CASE i = k
    <3>1. L[i] = num /\ M[i] = num - 1 /\ M[i - 1] = L[i - 1]
      BY <1>3, <2>1, <2>3
    <3>. QED BY <2>2, <2>3, <3>1
  <2>4. CASE i - 1 = k
    <3>1. L[i - 1] = num - 1 /\ M[i - 1] = num /\ M[i] = L[i]
      BY <1>3, <2>1, <2>4
    <3>. QED BY <2>2, <2>4, <3>1
  <2>5. CASE i # k /\ i - 1 # k
    <3>1. M[i - 1] = L[i - 1] /\ M[i] = L[i]
      BY <2>1, <2>5
    <3>. QED BY <2>5, <3>1
  <2>. QED BY <2>3, <2>4, <2>5
<1>4. \E i \in 1 .. n : i % 2 = 1 /\ (i = k \/ i - 1 = k)
  <2>1. CASE k % 2 = 1
    BY <2>1
  <2>2. CASE k % 2 = 0
    <3>1. k + 1 \in 1 .. n /\ (k + 1) % 2 = 1 /\ (k + 1) - 1 = k
      BY <2>2
    <3>. QED BY <3>1
  <2>. QED BY <2>1, <2>2
<1>. QED BY <1>3, <1>4 DEF In

(* Two ends around num, put in where a run of seen numbers begins, add it. *)
LEMMA Inserted ==
  ASSUME NEW n, NEW k, NEW num, NEW L, NEW M, Insert(L, M, n, k, num), k % 2 = 0
  PROVE  \A x \in Int : In(M, n + 2, x) <=> (In(L, n, x) \/ x = num)
<1>. USE DEF Insert
<1>1. SUFFICES ASSUME NEW x \in Int PROVE In(M, n + 2, x) <=> (In(L, n, x) \/ x = num)
  OBVIOUS
<1>2. ASSUME NEW i \in 1 .. n, i % 2 = 1, L[i] < x, x <= L[i - 1] PROVE In(M, n + 2, x)
  <2>1. CASE i < k
    <3>1. M[i] = L[i] /\ M[i - 1] = L[i - 1] /\ i \in 1 .. n + 2
      BY <2>1
    <3>. QED BY <1>2, <3>1 DEF In
  <2>2. CASE i >= k
    <3>1. i - 1 >= k /\ i - 1 \in 0 .. n
      BY <1>2, <2>2
    <3>2. M[i + 2] = L[i] /\ M[(i - 1) + 2] = L[i - 1] /\ i + 2 \in 1 .. n + 2 /\ (i + 2) % 2 = 1
      BY <1>2, <2>2, <3>1
    <3>3. (i - 1) + 2 = (i + 2) - 1
      OBVIOUS
    <3>. QED BY <1>2, <3>2, <3>3 DEF In
  <2>. QED BY <2>1, <2>2
<1>3. In(M, n + 2, num)
  <2>1. k + 1 \in 1 .. n + 2 /\ (k + 1) % 2 = 1 /\ M[(k + 1) - 1] = num /\ num - 1 < num
    OBVIOUS
  <2>. QED BY <2>1 DEF In
<1>4. ASSUME NEW j \in 1 .. n + 2, j % 2 = 1, M[j] < x, x <= M[j - 1] PROVE In(L, n, x) \/ x = num
  <2>1. CASE j < k
    <3>1. j \in 1 .. n /\ j - 1 \in 0 .. n /\ j - 1 < k
      BY <2>1
    <3>2. M[j] = L[j] /\ M[j - 1] = L[j - 1]
      BY <2>1, <3>1
    <3>. QED BY <1>4, <3>1, <3>2 DEF In
  <2>2. CASE j = k + 1
    BY <1>4, <2>2
  <2>3. CASE j > k + 1
    <3>1. j - 2 \in 1 .. n /\ (j - 2) % 2 = 1 /\ j - 2 >= k /\ j - 3 \in 0 .. n /\ j - 3 >= k
      BY <1>4, <2>3
    <3>2. (j - 2) + 2 = j /\ (j - 3) + 2 = j - 1 /\ (j - 2) - 1 = j - 3
      OBVIOUS
    <3>3. M[j] = L[j - 2] /\ M[j - 1] = L[j - 3]
      BY <3>1, <3>2
    <3>. QED BY <1>4, <3>1, <3>2, <3>3 DEF In
  <2>4. j # k
    BY <1>4
  <2>. QED BY <2>1, <2>2, <2>3, <2>4
<1>. QED BY <1>2, <1>3, <1>4 DEF In

(* A gap of nothing but num, taken out, adds it.                           *)
LEMMA Closed ==
  ASSUME NEW n, NEW k, NEW num, NEW L, NEW M, Insert(L, M, n, k, num),
         k \in 1 .. n, k % 2 = 1, L[k] < num, num <= L[k - 1]
  PROVE  \A x \in Int : In(L, n, x) <=> (In(M, n + 2, x) \/ x = num)
<1>. USE DEF Insert
<1>1. SUFFICES ASSUME NEW x \in Int PROVE In(L, n, x) <=> (In(M, n + 2, x) \/ x = num)
  OBVIOUS
<1>2. ASSUME NEW i \in 1 .. n, i % 2 = 1, L[i] < x, x <= L[i - 1] PROVE In(M, n + 2, x) \/ x = num
  <2>0. L[i] \in Int /\ L[i - 1] \in Int /\ L[k] \in Int /\ L[k - 1] \in Int
    OBVIOUS
  <2>1. CASE i < k
    <3>1. M[i] = L[i] /\ M[i - 1] = L[i - 1] /\ i \in 1 .. n + 2
      BY <2>1
    <3>. QED BY <1>2, <3>1 DEF In
  <2>2. CASE i > k
    <3>1. i - 1 >= k /\ i - 1 \in 0 .. n
      BY <1>2, <2>2
    <3>2. M[i + 2] = L[i] /\ M[(i - 1) + 2] = L[i - 1] /\ i + 2 \in 1 .. n + 2 /\ (i + 2) % 2 = 1
      BY <1>2, <2>2, <3>1
    <3>3. (i - 1) + 2 = (i + 2) - 1
      OBVIOUS
    <3>. QED BY <1>2, <3>2, <3>3 DEF In
  <2>3. CASE i = k /\ x > num
    <3>1. M[k] = num /\ M[k - 1] = L[k - 1] /\ k \in 1 .. n + 2
      OBVIOUS
    <3>. QED BY <1>2, <2>3, <3>1 DEF In
  <2>4. CASE i = k /\ x < num
    <3>1. k + 2 \in 1 .. n + 2 /\ (k + 2) % 2 = 1 /\ M[k + 2] = L[k] /\ (k + 2) - 1 = k + 1
      OBVIOUS
    <3>2. x <= num - 1
      BY <2>4
    <3>. QED BY <1>2, <2>4, <3>1, <3>2 DEF In
  <2>. QED BY <2>1, <2>2, <2>3, <2>4
<1>3. In(L, n, num)
  BY DEF In
<1>4. ASSUME NEW j \in 1 .. n + 2, j % 2 = 1, M[j] < x, x <= M[j - 1] PROVE In(L, n, x)
  <2>0. L[k] \in Int /\ L[k - 1] \in Int
    OBVIOUS
  <2>1. CASE j < k
    <3>1. j \in 1 .. n /\ j - 1 \in 0 .. n /\ j - 1 < k
      BY <2>1
    <3>2. M[j] = L[j] /\ M[j - 1] = L[j - 1]
      BY <2>1, <3>1
    <3>. QED BY <1>4, <3>1, <3>2 DEF In
  <2>2. CASE j = k
    <3>1. M[j] = num /\ M[j - 1] = L[k - 1]
      BY <2>2
    <3>2. L[k] < x /\ x <= L[k - 1]
      BY <1>4, <2>0, <3>1
    <3>. QED BY <3>2 DEF In
  <2>3. CASE j = k + 2
    <3>1. M[j] = L[k] /\ M[j - 1] = num - 1
      BY <2>3
    <3>2. L[k] < x /\ x <= L[k - 1]
      BY <1>4, <2>0, <3>1
    <3>. QED BY <3>2 DEF In
  <2>4. CASE j > k + 2
    <3>1. j - 2 \in 1 .. n /\ (j - 2) % 2 = 1 /\ j - 2 >= k /\ j - 3 \in 0 .. n /\ j - 3 >= k
      BY <1>4, <2>4
    <3>2. (j - 2) + 2 = j /\ (j - 3) + 2 = j - 1 /\ (j - 2) - 1 = j - 3
      OBVIOUS
    <3>3. M[j] = L[j - 2] /\ M[j - 1] = L[j - 3]
      BY <3>1, <3>2
    <3>. QED BY <1>4, <3>1, <3>2, <3>3 DEF In
  <2>5. j # k + 1
    BY <1>4
  <2>. QED BY <2>1, <2>2, <2>3, <2>4, <2>5
<1>. QED BY <1>2, <1>3, <1>4 DEF In

-----------------------------------------------------------------------------
(* Adding a packet number                                                  *)

(* new is ar with num marked as seen.                                      *)
Adds(ar, new, num) ==
  /\ WellFormed(new) /\ new.ranges # <<>>
  /\ new.largest = (IF num > ar.largest THEN num ELSE ar.largest)
  /\ \A x \in Int : x \in Seen(new) <=> (x \in Seen(ar) \/ x = num)

(* What remains to show of a list whose ends M are known, those of ar      *)
(* being L.                                                                *)
Rebuild(ar, L, new, M, num) ==
  /\ L = [i \in 0 .. Len(ar.ranges) |-> Low(ar, i)]
  /\ new \in [ranges : Seq(Nat \ {0}), largest : Nat] /\ Len(new.ranges) % 2 = 1
  /\ new.largest = (IF num > ar.largest THEN num ELSE ar.largest)
  /\ M[0] = new.largest /\ M[Len(new.ranges)] >= -1
  /\ \A i \in 1 .. Len(new.ranges) : M[i] = M[i - 1] - new.ranges[i]
  /\ \A x \in Int : In(M, Len(new.ranges), x) <=> (In(L, Len(ar.ranges), x) \/ x = num)

(* Such a list is ar with num marked as seen.                              *)
LEMMA Rebuilt ==
  ASSUME NEW ar, WellFormed(ar), ar.ranges # <<>>, NEW L, NEW new, NEW M, NEW num,
         Rebuild(ar, L, new, M, num)
  PROVE  Adds(ar, new, num)
<1>. USE DEF Rebuild
<1>1. WellFormed(new) /\ \A x \in Int : x \in Seen(new) <=> In(M, Len(new.ranges), x)
  BY ByEnds
<1>2. \A x \in Int : x \in Seen(ar) <=> In(L, Len(ar.ranges), x)
  BY EndsOf
<1>3. new.ranges # <<>>
  <2>1. Len(new.ranges) # 0
    OBVIOUS
  <2>. QED BY <2>1, EmptySeq
<1>. QED BY <1>1, <1>2, <1>3 DEF Adds

(* A number above all others.                                              *)
LEMMA AddsOnTop ==
  ASSUME NEW ar, WellFormed(ar), ar.ranges # <<>>, NEW num \in Nat, num > ar.largest
  PROVE  Adds(ar, OnTop(ar, num), num)
<1>. DEFINE n == Len(ar.ranges)
            L == [i \in 0 .. n |-> Low(ar, i)]
            new == OnTop(ar, num)
<1>1. ar \in [ranges : Seq(Nat \ {0}), largest : Nat] /\ n % 2 = 1
  BY DEF WellFormed
<1>2. n \in Nat \ {0} /\ \A i \in 1 .. n : ar.ranges[i] \in Nat \ {0}
  BY <1>1, LenProperties, ElementOfSeq
<1>3. /\ L[0] = ar.largest /\ L[n] >= -1
      /\ \A i \in 0 .. n : L[i] \in Int /\ L[i] <= ar.largest
      /\ \A i \in 1 .. n : L[i] = L[i - 1] - ar.ranges[i] /\ L[i] < L[i - 1]
  <2>. HIDE DEF L
  <2>1. L = [i \in 0 .. Len(ar.ranges) |-> Low(ar, i)]
    BY DEF L
  <2>. QED BY <2>1, EndsOf
<1>4. ar.largest \in Nat
  BY <1>1
<1>5. CASE num = ar.largest + 1
  <2>. DEFINE ranges == [ar.ranges EXCEPT ![1] = @ + 1]
              M == [i \in 0 .. n |-> IF i = 0 THEN num ELSE L[i]]
  <2>1. new = [ranges |-> ranges, largest |-> num]
    BY <1>5 DEF OnTop
  <2>2. /\ ranges \in Seq(Nat \ {0}) /\ Len(ranges) = n
        /\ \A i \in 1 .. n : ranges[i] = (IF i = 1 THEN ar.ranges[1] + 1 ELSE ar.ranges[i])
    <3>1. 1 \in 1 .. n /\ ar.ranges[1] + 1 \in Nat \ {0}
      BY <1>2
    <3>. QED BY <1>1, <3>1, ExceptSeq
  <2>. HIDE DEF ranges, new, L, n
  <2>3. \A i \in 1 .. n : M[i] = M[i - 1] - ranges[i]
    <3>1. ASSUME NEW i \in 1 .. n PROVE M[i] = M[i - 1] - ranges[i]
      <4>1. L[i] = L[i - 1] - ar.ranges[i] /\ i \in 0 .. n /\ i - 1 \in 0 .. n /\ ar.ranges[i] \in Nat
        BY <1>2, <1>3
      <4>2. CASE i = 1
        <5>1. M[i] = L[i] /\ M[i - 1] = num
          BY <4>1, <4>2
        <5>2. ranges[i] = ar.ranges[i] + 1
          BY <2>2, <4>2
        <5>3. L[i - 1] = ar.largest
          BY <1>3, <4>2
        <5>. QED BY <1>4, <1>5, <4>1, <5>1, <5>2, <5>3
      <4>3. CASE i # 1
        BY <1>2, <2>2, <4>1, <4>3
      <4>. QED BY <4>2, <4>3
    <3>. QED BY <3>1
  <2>4. \A x \in Int : In(M, n, x) <=> (In(L, n, x) \/ x = num)
    <3>1. 0 \in 0 .. n /\ L[0] = num - 1 /\ M[0] = num /\ \A i \in (0 .. n) \ {0} : M[i] = L[i]
      BY <1>2, <1>3, <1>4, <1>5
    <3>. HIDE DEF M
    <3>2. Move(L, M, n, 0, num)
      BY <1>1, <1>2, <1>3, <3>1 DEF Move, n
    <3>. QED BY <3>2, Moved
  <2>5. M[0] = num /\ M[n] >= -1 /\ n # 0
    BY <1>2, <1>3
  <2>. HIDE DEF M
  <2>6. /\ new \in [ranges : Seq(Nat \ {0}), largest : Nat]
        /\ new.ranges = ranges /\ new.largest = num
    BY <2>1, <2>2
  <2>7. Rebuild(ar, L, new, M, num)
    BY <1>1, <2>2, <2>3, <2>4, <2>5, <2>6 DEF Rebuild, L, n
  <2>. QED BY <2>7, Rebuilt DEF new
<1>6. CASE num # ar.largest + 1
  <2>. DEFINE top == <<1, num - ar.largest - 1>>
              ranges == top \o ar.ranges
              M == [i \in 0 .. n + 2 |-> IF i = 0 THEN num ELSE IF i = 1 THEN num - 1 ELSE L[i - 2]]
  <2>1. new = [ranges |-> ranges, largest |-> num]
    BY <1>6 DEF OnTop
  <2>2. /\ ranges \in Seq(Nat \ {0}) /\ Len(ranges) = n + 2
        /\ ranges[1] = 1 /\ ranges[2] = num - ar.largest - 1
        /\ \A i \in 3 .. n + 2 : ranges[i] = ar.ranges[i - 2]
    <3>1. num - ar.largest - 1 \in Nat \ {0}
      BY <1>4, <1>6
    <3>2. top \in Seq(Nat \ {0}) /\ Len(top) = 2 /\ top[1] = 1 /\ top[2] = num - ar.largest - 1
      BY <3>1
    <3>. HIDE DEF top
    <3>3. /\ ranges \in Seq(Nat \ {0}) /\ Len(ranges) = 2 + n
          /\ \A i \in 1 .. 2 + n : ranges[i] = (IF i <= 2 THEN top[i] ELSE ar.ranges[i - 2])
      <4>1. ar.ranges \in Seq(Nat \ {0})
        BY <1>1
      <4>2. /\ ranges \in Seq(Nat \ {0}) /\ Len(ranges) = Len(top) + Len(ar.ranges)
            /\ \A i \in 1 .. Len(top) + Len(ar.ranges) :
                 ranges[i] = (IF i <= Len(top) THEN top[i] ELSE ar.ranges[i - Len(top)])
        BY <3>2, <4>1, ConcatProperties
      <4>. HIDE DEF ranges
      <4>. QED BY <3>2, <4>2
    <3>. HIDE DEF ranges
    <3>4. 1 \in 1 .. 2 + n /\ 2 \in 1 .. 2 + n /\ n + 2 = 2 + n
      BY <1>2
    <3>5. \A i \in 3 .. n + 2 : i \in 1 .. 2 + n /\ ~(i <= 2)
      BY <1>2
    <3>. QED BY <3>2, <3>3, <3>4, <3>5
  <2>. HIDE DEF ranges, new, L, n
  <2>3. \A i \in 1 .. n + 2 : M[i] = M[i - 1] - ranges[i]
    <3>1. ASSUME NEW i \in 1 .. n + 2 PROVE M[i] = M[i - 1] - ranges[i]
      <4>2. CASE i = 1
        BY <1>2, <2>2, <4>2
      <4>3. CASE i = 2
        BY SMTT(30), <1>2, <1>3, <1>4, <2>2, <4>3
      <4>4. CASE i \in 3 .. n + 2
        <5>1. i - 2 \in 1 .. n /\ (i - 2) - 1 = i - 3 /\ i - 3 \in 0 .. n
          BY <1>2, <4>4
        <5>2. L[i - 2] = L[i - 3] - ar.ranges[i - 2]
          BY <1>3, <5>1
        <5>3. M[i] = L[i - 2] /\ M[i - 1] = L[(i - 1) - 2] /\ (i - 1) - 2 = i - 3
          BY <1>2, <4>4
        <5>. QED BY <2>2, <4>4, <5>2, <5>3
      <4>. QED BY <4>2, <4>3, <4>4
    <3>. QED BY <3>1
  <2>4. \A x \in Int : In(M, n + 2, x) <=> (In(L, n, x) \/ x = num)
    <3>1. /\ M[0] = num /\ M[0 + 1] = num - 1 /\ 0 \in 0 .. n + 1
          /\ \A i \in 0 .. n : (i < 0 => M[i] = L[i]) /\ (i >= 0 => M[i + 2] = L[i])
      BY <1>2
    <3>2. n \in Nat /\ 0 % 2 = 0 /\ \A i \in 0 .. n : L[i] \in Int
      BY <1>2, <1>3
    <3>. HIDE DEF M
    <3>3. Insert(L, M, n, 0, num)
      BY <3>1, <3>2 DEF Insert
    <3>. QED BY <3>2, <3>3, Inserted
  <2>5. M[0] = num /\ M[n + 2] >= -1
    BY <1>2, <1>3
  <2>. HIDE DEF M
  <2>6. /\ new \in [ranges : Seq(Nat \ {0}), largest : Nat]
        /\ new.ranges = ranges /\ new.largest = num
    BY <2>1, <2>2
  <2>7. Len(new.ranges) = n + 2 /\ (n + 2) % 2 = 1
    BY <1>1, <1>2, <2>2, <2>6 DEF n
  <2>8. Rebuild(ar, L, new, M, num)
    BY <1>1, <2>2, <2>3, <2>4, <2>5, <2>6, <2>7 DEF Rebuild, L, n
  <2>. QED BY <2>8, Rebuilt DEF new
<1>. QED BY <1>5, <1>6

(* The middle of a sequence replaced by another one.                       *)
Splice(r, a, mid, b) == SubSeq(r, 1, a) \o mid \o SubSeq(r, b, Len(r))

(* s is such a splice, element by element.                                 *)
IsSplice(S, s, r, a, mid, b) ==
  /\ s \in Seq(S) /\ Len(s) = a + Len(mid) + (Len(r) - b + 1)
  /\ \A j \in 1 .. a : s[j] = r[j]
  /\ \A j \in 1 .. Len(mid) : s[a + j] = mid[j]
  /\ \A j \in b .. Len(r) : s[j - b + 1 + a + Len(mid)] = r[j]

(* What a splice consists of.                                              *)
LEMMA Spliced ==
  ASSUME NEW S, NEW r \in Seq(S), NEW a \in 0 .. Len(r), NEW b \in 1 .. Len(r) + 1,
         NEW mid \in Seq(S)
  PROVE  IsSplice(S, Splice(r, a, mid, b), r, a, mid, b)
<1>. DEFINE u == SubSeq(r, 1, a)  v == SubSeq(r, b, Len(r))  w == u \o mid
            m == Len(mid)  n == Len(r)
<1>1. n \in Nat /\ m \in Nat /\ \A j \in 1 .. n : r[j] \in S
  BY LenProperties, ElementOfSeq
<1>2. u \in Seq(S) /\ Len(u) = a /\ \A j \in 1 .. a : u[j] = r[j]
  <2>1. /\ SubSeq(r, 1, a) \in Seq(S)
        /\ Len(SubSeq(r, 1, a)) = IF 1 <= a THEN a - 1 + 1 ELSE 0
        /\ \A j \in 1 .. a - 1 + 1 : SubSeq(r, 1, a)[j] = r[1 + j - 1]
    BY <1>1, SubSeqProperties
  <2>2. a \in Nat /\ a - 1 + 1 = a /\ \A j \in 1 .. a : 1 + j - 1 = j
    BY <1>1
  <2>. QED BY <2>1, <2>2
<1>3. v \in Seq(S) /\ Len(v) = n - b + 1 /\ \A j \in 1 .. n - b + 1 : v[j] = r[b + j - 1]
  <2>1. /\ SubSeq(r, b, n) \in Seq(S)
        /\ Len(SubSeq(r, b, n)) = IF b <= n THEN n - b + 1 ELSE 0
        /\ \A j \in 1 .. n - b + 1 : SubSeq(r, b, n)[j] = r[b + j - 1]
    BY <1>1, SubSeqProperties
  <2>. QED BY <1>1, <2>1
<1>. HIDE DEF u, v
<1>4. /\ w \in Seq(S) /\ Len(w) = a + m
      /\ \A j \in 1 .. a + m : w[j] = (IF j <= a THEN u[j] ELSE mid[j - a])
  <2>1. /\ w \in Seq(S) /\ Len(w) = Len(u) + Len(mid)
        /\ \A j \in 1 .. Len(u) + Len(mid) : w[j] = (IF j <= Len(u) THEN u[j] ELSE mid[j - Len(u)])
    BY <1>2, ConcatProperties
  <2>. QED BY <1>2, <2>1
<1>. DEFINE s == w \o v
<1>. HIDE DEF w
<1>5. /\ s \in Seq(S) /\ Len(s) = (a + m) + (n - b + 1)
      /\ \A j \in 1 .. (a + m) + (n - b + 1) : s[j] = (IF j <= a + m THEN w[j] ELSE v[j - (a + m)])
  <2>1. /\ s \in Seq(S) /\ Len(s) = Len(w) + Len(v)
        /\ \A j \in 1 .. Len(w) + Len(v) : s[j] = (IF j <= Len(w) THEN w[j] ELSE v[j - Len(w)])
    BY <1>3, <1>4, ConcatProperties
  <2>. QED BY <1>3, <1>4, <2>1
<1>6. s = Splice(r, a, mid, b)
  BY DEF Splice, s, w, u, v
<1>. HIDE DEF s, m, n
<1>7. a \in Nat /\ b \in Nat \ {0} /\ b <= n + 1 /\ n \in Nat /\ m \in Nat
  BY <1>1 DEF n
<1>8. ASSUME NEW j \in 1 .. a PROVE s[j] = r[j]
  <2>1. j \in 1 .. (a + m) + (n - b + 1) /\ j \in 1 .. a + m /\ j <= a /\ j <= a + m
    BY <1>7
  <2>. QED BY <1>2, <1>4, <1>5, <2>1
<1>9. ASSUME NEW j \in 1 .. m PROVE s[a + j] = mid[j]
  <2>1. a + j \in 1 .. (a + m) + (n - b + 1) /\ a + j \in 1 .. a + m
        /\ ~(a + j <= a) /\ a + j <= a + m /\ (a + j) - a = j
    BY <1>7
  <2>2. s[a + j] = w[a + j] /\ w[a + j] = mid[(a + j) - a]
    BY <1>4, <1>5, <2>1
  <2>. QED BY <2>1, <2>2
<1>10. ASSUME NEW j \in b .. n PROVE s[j - b + 1 + a + m] = r[j]
  <2>1. /\ j - b + 1 + a + m \in 1 .. (a + m) + (n - b + 1) /\ ~(j - b + 1 + a + m <= a + m)
        /\ (j - b + 1 + a + m) - (a + m) = j - b + 1 /\ j - b + 1 \in 1 .. n - b + 1
        /\ b + (j - b + 1) - 1 = j
    BY <1>7
  <2>2. s[j - b + 1 + a + m] = v[(j - b + 1 + a + m) - (a + m)]
    BY <1>5, <2>1
  <2>3. v[j - b + 1] = r[b + (j - b + 1) - 1]
    BY <1>3, <2>1
  <2>. QED BY <2>1, <2>2, <2>3
<1>11. IsSplice(S, s, r, a, mid, b)
  BY <1>5, <1>8, <1>9, <1>10 DEF m, n, IsSplice
<1>. QED BY <1>6, <1>11

(* The parity of a number's neighbours.                                    *)
LEMMA Parity ==
  ASSUME NEW n \in Int
  PROVE  /\ n % 2 \in {0, 1} /\ (n - 2) % 2 = n % 2 /\ (n + 2) % 2 = n % 2
         /\ (n - 1) % 2 = 1 - (n % 2) /\ (n + 1) % 2 = 1 - (n % 2)
OBVIOUS

(* num is in run i of ar, which is a gap.                                  *)
InGap(ar, i, num) ==
  /\ WellFormed(ar) /\ ar.ranges # <<>> /\ num \in Nat
  /\ i \in DOMAIN ar.ranges /\ i % 2 = 0 /\ InRange(ar, i, num)

(* The ends L around a gap.                                                *)
Around(ar, L, n, i, num) ==
  /\ ar.ranges \in Seq(Nat \ {0}) /\ ar.largest \in Nat /\ num \in Nat /\ ~(num > ar.largest)
  /\ n = Len(ar.ranges) /\ n \in Nat /\ n % 2 = 1 /\ i \in 2 .. n - 1 /\ i % 2 = 0
  /\ L = [j \in 0 .. n |-> Low(ar, j)] /\ L[0] = ar.largest /\ L[n] >= -1
  /\ \A j \in 0 .. n : L[j] \in Int
  /\ \A j \in 1 .. n : /\ L[j] = L[j - 1] - ar.ranges[j] /\ L[j] < L[j - 1]
                       /\ ar.ranges[j] \in Nat \ {0}
  /\ L[i] < num /\ num <= L[i - 1]

(* A gap lies between two runs of seen numbers, below the largest number.  *)
LEMMA GapEnds ==
  ASSUME NEW ar, NEW i, NEW num, InGap(ar, i, num)
  PROVE  Around(ar, [j \in 0 .. Len(ar.ranges) |-> Low(ar, j)], Len(ar.ranges), i, num)
<1>. DEFINE n == Len(ar.ranges)  L == [j \in 0 .. n |-> Low(ar, j)]
<1>1. /\ ar \in [ranges : Seq(Nat \ {0}), largest : Nat] /\ n % 2 = 1
      /\ WellFormed(ar) /\ ar.ranges # <<>> /\ num \in Nat
      /\ i \in DOMAIN ar.ranges /\ i % 2 = 0 /\ Low(ar, i) < num /\ num <= Low(ar, i - 1)
  BY DEF InGap, WellFormed, InRange
<1>2. /\ n \in Nat /\ DOMAIN ar.ranges = 1 .. n
      /\ \A j \in 1 .. n : ar.ranges[j] \in Nat \ {0}
  BY <1>1, LenProperties, ElementOfSeq
<1>3. /\ L[0] = ar.largest /\ L[n] >= -1
      /\ \A j \in 0 .. n : L[j] \in Int /\ L[j] <= ar.largest
      /\ \A j \in 1 .. n : L[j] = L[j - 1] - ar.ranges[j] /\ L[j] < L[j - 1]
  <2>1. L = [j \in 0 .. Len(ar.ranges) |-> Low(ar, j)]
    OBVIOUS
  <2>2. WellFormed(ar) /\ ar.ranges # <<>>
    BY <1>1
  <2>. HIDE DEF L
  <2>. QED BY <2>1, <2>2, EndsOf
<1>4. i \in 2 .. n - 1
  <2>1. i \in 1 .. n /\ i % 2 = 0 /\ n % 2 = 1 /\ 1 % 2 = 1
    BY <1>1, <1>2
  <2>2. i # 1
    BY <2>1
  <2>3. i # n
    <3>. HIDE DEF n
    <3>. QED BY <2>1
  <2>. QED BY <1>2, <2>1, <2>2, <2>3
<1>5. L[i] = Low(ar, i) /\ L[i - 1] = Low(ar, i - 1) /\ i - 1 \in 0 .. n
  BY <1>2, <1>4
<1>. HIDE DEF n
<1>6. ~(num > ar.largest)
  BY <1>1, <1>3, <1>5
<1>7. L = [j \in 0 .. n |-> Low(ar, j)]
  OBVIOUS
<1>. HIDE DEF L
<1>. QED BY <1>1, <1>2, <1>3, <1>4, <1>5, <1>6, <1>7 DEF Around, n, L

(* The gap was num alone: the runs around it become one.                   *)
LEMMA GapClosed ==
  ASSUME NEW ar, NEW i, NEW num, InGap(ar, i, num),
         NEW ranges, Low(ar, i - 1) = num, Low(ar, i) + 1 = num,
         ranges = Splice(ar.ranges, i - 2, <<ar.ranges[i - 1] + 1 + ar.ranges[i + 1]>>, i + 2)
  PROVE  Adds(ar, [ar EXCEPT !.ranges = ranges], num)
<1>. DEFINE n == Len(ar.ranges)  L == [j \in 0 .. n |-> Low(ar, j)]
            new == [ar EXCEPT !.ranges = ranges]
            sum == ar.ranges[i - 1] + 1 + ar.ranges[i + 1]
            M == [j \in 0 .. n - 2 |-> IF j < i - 1 THEN L[j] ELSE L[j + 2]]
<1>1. Around(ar, L, n, i, num)
  BY GapEnds
<1>3. WellFormed(ar) /\ ar.ranges # <<>> /\ ar \in [ranges : Seq(Nat \ {0}), largest : Nat]
  BY DEF InGap, WellFormed
<1>20. Low(ar, i - 1) = num /\ Low(ar, i) + 1 = num
  OBVIOUS
<1>. HIDE DEF n, L
<1>21. n \in Nat /\ n = Len(ar.ranges) /\ i \in 2 .. n - 1 /\ num \in Nat
  BY <1>1 DEF Around
<1>28. num \in Int /\ n \in Int /\ i \in Int
  BY <1>21
<1>22. i % 2 = 0 /\ n % 2 = 1
  BY <1>1 DEF Around
<1>23. \A j \in 1 .. n : L[j] = L[j - 1] - ar.ranges[j] /\ L[j] < L[j - 1] /\ ar.ranges[j] \in Nat
  BY <1>1 DEF Around
<1>24. \A j \in 0 .. n : L[j] \in Int
  BY <1>1 DEF Around
<1>25. L = [j \in 0 .. n |-> Low(ar, j)] /\ L[0] = ar.largest /\ L[n] >= -1 /\ ~(num > ar.largest)
  BY <1>1 DEF Around
<1>26. ar.ranges \in Seq(Nat \ {0})
  BY <1>1 DEF Around
<1>27. i - 2 \in 0 .. n /\ i - 1 \in 1 .. n /\ i \in 0 .. n /\ i + 1 \in 1 .. n /\ i + 2 \in 1 .. n + 1
  BY <1>21
<1>2. L[i - 1] = num /\ L[i] = num - 1
  <2>1. L[i - 1] = Low(ar, i - 1) /\ L[i] = Low(ar, i)
    BY <1>25, <1>27
  <2>2. L[i] \in Int
    BY <1>24, <1>27
  <2>. QED BY <1>20, <1>21, <2>1, <2>2
<1>4. sum \in Nat \ {0} /\ <<sum>> \in Seq(Nat \ {0}) /\ Len(<<sum>>) = 1 /\ <<sum>>[1] = sum
  <2>2. ar.ranges[i - 1] \in Nat /\ ar.ranges[i + 1] \in Nat
    BY <1>23, <1>27
  <2>. QED BY <2>2
<1>5. /\ ranges \in Seq(Nat \ {0}) /\ Len(ranges) = n - 2
      /\ \A j \in 1 .. i - 2 : ranges[j] = ar.ranges[j]
      /\ ranges[i - 1] = sum
      /\ \A j \in i + 2 .. n : ranges[j - 2] = ar.ranges[j]
  <2>1. i - 2 \in 0 .. Len(ar.ranges) /\ i + 2 \in 1 .. Len(ar.ranges) + 1
    BY <1>21, <1>27
  <2>. DEFINE mid == <<sum>>
  <2>2. mid \in Seq(Nat \ {0}) /\ Len(mid) = 1 /\ mid[1] = sum
    BY <1>4
  <2>. HIDE DEF mid
  <2>3. IsSplice(Nat \ {0}, Splice(ar.ranges, i - 2, mid, i + 2), ar.ranges, i - 2, mid, i + 2)
    BY <1>26, <2>1, <2>2, Spliced
  <2>4. ranges = Splice(ar.ranges, i - 2, mid, i + 2)
    BY DEF mid
  <2>. HIDE DEF sum
  <2>5. IsSplice(Nat \ {0}, ranges, ar.ranges, i - 2, mid, i + 2)
    BY <2>3, <2>4
  <2>6. /\ ranges \in Seq(Nat \ {0}) /\ Len(ranges) = (i - 2) + Len(mid) + (Len(ar.ranges) - (i + 2) + 1)
        /\ \A j \in 1 .. i - 2 : ranges[j] = ar.ranges[j]
        /\ \A j \in 1 .. Len(mid) : ranges[(i - 2) + j] = mid[j]
        /\ \A j \in i + 2 .. n : ranges[j - (i + 2) + 1 + (i - 2) + Len(mid)] = ar.ranges[j]
    BY <1>21, <2>5 DEF IsSplice
  <2>7. ranges[i - 1] = sum
    <3>1. 1 \in 1 .. Len(mid) /\ (i - 2) + 1 = i - 1
      BY <1>21, <2>2
    <3>. QED BY <2>2, <2>6, <3>1
  <2>8. \A j \in i + 2 .. n : ranges[j - 2] = ar.ranges[j]
    <3>1. \A j \in i + 2 .. n : j - (i + 2) + 1 + (i - 2) + Len(mid) = j - 2
      BY <1>21, <2>2
    <3>. QED BY <2>6, <3>1
  <2>9. Len(ranges) = n - 2
    BY <1>21, <2>2, <2>6
  <2>. QED BY <2>6, <2>7, <2>8, <2>9
<1>. HIDE DEF sum
<1>6. \A j \in 1 .. n - 2 : M[j] = M[j - 1] - ranges[j]
  <2>1. SUFFICES ASSUME NEW j \in 1 .. n - 2 PROVE M[j] = M[j - 1] - ranges[j]
    OBVIOUS
  <2>2. n \in Nat /\ i \in 2 .. n - 1
    BY <1>21
  <2>3. CASE j < i - 1
    <3>1. M[j] = L[j] /\ M[j - 1] = L[j - 1] /\ j \in 1 .. n /\ j \in 1 .. i - 2
      BY <2>2, <2>3
    <3>2. L[j] = L[j - 1] - ar.ranges[j]
      BY <1>23, <3>1
    <3>. QED BY <1>5, <3>1, <3>2
  <2>4. CASE j = i - 1
    <3>1. M[j] = L[i + 1] /\ M[j - 1] = L[i - 2]
      BY <2>2, <2>4
    <3>2. i - 1 \in 1 .. n /\ i + 1 \in 1 .. n /\ i \in 1 .. n /\ i - 2 \in 0 .. n
          /\ (i + 1) - 1 = i /\ (i - 1) - 1 = i - 2
      BY <2>2
    <3>3. L[i - 1] = L[i - 2] - ar.ranges[i - 1] /\ L[i + 1] = L[i] - ar.ranges[i + 1]
      BY <1>23, <3>2
    <3>4. ar.ranges[i - 1] \in Nat /\ ar.ranges[i + 1] \in Nat
      BY <1>23, <3>2
    <3>6. L[i - 2] \in Int /\ L[i + 1] \in Int
      BY <1>24, <1>27
    <3>5. L[i + 1] = L[i - 2] - (ar.ranges[i - 1] + 1 + ar.ranges[i + 1])
      <4>. HIDE DEF M, new
      <4>1. L[i + 1] = num - 1 - ar.ranges[i + 1] /\ num = L[i - 2] - ar.ranges[i - 1]
        BY <1>2, <3>3
      <4>. QED BY <1>28, <3>4, <3>6, <4>1
    <3>. QED BY <1>5, <2>4, <3>1, <3>5 DEF sum
  <2>5. CASE j > i - 1
    <3>1. M[j] = L[j + 2] /\ M[j - 1] = L[(j - 1) + 2] /\ (j - 1) + 2 = (j + 2) - 1
      BY <2>2, <2>5
    <3>2. j + 2 \in 1 .. n /\ j + 2 \in i + 2 .. n /\ (j + 2) - 2 = j
      BY <2>2, <2>5
    <3>3. L[j + 2] = L[(j + 2) - 1] - ar.ranges[j + 2]
      BY <1>23, <3>2
    <3>4. ranges[j] = ar.ranges[j + 2]
      BY <1>5, <3>2
    <3>. QED BY <3>1, <3>3, <3>4
  <2>. QED BY <2>2, <2>3, <2>4, <2>5
<1>7. \A x \in Int : In(M, n - 2, x) <=> (In(L, n, x) \/ x = num)
  <2>1. n \in Nat /\ i \in 2 .. n - 1 /\ \A j \in 0 .. n : L[j] \in Int
    BY <1>21, <1>24
  <2>2. \A j \in 0 .. n - 2 : M[j] \in Int
    BY <2>1
  <2>3. \A j \in 0 .. n - 2 : (j < i - 1 => L[j] = M[j]) /\ (j >= i - 1 => L[j + 2] = M[j])
    BY <2>1
  <2>4. M[i - 1] = L[i + 1] /\ M[(i - 1) - 1] = L[i - 2] /\ i - 1 \in 1 .. n - 2
    BY <2>1
  <2>5. L[i + 1] < num /\ num <= L[i - 2]
    <3>1. i + 1 \in 1 .. n /\ i - 1 \in 1 .. n /\ (i + 1) - 1 = i /\ (i - 1) - 1 = i - 2
          /\ i + 1 \in 0 .. n /\ i - 2 \in 0 .. n
      BY <2>1
    <3>2. L[i + 1] < L[i] /\ L[i - 1] < L[i - 2]
      BY <1>23, <3>1
    <3>3. L[i + 1] \in Int /\ L[i - 2] \in Int
      BY <1>24, <3>1
    <3>. QED BY <1>2, <1>21, <3>2, <3>3
  <2>. HIDE DEF M
  <2>6. (i - 1) % 2 = 1 /\ (i - 1) + 1 = i /\ num \in Int /\ n - 2 \in Nat /\ i - 1 \in 0 .. (n - 2) + 1
    BY <1>21, <1>22
  <2>7. Insert(M, L, n - 2, i - 1, num)
    BY <1>2, <2>2, <2>3, <2>6 DEF Insert
  <2>8. \A x \in Int : In(M, n - 2, x) <=> (In(L, (n - 2) + 2, x) \/ x = num)
    BY <2>4, <2>5, <2>6, <2>7, Closed
  <2>9. (n - 2) + 2 = n
    BY <2>1
  <2>. QED BY <2>8, <2>9
<1>8. M[0] = ar.largest /\ M[n - 2] >= -1 /\ (n - 2) % 2 = 1
  <2>1. 0 < i - 1 /\ ~(n - 2 < i - 1) /\ (n - 2) + 2 = n /\ 0 \in 0 .. n - 2 /\ n - 2 \in 0 .. n - 2
    BY <1>21
  <2>2. (n - 2) % 2 = 1
    <3>1. (n - 2) % 2 = n % 2
      BY <1>28, Parity
    <3>. QED BY <1>22, <3>1
  <2>. QED BY <1>25, <2>1, <2>2
<1>9. new \in [ranges : Seq(Nat \ {0}), largest : Nat] /\ new.ranges = ranges /\ new.largest = ar.largest
  BY <1>3, <1>5
<1>10. ~(num > ar.largest) /\ L = [j \in 0 .. Len(ar.ranges) |-> Low(ar, j)] /\ n = Len(ar.ranges)
  BY <1>21, <1>25
<1>. HIDE DEF M, new
<1>11. Rebuild(ar, L, new, M, num)
  BY ZenonT(60), <1>5, <1>6, <1>7, <1>8, <1>9, <1>10 DEF Rebuild
<1>12. Adds(ar, new, num)
  BY <1>3, <1>11, Rebuilt
<1>. QED BY <1>12 DEF new

(* num was the upper end of a larger gap: the run above grows.             *)
LEMMA GapTop ==
  ASSUME NEW ar, NEW i, NEW num, InGap(ar, i, num), Low(ar, i - 1) = num,
         NEW below, below = num - (Low(ar, i) + 1), below > 0,
         NEW ranges, ranges = [ar.ranges EXCEPT ![i - 1] = @ + 1, ![i] = below]
  PROVE  Adds(ar, [ar EXCEPT !.ranges = ranges], num)
<1>. DEFINE n == Len(ar.ranges)  L == [j \in 0 .. n |-> Low(ar, j)]
            new == [ar EXCEPT !.ranges = ranges]
            M == [j \in 0 .. n |-> IF j = i - 1 THEN num - 1 ELSE L[j]]
<1>20. /\ Low(ar, i - 1) = num /\ below = num - (Low(ar, i) + 1) /\ below > 0
       /\ ranges = [ar.ranges EXCEPT ![i - 1] = @ + 1, ![i] = below]
  OBVIOUS
<1>1. Around(ar, L, n, i, num)
  BY GapEnds
<1>3. WellFormed(ar) /\ ar.ranges # <<>> /\ ar \in [ranges : Seq(Nat \ {0}), largest : Nat]
  BY DEF InGap, WellFormed
<1>. HIDE DEF n, L
<1>21. n \in Nat /\ n = Len(ar.ranges) /\ i \in 2 .. n - 1 /\ num \in Nat
  BY <1>1 DEF Around
<1>22. i % 2 = 0 /\ n % 2 = 1
  BY <1>1 DEF Around
<1>23. \A j \in 1 .. n : L[j] = L[j - 1] - ar.ranges[j] /\ L[j] < L[j - 1] /\ ar.ranges[j] \in Nat \ {0}
  BY <1>1 DEF Around
<1>24. \A j \in 0 .. n : L[j] \in Int
  BY <1>1 DEF Around
<1>25. L = [j \in 0 .. n |-> Low(ar, j)] /\ L[0] = ar.largest /\ L[n] >= -1 /\ ~(num > ar.largest)
  BY <1>1 DEF Around
<1>26. ar.ranges \in Seq(Nat \ {0})
  BY <1>1 DEF Around
<1>27. i - 1 \in 0 .. n /\ i - 1 \in 1 .. n /\ i \in 0 .. n /\ i \in 1 .. n /\ i + 1 \in 1 .. n
  BY <1>21
<1>28. num \in Int /\ n \in Int /\ i \in Int
  BY <1>21
<1>2. L[i - 1] = num /\ below = num - (L[i] + 1) /\ below \in Nat \ {0}
  <2>1. L[i - 1] = Low(ar, i - 1) /\ L[i] = Low(ar, i) /\ L[i] \in Int
    BY <1>24, <1>25, <1>27
  <2>. QED BY <1>20, <1>28, <2>1
<1>5. /\ ranges \in Seq(Nat \ {0}) /\ Len(ranges) = n
      /\ \A j \in 1 .. n : ranges[j] = (IF j = i THEN below
                                        ELSE IF j = i - 1 THEN ar.ranges[j] + 1 ELSE ar.ranges[j])
  <2>. DEFINE a == ar.ranges[i - 1] + 1  first == [ar.ranges EXCEPT ![i - 1] = a]
  <2>1. a \in Nat \ {0} /\ i - 1 \in 1 .. Len(ar.ranges) /\ i \in 1 .. Len(ar.ranges)
    BY <1>21, <1>23, <1>27
  <2>2. ranges = [first EXCEPT ![i] = below]
    BY <1>20
  <2>3. a = ar.ranges[i - 1] + 1
    OBVIOUS
  <2>. HIDE DEF a
  <2>4. /\ first \in Seq(Nat \ {0}) /\ Len(first) = Len(ar.ranges)
        /\ \A j \in 1 .. Len(ar.ranges) : first[j] = IF j = i - 1 THEN a ELSE ar.ranges[j]
    BY <1>26, <2>1, ExceptSeq
  <2>. HIDE DEF first
  <2>5. /\ ranges \in Seq(Nat \ {0}) /\ Len(ranges) = Len(first)
        /\ \A j \in 1 .. Len(first) : ranges[j] = IF j = i THEN below ELSE first[j]
    <3>1. i \in 1 .. Len(first)
      BY <2>1, <2>4
    <3>2. /\ [first EXCEPT ![i] = below] \in Seq(Nat \ {0}) /\ Len([first EXCEPT ![i] = below]) = Len(first)
          /\ \A j \in 1 .. Len(first) : [first EXCEPT ![i] = below][j] = IF j = i THEN below ELSE first[j]
      BY <1>2, <2>4, <3>1, ExceptSeq
    <3>. QED BY <2>2, <3>2
  <2>. QED BY <1>21, <2>3, <2>4, <2>5
<1>6. \A j \in 1 .. n : M[j] = M[j - 1] - ranges[j]
  <2>1. SUFFICES ASSUME NEW j \in 1 .. n PROVE M[j] = M[j - 1] - ranges[j]
    OBVIOUS
  <2>2. /\ M[j] = (IF j = i - 1 THEN num - 1 ELSE L[j]) /\ M[j - 1] = (IF j - 1 = i - 1 THEN num - 1 ELSE L[j - 1])
        /\ L[j] = L[j - 1] - ar.ranges[j]
    BY <1>21, <1>23
  <2>3. L[j] \in Int /\ L[j - 1] \in Int /\ ar.ranges[j] \in Int
    BY <1>21, <1>23, <1>24
  <2>4. CASE j = i - 1
    <3>1. j - 1 # i - 1
      BY <1>28, <2>4
    <3>2. L[j] = num
      BY <1>2, <2>4
    <3>3. ranges[j] = ar.ranges[j] + 1
      BY <1>5, <1>28, <2>4
    <3>4. M[j] = num - 1 /\ M[j - 1] = L[j - 1]
      BY <2>2, <2>4, <3>1
    <3>. HIDE DEF M
    <3>. QED BY <1>28, <2>2, <2>3, <3>2, <3>3, <3>4
  <2>5. CASE j - 1 = i - 1
    <3>1. j = i /\ j # i - 1
      BY <1>28, <2>5
    <3>2. L[j - 1] = num
      BY <1>2, <2>5
    <3>3. ranges[j] = num - (L[j] + 1)
      BY <1>2, <1>5, <3>1
    <3>. HIDE DEF M
    <3>. QED BY <1>28, <2>2, <2>3, <2>5, <3>1, <3>2, <3>3
  <2>6. CASE j # i - 1 /\ j - 1 # i - 1
    <3>1. j # i
      BY <1>28, <2>6
    <3>. QED BY <1>5, <2>2, <2>6, <3>1
  <2>. QED BY <2>4, <2>5, <2>6
<1>7. \A x \in Int : In(M, n, x) <=> (In(L, n, x) \/ x = num)
  <2>1. i - 1 \in 0 .. n /\ (i - 1) % 2 = 1
    BY <1>22, <1>27, <1>28, Parity
  <2>2. M[i - 1] = num - 1 /\ \A j \in (0 .. n) \ {i - 1} : M[j] = L[j]
    BY <1>27
  <2>3. \A j \in 1 .. n : L[j] < L[j - 1]
    BY <1>23
  <2>. HIDE DEF M
  <2>4. Move(L, M, n, i - 1, num)
    BY <1>2, <1>21, <1>22, <1>24, <1>28, <2>1, <2>2, <2>3 DEF Move
  <2>. QED BY <2>4, Moved
<1>8. M[0] = ar.largest /\ M[n] >= -1 /\ n % 2 = 1
  <2>1. 0 # i - 1 /\ n # i - 1 /\ 0 \in 0 .. n /\ n \in 0 .. n
    BY <1>21
  <2>. QED BY <1>22, <1>25, <2>1
<1>9. new \in [ranges : Seq(Nat \ {0}), largest : Nat] /\ new.ranges = ranges /\ new.largest = ar.largest
  BY <1>3, <1>5
<1>10. ~(num > ar.largest) /\ L = [j \in 0 .. Len(ar.ranges) |-> Low(ar, j)] /\ n = Len(ar.ranges)
  BY <1>21, <1>25
<1>. HIDE DEF M, new
<1>11. Rebuild(ar, L, new, M, num)
  <2>1. Len(new.ranges) = n /\ \A j \in 1 .. n : M[j] = M[j - 1] - new.ranges[j]
    BY <1>5, <1>6, <1>9
  <2>. QED BY <1>7, <1>8, <1>9, <1>10, <2>1 DEF Rebuild
<1>12. Adds(ar, new, num)
  BY <1>3, <1>11, Rebuilt
<1>. QED BY <1>12 DEF new

(* num was the lower end of a larger gap: the run below grows.             *)
LEMMA GapBottom ==
  ASSUME NEW ar, NEW i, NEW num, InGap(ar, i, num), Low(ar, i) + 1 = num,
         NEW above, above = Low(ar, i - 1) - num, above > 0,
         NEW ranges, ranges = [ar.ranges EXCEPT ![i] = above, ![i + 1] = @ + 1]
  PROVE  Adds(ar, [ar EXCEPT !.ranges = ranges], num)
<1>. DEFINE n == Len(ar.ranges)  L == [j \in 0 .. n |-> Low(ar, j)]
            new == [ar EXCEPT !.ranges = ranges]
            M == [j \in 0 .. n |-> IF j = i THEN num ELSE L[j]]
<1>20. /\ Low(ar, i) + 1 = num /\ above = Low(ar, i - 1) - num /\ above > 0
       /\ ranges = [ar.ranges EXCEPT ![i] = above, ![i + 1] = @ + 1]
  OBVIOUS
<1>1. Around(ar, L, n, i, num)
  BY GapEnds
<1>3. WellFormed(ar) /\ ar.ranges # <<>> /\ ar \in [ranges : Seq(Nat \ {0}), largest : Nat]
  BY DEF InGap, WellFormed
<1>. HIDE DEF n, L
<1>21. n \in Nat /\ n = Len(ar.ranges) /\ i \in 2 .. n - 1 /\ num \in Nat
  BY <1>1 DEF Around
<1>22. i % 2 = 0 /\ n % 2 = 1
  BY <1>1 DEF Around
<1>23. \A j \in 1 .. n : L[j] = L[j - 1] - ar.ranges[j] /\ L[j] < L[j - 1] /\ ar.ranges[j] \in Nat \ {0}
  BY <1>1 DEF Around
<1>24. \A j \in 0 .. n : L[j] \in Int
  BY <1>1 DEF Around
<1>25. L = [j \in 0 .. n |-> Low(ar, j)] /\ L[0] = ar.largest /\ L[n] >= -1 /\ ~(num > ar.largest)
  BY <1>1 DEF Around
<1>26. ar.ranges \in Seq(Nat \ {0})
  BY <1>1 DEF Around
<1>27. i - 1 \in 0 .. n /\ i - 1 \in 1 .. n /\ i \in 0 .. n /\ i \in 1 .. n /\ i + 1 \in 1 .. n
  BY <1>21
<1>28. num \in Int /\ n \in Int /\ i \in Int
  BY <1>21
<1>2. L[i] = num - 1 /\ above = L[i - 1] - num /\ above \in Nat \ {0}
  <2>1. L[i - 1] = Low(ar, i - 1) /\ L[i] = Low(ar, i) /\ L[i] \in Int /\ L[i - 1] \in Int
    BY <1>24, <1>25, <1>27
  <2>. QED BY <1>20, <1>28, <2>1
<1>5. /\ ranges \in Seq(Nat \ {0}) /\ Len(ranges) = n
      /\ \A j \in 1 .. n : ranges[j] = (IF j = i THEN above
                                        ELSE IF j = i + 1 THEN ar.ranges[j] + 1 ELSE ar.ranges[j])
  <2>. DEFINE a == ar.ranges[i + 1] + 1  first == [ar.ranges EXCEPT ![i] = above]
  <2>1. a \in Nat \ {0} /\ i + 1 \in 1 .. Len(ar.ranges) /\ i \in 1 .. Len(ar.ranges) /\ i # i + 1
    BY <1>21, <1>23, <1>27
  <2>4. /\ first \in Seq(Nat \ {0}) /\ Len(first) = Len(ar.ranges)
        /\ \A j \in 1 .. Len(ar.ranges) : first[j] = IF j = i THEN above ELSE ar.ranges[j]
    BY <1>2, <1>26, <2>1, ExceptSeq
  <2>3. first[i + 1] = ar.ranges[i + 1]
    BY <2>1, <2>4
  <2>2. ranges = [first EXCEPT ![i + 1] = a]
    BY <1>20, <2>3
  <2>6. a = ar.ranges[i + 1] + 1
    OBVIOUS
  <2>. HIDE DEF a, first
  <2>5. /\ ranges \in Seq(Nat \ {0}) /\ Len(ranges) = Len(first)
        /\ \A j \in 1 .. Len(first) : ranges[j] = IF j = i + 1 THEN a ELSE first[j]
    <3>1. i + 1 \in 1 .. Len(first)
      BY <2>1, <2>4
    <3>2. /\ [first EXCEPT ![i + 1] = a] \in Seq(Nat \ {0}) /\ Len([first EXCEPT ![i + 1] = a]) = Len(first)
          /\ \A j \in 1 .. Len(first) : [first EXCEPT ![i + 1] = a][j] = IF j = i + 1 THEN a ELSE first[j]
      BY <2>1, <2>4, <3>1, ExceptSeq
    <3>. QED BY <2>2, <3>2
  <2>. QED BY <1>21, <2>1, <2>4, <2>5, <2>6
<1>6. \A j \in 1 .. n : M[j] = M[j - 1] - ranges[j]
  <2>1. SUFFICES ASSUME NEW j \in 1 .. n PROVE M[j] = M[j - 1] - ranges[j]
    OBVIOUS
  <2>2. /\ M[j] = (IF j = i THEN num ELSE L[j]) /\ M[j - 1] = (IF j - 1 = i THEN num ELSE L[j - 1])
        /\ L[j] = L[j - 1] - ar.ranges[j]
    BY <1>21, <1>23
  <2>3. L[j] \in Int /\ L[j - 1] \in Int /\ ar.ranges[j] \in Int
    BY <1>21, <1>23, <1>24
  <2>4. CASE j = i
    <3>1. j - 1 # i
      BY <1>28, <2>4
    <3>2. L[j] = num - 1
      BY <1>2, <2>4
    <3>. QED BY <1>2, <1>5, <1>28, <2>2, <2>3, <2>4, <3>1, <3>2
  <2>5. CASE j - 1 = i
    <3>1. j = i + 1 /\ j # i
      BY <1>28, <2>5
    <3>2. L[j - 1] = num - 1
      BY <1>2, <2>5
    <3>3. ranges[j] = ar.ranges[j] + 1
      BY <1>5, <1>28, <3>1
    <3>. HIDE DEF M
    <3>. QED BY <1>28, <2>2, <2>3, <2>5, <3>1, <3>2, <3>3
  <2>6. CASE j # i /\ j - 1 # i
    <3>1. j # i + 1
      BY <1>28, <2>6
    <3>. QED BY <1>5, <2>2, <2>6, <3>1
  <2>. QED BY <2>4, <2>5, <2>6
<1>7. \A x \in Int : In(M, n, x) <=> (In(L, n, x) \/ x = num)
  <2>1. i \in 0 .. n /\ (i) % 2 = 0
    BY <1>22, <1>27
  <2>2. M[i] = num /\ \A j \in (0 .. n) \ {i} : M[j] = L[j]
    BY <1>27
  <2>3. \A j \in 1 .. n : L[j] < L[j - 1]
    BY <1>23
  <2>. HIDE DEF M
  <2>4. Move(L, M, n, i, num)
    BY <1>2, <1>21, <1>22, <1>24, <1>28, <2>1, <2>2, <2>3 DEF Move
  <2>. QED BY <2>4, Moved
<1>8. M[0] = ar.largest /\ M[n] >= -1 /\ n % 2 = 1
  <2>1. 0 # i /\ n # i /\ 0 \in 0 .. n /\ n \in 0 .. n
    BY <1>21
  <2>. QED BY <1>22, <1>25, <2>1
<1>9. new \in [ranges : Seq(Nat \ {0}), largest : Nat] /\ new.ranges = ranges /\ new.largest = ar.largest
  BY <1>3, <1>5
<1>10. ~(num > ar.largest) /\ L = [j \in 0 .. Len(ar.ranges) |-> Low(ar, j)] /\ n = Len(ar.ranges)
  BY <1>21, <1>25
<1>. HIDE DEF M, new
<1>11. Rebuild(ar, L, new, M, num)
  <2>1. Len(new.ranges) = n /\ \A j \in 1 .. n : M[j] = M[j - 1] - new.ranges[j]
    BY <1>5, <1>6, <1>9
  <2>. QED BY <1>7, <1>8, <1>9, <1>10, <2>1 DEF Rebuild
<1>12. Adds(ar, new, num)
  BY <1>3, <1>11, Rebuilt
<1>. QED BY <1>12 DEF new

(* num was inside a gap: it becomes a run of its own.                      *)
LEMMA GapSplit ==
  ASSUME NEW ar, NEW i, NEW num, InGap(ar, i, num),
         NEW above, above = Low(ar, i - 1) - num, above > 0,
         NEW below, below = num - (Low(ar, i) + 1), below > 0,
         NEW ranges, ranges = Splice(ar.ranges, i - 1, <<above, 1, below>>, i + 1)
  PROVE  Adds(ar, [ar EXCEPT !.ranges = ranges], num)
<1>. DEFINE n == Len(ar.ranges)  L == [j \in 0 .. n |-> Low(ar, j)]
            new == [ar EXCEPT !.ranges = ranges]
            M == [j \in 0 .. n + 2 |-> IF j < i THEN L[j] ELSE IF j = i THEN num
                                       ELSE IF j = i + 1 THEN num - 1 ELSE L[j - 2]]
<1>20. /\ above = Low(ar, i - 1) - num /\ above > 0 /\ below = num - (Low(ar, i) + 1) /\ below > 0
       /\ ranges = Splice(ar.ranges, i - 1, <<above, 1, below>>, i + 1)
  OBVIOUS
<1>1. Around(ar, L, n, i, num)
  BY GapEnds
<1>3. WellFormed(ar) /\ ar.ranges # <<>> /\ ar \in [ranges : Seq(Nat \ {0}), largest : Nat]
  BY DEF InGap, WellFormed
<1>. HIDE DEF n, L
<1>21. n \in Nat /\ n = Len(ar.ranges) /\ i \in 2 .. n - 1 /\ num \in Nat
  BY <1>1 DEF Around
<1>22. i % 2 = 0 /\ n % 2 = 1
  BY <1>1 DEF Around
<1>23. \A j \in 1 .. n : L[j] = L[j - 1] - ar.ranges[j] /\ L[j] < L[j - 1] /\ ar.ranges[j] \in Nat \ {0}
  BY <1>1 DEF Around
<1>24. \A j \in 0 .. n : L[j] \in Int
  BY <1>1 DEF Around
<1>25. L = [j \in 0 .. n |-> Low(ar, j)] /\ L[0] = ar.largest /\ L[n] >= -1 /\ ~(num > ar.largest)
  BY <1>1 DEF Around
<1>26. ar.ranges \in Seq(Nat \ {0})
  BY <1>1 DEF Around
<1>27. i - 1 \in 0 .. n /\ i - 1 \in 1 .. n /\ i \in 0 .. n /\ i \in 1 .. n /\ i + 1 \in 1 .. n
  BY <1>21
<1>28. num \in Int /\ n \in Int /\ i \in Int
  BY <1>21
<1>2. /\ above = L[i - 1] - num /\ above \in Nat \ {0}
      /\ below = num - (L[i] + 1) /\ below \in Nat \ {0}
      /\ L[i] \in Int /\ L[i - 1] \in Int
  <2>1. L[i - 1] = Low(ar, i - 1) /\ L[i] = Low(ar, i) /\ L[i] \in Int /\ L[i - 1] \in Int
    BY <1>24, <1>25, <1>27
  <2>. QED BY <1>20, <1>28, <2>1
<1>5. /\ ranges \in Seq(Nat \ {0}) /\ Len(ranges) = n + 2
      /\ \A j \in 1 .. i - 1 : ranges[j] = ar.ranges[j]
      /\ ranges[i] = above /\ ranges[i + 1] = 1 /\ ranges[i + 2] = below
      /\ \A j \in i + 1 .. n : ranges[j + 2] = ar.ranges[j]
  <2>. DEFINE mid == <<above, 1, below>>
  <2>1. i - 1 \in 0 .. Len(ar.ranges) /\ i + 1 \in 1 .. Len(ar.ranges) + 1
    BY <1>21
  <2>2. mid \in Seq(Nat \ {0}) /\ Len(mid) = 3 /\ mid[1] = above /\ mid[2] = 1 /\ mid[3] = below
    BY <1>2
  <2>4. ranges = Splice(ar.ranges, i - 1, mid, i + 1)
    BY <1>20
  <2>. HIDE DEF mid
  <2>3. IsSplice(Nat \ {0}, Splice(ar.ranges, i - 1, mid, i + 1), ar.ranges, i - 1, mid, i + 1)
    BY <1>26, <2>1, <2>2, Spliced
  <2>5. IsSplice(Nat \ {0}, ranges, ar.ranges, i - 1, mid, i + 1)
    BY <2>3, <2>4
  <2>6. /\ ranges \in Seq(Nat \ {0}) /\ Len(ranges) = (i - 1) + Len(mid) + (Len(ar.ranges) - (i + 1) + 1)
        /\ \A j \in 1 .. i - 1 : ranges[j] = ar.ranges[j]
        /\ \A j \in 1 .. Len(mid) : ranges[(i - 1) + j] = mid[j]
        /\ \A j \in i + 1 .. n : ranges[j - (i + 1) + 1 + (i - 1) + Len(mid)] = ar.ranges[j]
    BY <1>21, <2>5 DEF IsSplice
  <2>7. ranges[i] = above /\ ranges[i + 1] = 1 /\ ranges[i + 2] = below
    <3>1. /\ 1 \in 1 .. Len(mid) /\ 2 \in 1 .. Len(mid) /\ 3 \in 1 .. Len(mid)
          /\ (i - 1) + 1 = i /\ (i - 1) + 2 = i + 1 /\ (i - 1) + 3 = i + 2
      BY <1>28, <2>2
    <3>. QED BY <2>2, <2>6, <3>1
  <2>8. \A j \in i + 1 .. n : ranges[j + 2] = ar.ranges[j]
    <3>1. \A j \in i + 1 .. n : j - (i + 1) + 1 + (i - 1) + Len(mid) = j + 2
      BY <1>21, <2>2
    <3>. QED BY <2>6, <3>1
  <2>9. Len(ranges) = n + 2
    <3>1. Len(ranges) = (i - 1) + 3 + (n - (i + 1) + 1)
      BY <1>21, <2>2, <2>6
    <3>. QED BY <1>28, <3>1
  <2>. QED BY <2>6, <2>7, <2>8, <2>9
<1>6. \A j \in 1 .. n + 2 : M[j] = M[j - 1] - ranges[j]
  <2>1. SUFFICES ASSUME NEW j \in 1 .. n + 2 PROVE M[j] = M[j - 1] - ranges[j]
    OBVIOUS
  <2>2. CASE j < i
    <3>1. M[j] = L[j] /\ M[j - 1] = L[j - 1] /\ j \in 1 .. n /\ j \in 1 .. i - 1
      BY <1>21, <2>2
    <3>. QED BY <1>5, <1>23, <3>1
  <2>3. CASE j = i
    <3>1. M[j] = num /\ M[j - 1] = L[i - 1]
      BY <1>21, <2>3
    <3>2. ranges[j] = L[i - 1] - num
      BY <1>2, <1>5, <2>3
    <3>. HIDE DEF M
    <3>. QED BY <1>2, <1>28, <3>1, <3>2
  <2>4. CASE j = i + 1
    <3>1. M[j] = num - 1 /\ M[j - 1] = num
      BY <1>21, <2>4
    <3>. QED BY <1>5, <1>28, <2>4, <3>1
  <2>5. CASE j = i + 2
    <3>1. M[j] = L[i] /\ M[j - 1] = num - 1
      BY <1>21, <2>5
    <3>2. ranges[j] = num - (L[i] + 1)
      BY <1>2, <1>5, <2>5
    <3>. HIDE DEF M
    <3>. QED BY <1>2, <1>28, <3>1, <3>2
  <2>6. CASE j > i + 2
    <3>1. M[j] = L[j - 2] /\ M[j - 1] = L[(j - 1) - 2] /\ (j - 1) - 2 = (j - 2) - 1
      BY <1>21, <2>6
    <3>2. j - 2 \in 1 .. n /\ j - 2 \in i + 1 .. n /\ (j - 2) + 2 = j
      BY <1>21, <2>6
    <3>3. L[j - 2] = L[(j - 2) - 1] - ar.ranges[j - 2]
      BY <1>23, <3>2
    <3>4. ranges[j] = ar.ranges[j - 2]
      BY <1>5, <3>2
    <3>. QED BY <3>1, <3>3, <3>4
  <2>. QED BY <1>28, <2>2, <2>3, <2>4, <2>5, <2>6
<1>7. \A x \in Int : In(M, n + 2, x) <=> (In(L, n, x) \/ x = num)
  <2>1. i \in 0 .. n + 1 /\ M[i] = num /\ M[i + 1] = num - 1
    BY <1>21
  <2>2. \A j \in 0 .. n : (j < i => M[j] = L[j]) /\ (j >= i => M[j + 2] = L[j])
    BY <1>21
  <2>. HIDE DEF M
  <2>3. Insert(L, M, n, i, num)
    BY <1>21, <1>24, <1>28, <2>1, <2>2 DEF Insert
  <2>. QED BY <1>22, <2>3, Inserted
<1>8. M[0] = ar.largest /\ M[n + 2] >= -1 /\ (n + 2) % 2 = 1
  <2>1. 0 < i /\ ~(n + 2 < i) /\ n + 2 # i /\ n + 2 # i + 1 /\ (n + 2) - 2 = n
        /\ 0 \in 0 .. n + 2 /\ n + 2 \in 0 .. n + 2
    BY <1>21
  <2>2. (n + 2) % 2 = n % 2
    BY <1>28, Parity
  <2>. QED BY <1>22, <1>25, <2>1, <2>2
<1>9. new \in [ranges : Seq(Nat \ {0}), largest : Nat] /\ new.ranges = ranges /\ new.largest = ar.largest
  BY <1>3, <1>5
<1>10. ~(num > ar.largest) /\ L = [j \in 0 .. Len(ar.ranges) |-> Low(ar, j)] /\ n = Len(ar.ranges)
  BY <1>21, <1>25
<1>. HIDE DEF M, new
<1>11. Rebuild(ar, L, new, M, num)
  BY <1>5, <1>6, <1>7, <1>8, <1>9, <1>10 DEF Rebuild
<1>12. Adds(ar, new, num)
  BY <1>3, <1>11, Rebuilt
<1>. QED BY <1>12 DEF new

(* A number below all runs: the last one grows, or a gap and a run follow. *)
LEMMA AddsBelow ==
  ASSUME NEW ar, WellFormed(ar), ar.ranges # <<>>, NEW num \in Nat,
         num <= Low(ar, Len(ar.ranges)), ~(num > ar.largest),
         NEW ranges,
         ranges = IF Low(ar, Len(ar.ranges)) = num
                  THEN [ar.ranges EXCEPT ![Len(ar.ranges)] = @ + 1]
                  ELSE ar.ranges \o <<Low(ar, Len(ar.ranges)) - num, 1>>
  PROVE  Adds(ar, [ar EXCEPT !.ranges = ranges], num)
<1>. DEFINE n == Len(ar.ranges)  L == [j \in 0 .. n |-> Low(ar, j)]
            new == [ar EXCEPT !.ranges = ranges]
<1>1. ar \in [ranges : Seq(Nat \ {0}), largest : Nat] /\ n % 2 = 1
  BY DEF WellFormed
<1>2. n \in Nat \ {0} /\ \A j \in 1 .. n : ar.ranges[j] \in Nat \ {0}
  BY <1>1, LenProperties, ElementOfSeq
<1>3. L = [j \in 0 .. Len(ar.ranges) |-> Low(ar, j)] /\ n = Len(ar.ranges)
  OBVIOUS
<1>4. /\ num <= L[n]
      /\ ranges = IF L[n] = num THEN [ar.ranges EXCEPT ![n] = @ + 1]
                  ELSE ar.ranges \o <<L[n] - num, 1>>
  <2>1. L[n] = Low(ar, Len(ar.ranges))
    BY <1>2
  <2>. QED BY <2>1
<1>. HIDE DEF n, L
<1>5. /\ L[0] = ar.largest /\ L[n] >= -1
      /\ \A j \in 0 .. n : L[j] \in Int
      /\ \A j \in 1 .. n : L[j] = L[j - 1] - ar.ranges[j] /\ L[j] < L[j - 1]
  BY ZenonT(60), <1>3, EndsOf
<1>6. ar.ranges \in Seq(Nat \ {0})
  BY <1>1
<1>7. CASE L[n] = num
  <2>. DEFINE M == [j \in 0 .. n |-> IF j = n THEN num - 1 ELSE L[j]]
              a == ar.ranges[n] + 1
  <2>1. a \in Nat \ {0} /\ n \in 1 .. Len(ar.ranges)
    BY <1>2, <1>3
  <2>2. a = ar.ranges[n] + 1 /\ ranges = [ar.ranges EXCEPT ![n] = a]
    BY <1>4, <1>7
  <2>. HIDE DEF a
  <2>3. /\ [ar.ranges EXCEPT ![n] = a] \in Seq(Nat \ {0})
        /\ Len([ar.ranges EXCEPT ![n] = a]) = Len(ar.ranges)
        /\ \A j \in 1 .. Len(ar.ranges) :
             [ar.ranges EXCEPT ![n] = a][j] = IF j = n THEN a ELSE ar.ranges[j]
    BY <1>6, <2>1, ExceptSeq
  <2>4. /\ ranges \in Seq(Nat \ {0}) /\ Len(ranges) = n
        /\ \A j \in 1 .. n : ranges[j] = IF j = n THEN a ELSE ar.ranges[j]
    BY <1>3, <2>2, <2>3
  <2>5. \A j \in 1 .. n : M[j] = M[j - 1] - ranges[j]
    <3>1. SUFFICES ASSUME NEW j \in 1 .. n PROVE M[j] = M[j - 1] - ranges[j]
      OBVIOUS
    <3>2. L[j] = L[j - 1] - ar.ranges[j] /\ M[j - 1] = L[j - 1]
      <4>1. L[j] = L[j - 1] - ar.ranges[j]
        BY <1>5
      <4>2. n \in Nat /\ j - 1 \in 0 .. n /\ j - 1 # n
        BY <1>2
      <4>3. M[j - 1] = (IF j - 1 = n THEN num - 1 ELSE L[j - 1])
        BY <4>2
      <4>. HIDE DEF M, L
      <4>. QED
        BY <4>1, <4>2, <4>3
    <3>3. L[j] \in Int /\ L[j - 1] \in Int /\ ar.ranges[j] \in Int
      BY <1>2, <1>5
    <3>4. M[j] = (IF j = n THEN num - 1 ELSE L[j])
      BY <1>2
    <3>5. ranges[j] = IF j = n THEN ar.ranges[j] + 1 ELSE ar.ranges[j]
      BY <2>2, <2>4
    <3>. HIDE DEF M
    <3>6. CASE j = n
      <4>1. L[j] = num /\ M[j] = num - 1 /\ ranges[j] = ar.ranges[j] + 1
        BY <1>7, <3>4, <3>5, <3>6
      <4>2. L[j - 1] = num + ar.ranges[j]
        BY <3>2, <3>3, <4>1
      <4>3. num - 1 = (num + ar.ranges[j]) - (ar.ranges[j] + 1)
        BY <3>3
      <4>. QED BY <3>2, <4>1, <4>2, <4>3
    <3>7. CASE j # n
      BY <3>2, <3>4, <3>5, <3>7
    <3>. QED BY <3>6, <3>7
  <2>6. \A x \in Int : In(M, n, x) <=> (In(L, n, x) \/ x = num)
    <3>1. M[n] = num - 1 /\ \A j \in (0 .. n) \ {n} : M[j] = L[j]
      BY <1>2
    <3>. HIDE DEF M
    <3>2. n \in Nat /\ n % 2 = 1 /\ num \in Int /\ n \in 0 .. n
      BY <1>1, <1>2 DEF n
    <3>3. \A j \in 1 .. n : L[j] < L[j - 1]
      BY <1>5
    <3>4. Move(L, M, n, n, num)
      BY <1>5, <1>7, <3>1, <3>2, <3>3 DEF Move
    <3>. QED BY <3>4, Moved
  <2>7. M[0] = ar.largest /\ M[n] >= -1 /\ n % 2 = 1
    BY <1>1, <1>2, <1>5 DEF n
  <2>8. new \in [ranges : Seq(Nat \ {0}), largest : Nat] /\ new.ranges = ranges /\ new.largest = ar.largest
    BY <1>1, <2>4
  <2>. HIDE DEF M, new
  <2>9. Rebuild(ar, L, new, M, num)
    <3>1. Len(new.ranges) = n /\ \A j \in 1 .. n : M[j] = M[j - 1] - new.ranges[j]
      BY <2>4, <2>5, <2>8
    <3>. QED BY <1>3, <2>6, <2>7, <2>8, <3>1 DEF Rebuild
  <2>. QED BY <2>9, Rebuilt DEF new
<1>8. CASE L[n] # num
  <2>. DEFINE gap == L[n] - num  end == <<gap, 1>>
              M == [j \in 0 .. n + 2 |-> IF j <= n THEN L[j] ELSE IF j = n + 1 THEN num ELSE num - 1]
  <2>1. gap \in Nat \ {0} /\ gap = L[n] - num
    <3>1. L[n] \in Int
      BY <1>2, <1>5
    <3>. QED BY <1>4, <1>8, <3>1
  <2>. HIDE DEF gap
  <2>2. end \in Seq(Nat \ {0}) /\ Len(end) = 2 /\ end[1] = gap /\ end[2] = 1
    BY <2>1
  <2>3. ranges = ar.ranges \o end
    BY <1>4, <1>8 DEF gap
  <2>. HIDE DEF end
  <2>4. /\ ranges \in Seq(Nat \ {0}) /\ Len(ranges) = Len(ar.ranges) + Len(end)
        /\ \A j \in 1 .. Len(ar.ranges) + Len(end) :
             ranges[j] = IF j <= Len(ar.ranges) THEN ar.ranges[j] ELSE end[j - Len(ar.ranges)]
    <3>1. /\ ar.ranges \o end \in Seq(Nat \ {0}) /\ Len(ar.ranges \o end) = Len(ar.ranges) + Len(end)
          /\ \A j \in 1 .. Len(ar.ranges) + Len(end) :
               (ar.ranges \o end)[j] = IF j <= Len(ar.ranges) THEN ar.ranges[j] ELSE end[j - Len(ar.ranges)]
      BY <1>6, <2>2, ConcatProperties
    <3>. QED BY <2>3, <3>1
  <2>5. /\ ranges \in Seq(Nat \ {0}) /\ Len(ranges) = n + 2
        /\ \A j \in 1 .. n : ranges[j] = ar.ranges[j]
        /\ ranges[n + 1] = gap /\ ranges[n + 2] = 1
    <3>1. /\ \A j \in 1 .. n : j \in 1 .. Len(ar.ranges) + Len(end) /\ j <= Len(ar.ranges)
          /\ n + 1 \in 1 .. Len(ar.ranges) + Len(end) /\ n + 2 \in 1 .. Len(ar.ranges) + Len(end)
          /\ ~(n + 1 <= Len(ar.ranges)) /\ ~(n + 2 <= Len(ar.ranges))
          /\ (n + 1) - Len(ar.ranges) = 1 /\ (n + 2) - Len(ar.ranges) = 2
      BY <1>2, <1>3, <2>2
    <3>2. Len(ranges) = n + 2
      BY <1>3, <2>2, <2>4
    <3>. QED BY <2>2, <2>4, <3>1, <3>2
  <2>6. \A j \in 1 .. n + 2 : M[j] = M[j - 1] - ranges[j]
    <3>1. SUFFICES ASSUME NEW j \in 1 .. n + 2 PROVE M[j] = M[j - 1] - ranges[j]
      OBVIOUS
    <3>2. CASE j <= n
      <4>1. j \in 1 .. n /\ M[j] = L[j] /\ M[j - 1] = L[j - 1]
        BY <1>2, <3>2
      <4>. QED BY <1>5, <2>5, <4>1
    <3>3. CASE j = n + 1
      <4>1. M[j] = num /\ M[j - 1] = L[n] /\ L[n] \in Int
        BY <1>2, <1>5, <3>3
      <4>2. ranges[j] = L[n] - num
        BY <2>1, <2>5, <3>3
      <4>3. num = L[n] - (L[n] - num)
        BY <4>1
      <4>. HIDE DEF M
      <4>. QED BY <4>1, <4>2, <4>3
    <3>4. CASE j = n + 2
      <4>1. M[j] = num - 1 /\ M[j - 1] = num
        BY <1>2, <3>4
      <4>. QED BY <2>5, <3>4, <4>1
    <3>5. n \in Nat
      BY <1>2
    <3>6. j <= n \/ j = n + 1 \/ j = n + 2
      BY <3>5
    <3>. QED BY <3>2, <3>3, <3>4, <3>6
  <2>7. \A x \in Int : In(M, n + 2, x) <=> (In(L, n, x) \/ x = num)
    <3>1. /\ M[n + 1] = num /\ M[(n + 1) + 1] = num - 1
          /\ \A j \in 0 .. n : (j < n + 1 => M[j] = L[j]) /\ (j >= n + 1 => M[j + 2] = L[j])
      BY <1>2
    <3>2. n \in Nat /\ num \in Int /\ n + 1 \in 0 .. n + 1 /\ n \in Int
      BY <1>2
    <3>3. (n + 1) % 2 = 0
      BY <1>1, <3>2, Parity DEF n
    <3>. HIDE DEF M
    <3>4. Insert(L, M, n, n + 1, num)
      BY <1>5, <3>1, <3>2 DEF Insert
    <3>. QED BY <3>3, <3>4, Inserted
  <2>8. M[0] = ar.largest /\ M[n + 2] >= -1
    BY <1>2, <1>5
  <2>9. (n + 2) % 2 = 1
    <3>1. n \in Int /\ n % 2 = 1
      BY <1>1, <1>2 DEF n
    <3>. QED BY <3>1, Parity
  <2>10. new \in [ranges : Seq(Nat \ {0}), largest : Nat] /\ new.ranges = ranges /\ new.largest = ar.largest
    BY <1>1, <2>5
  <2>. HIDE DEF M, new
  <2>11. Rebuild(ar, L, new, M, num)
    <3>1. Len(new.ranges) = n + 2 /\ \A j \in 1 .. n + 2 : M[j] = M[j - 1] - new.ranges[j]
      BY <2>5, <2>6, <2>10
    <3>. QED BY <1>3, <2>7, <2>8, <2>9, <2>10, <3>1 DEF Rebuild
  <2>. QED BY <2>11, Rebuilt DEF new
<1>. QED BY <1>7, <1>8

(* The head of a list: what it says was seen the whole list says.          *)
LEMMA Cut ==
  ASSUME NEW ar, ar \in [ranges : Seq(Nat \ {0}), largest : Nat], NEW k \in 0 .. Len(ar.ranges)
  PROVE  /\ [ar EXCEPT !.ranges = SubSeq(ar.ranges, 1, k)] \in [ranges : Seq(Nat \ {0}), largest : Nat]
         /\ Len(SubSeq(ar.ranges, 1, k)) = k
         /\ Low([ar EXCEPT !.ranges = SubSeq(ar.ranges, 1, k)], k) = Low(ar, k)
         /\ Seen([ar EXCEPT !.ranges = SubSeq(ar.ranges, 1, k)]) \subseteq Seen(ar)
<1>. DEFINE n == Len(ar.ranges)  head == SubSeq(ar.ranges, 1, k)
            new == [ar EXCEPT !.ranges = head]
            L == [j \in 0 .. n |-> Low(ar, j)]
<1>1. n \in Nat /\ k \in Nat /\ DOMAIN ar.ranges = 1 .. n /\ \A j \in 1 .. n : ar.ranges[j] \in Nat \ {0}
  BY LenProperties, ElementOfSeq
<1>2. head \in Seq(Nat \ {0}) /\ Len(head) = k /\ \A j \in 1 .. k : head[j] = ar.ranges[j]
  <2>1. /\ head \in Seq(Nat \ {0}) /\ Len(head) = (IF 1 <= k THEN k - 1 + 1 ELSE 0)
        /\ \A j \in 1 .. k - 1 + 1 : head[j] = ar.ranges[1 + j - 1]
    <3>1. 1 \in Int /\ k \in Int /\ \A j \in 1 .. k : ar.ranges[j] \in Nat \ {0}
      BY <1>1
    <3>. QED BY <3>1, SubSeqProperties
  <2>2. k - 1 + 1 = k /\ \A j \in 1 .. k : 1 + j - 1 = j
    BY <1>1
  <2>. HIDE DEF head
  <2>. QED BY <1>1, <2>1, <2>2
<1>. HIDE DEF head
<1>3. new \in [ranges : Seq(Nat \ {0}), largest : Nat] /\ new.ranges = head /\ new.largest = ar.largest
  BY <1>2
<1>4. L[0] = ar.largest /\ \A j \in 1 .. n : L[j] = L[j - 1] - ar.ranges[j]
  <2>1. /\ Low(ar, 0) = ar.largest
        /\ \A j \in 1 .. n : Low(ar, j) = Low(ar, j - 1) - ar.ranges[j]
    BY Lows
  <2>. QED BY <1>1, <2>1
<1>5. \A j \in 0 .. k : Low(new, j) = L[j]
  <2>1. L[0] = new.largest /\ \A j \in 1 .. Len(new.ranges) : L[j] = L[j - 1] - new.ranges[j]
    <3>. HIDE DEF L
    <3>1. Len(new.ranges) = k /\ \A j \in 1 .. k : j \in 1 .. n
      BY <1>1, <1>2, <1>3
    <3>. HIDE DEF n, new
    <3>. QED BY <1>2, <1>3, <1>4, <3>1
  <2>. HIDE DEF L, new
  <2>2. \A j \in 0 .. Len(new.ranges) : Low(new, j) = L[j]
    BY <1>3, <2>1, LowsAre
  <2>. QED BY <1>2, <1>3, <2>2
<1>6. \A j \in 0 .. k : Low(new, j) = Low(ar, j)
  <2>1. \A j \in 0 .. k : j \in 0 .. n
    BY <1>1
  <2>. HIDE DEF n
  <2>. QED BY <1>5, <2>1
<1>7. DOMAIN new.ranges = 1 .. k
  BY <1>2, <1>3, LenProperties
<1>. HIDE DEF new
<1>8. ASSUME NEW x \in Seen(new) PROVE x \in Seen(ar)
  <2>1. PICK j \in 1 .. k : j % 2 = 1 /\ InRange(new, j, x)
    BY <1>7, <1>8 DEF Seen
  <2>2. j \in 0 .. k /\ j - 1 \in 0 .. k /\ j \in 1 .. n
    BY <1>1, <2>1
  <2>3. InRange(ar, j, x)
    BY <1>6, <2>1, <2>2 DEF InRange
  <2>4. x \in 0 .. ar.largest
    BY <1>3, <1>8 DEF Seen
  <2>. QED BY <1>1, <2>1, <2>2, <2>3, <2>4 DEF Seen
<1>9. k \in 0 .. k
  BY <1>1
<1>. QED BY <1>2, <1>3, <1>6, <1>8, <1>9 DEF new, head

(* The smaller of two numbers.                                             *)
LEMMA SmallerOf ==
  ASSUME NEW a \in Nat, NEW b \in Nat
  PROVE  Min({a, b}) = IF a <= b THEN a ELSE b
BY DEF Min

(* The first runs of a list.                                               *)
LEMMA Truncated ==
  ASSUME NEW ar, ar \in [ranges : Seq(Nat \ {0}), largest : Nat], NEW n \in Nat
  PROVE  \E k \in 0 .. Len(ar.ranges) :
           /\ k = IF n <= Len(ar.ranges) THEN n ELSE Len(ar.ranges)
           /\ Truncate(ar.ranges, n) = SubSeq(ar.ranges, 1, k)
<1>1. Len(ar.ranges) \in Nat
  BY LenProperties
<1>. DEFINE k == IF n <= Len(ar.ranges) THEN n ELSE Len(ar.ranges)
<1>2. Min({n, Len(ar.ranges)}) = k
  BY <1>1, SmallerOf
<1>3. k \in 0 .. Len(ar.ranges)
  BY <1>1
<1>. QED BY <1>2, <1>3 DEF Truncate

(* A list of n runs reaches n numbers down from its largest.               *)
LEMMA Short ==
  ASSUME NEW ar, WellFormed(ar), ar.ranges # <<>>
  PROVE  Len(ar.ranges) \in Nat /\ Len(ar.ranges) <= ar.largest + 1
<1>. DEFINE n == Len(ar.ranges)
<1>1. ar \in [ranges : Seq(Nat \ {0}), largest : Nat] /\ Low(ar, n) >= -1
  BY DEF WellFormed
<1>2. n \in Nat /\ ar.largest \in Nat
  BY <1>1, LenProperties
<1>3. Low(ar, 0) = ar.largest /\ Low(ar, n) \in Int
  BY <1>1, <1>2, Lows
<1>4. Low(ar, n) <= Low(ar, 0) - (n - 0)
  BY <1>1, <1>2, Descend
<1>. HIDE DEF n
<1>5. n <= ar.largest + 1
  BY <1>1, <1>2, <1>3, <1>4
<1>. QED BY <1>2, <1>5 DEF n

(* What add_packet_number makes of ar: a list of num and numbers that were *)
(* there before, all of them while the limit is not reached.               *)
Marked(ar, new, num) ==
  /\ WellFormed(new) /\ new.ranges # <<>>
  /\ new.largest = (IF ar.ranges # <<>> /\ ar.largest > num THEN ar.largest ELSE num)
  /\ Seen(new) \subseteq Seen(ar) \cup {num}
  /\ (new.largest < MaxRanges => Seen(new) = Seen(ar) \cup {num})

(* A list with num added is one.                                           *)
LEMMA AddsMarks ==
  ASSUME NEW ar, WellFormed(ar), ar.ranges # <<>>, NEW num \in Nat, NEW new, Adds(ar, new, num)
  PROVE  Marked(ar, new, num)
<1>1. ar.largest \in Nat
  BY DEF WellFormed
<1>2. Seen(new) \subseteq Int /\ Seen(ar) \subseteq Int
  <2>1. new.largest \in Nat
    BY DEF Adds, WellFormed
  <2>. QED BY <1>1, <2>1 DEF Seen
<1>3. Seen(new) = Seen(ar) \cup {num}
  BY <1>2 DEF Adds
<1>4. new.largest = (IF ar.largest > num THEN ar.largest ELSE num)
  BY <1>1 DEF Adds
<1>. QED BY <1>3, <1>4 DEF Marked, Adds

(* A number no run holds is above or below all of them.                    *)
LEMMA NoHolder ==
  ASSUME NEW ar, WellFormed(ar), ar.ranges # <<>>, NEW num \in Nat, ~(num > ar.largest),
         \A i \in DOMAIN ar.ranges : ~InRange(ar, i, num)
  PROVE  num <= Low(ar, Len(ar.ranges))
<1>. DEFINE n == Len(ar.ranges)  T == {j \in 0 .. n : Low(ar, j) < num}
<1>1. ar \in [ranges : Seq(Nat \ {0}), largest : Nat]
  BY DEF WellFormed
<1>2. n \in Nat /\ DOMAIN ar.ranges = 1 .. n /\ ar.largest \in Nat
  BY <1>1, LenProperties
<1>3. Low(ar, 0) = ar.largest /\ \A j \in 0 .. n : Low(ar, j) \in Int
  BY <1>1, Lows
<1>. HIDE DEF n
<1>4. T = {}
  <2>1. SUFFICES ASSUME T # {} PROVE FALSE
    OBVIOUS
  <2>2. T \in SUBSET Nat
    BY <1>2
  <2>3. PICK m \in T : \A j \in T : m <= j
    <3>. HIDE DEF T
    <3>. QED BY <2>1, <2>2, LeastNumber
  <2>4. m # 0
    BY <1>2, <1>3, <2>3
  <2>5. m \in 1 .. n /\ m - 1 \in 0 .. n /\ m - 1 \notin T
    BY <1>2, <2>3, <2>4
  <2>6. Low(ar, m) < num /\ num <= Low(ar, m - 1)
    BY <1>3, <2>3, <2>5
  <2>. QED BY <1>2, <2>5, <2>6 DEF InRange
<1>5. n \in 0 .. n
  BY <1>2
<1>6. ~(Low(ar, n) < num)
  BY <1>4, <1>5
<1>. QED BY <1>3, <1>5, <1>6 DEF n

(* Below all others the list may be cut at its limit.                      *)
LEMMA EndMarks ==
  ASSUME NEW ar, WellFormed(ar), ar.ranges # <<>>, NEW num \in Nat, ~(num > ar.largest),
         num <= Low(ar, Len(ar.ranges))
  PROVE  Marked(ar, [ar EXCEPT !.ranges = AtEnd(ar, num)], num)
<1>. DEFINE ranges == IF Low(ar, Len(ar.ranges)) = num
                      THEN [ar.ranges EXCEPT ![Len(ar.ranges)] = @ + 1]
                      ELSE ar.ranges \o <<Low(ar, Len(ar.ranges)) - num, 1>>
            full == [ar EXCEPT !.ranges = ranges]
            new == [ar EXCEPT !.ranges = AtEnd(ar, num)]
<1>1. AtEnd(ar, num) = Truncate(ranges, MaxRanges)
  BY DEF AtEnd
<1>2. ar \in [ranges : Seq(Nat \ {0}), largest : Nat]
  BY DEF WellFormed
<1>3. full.ranges = ranges /\ full.largest = ar.largest
  BY <1>2
<1>. HIDE DEF ranges
<1>4. Adds(ar, full, num)
  <2>. HIDE DEF full
  <2>1. Adds(ar, [ar EXCEPT !.ranges = ranges], num)
    BY AddsBelow DEF ranges
  <2>. QED BY <2>1 DEF full
<1>5. Marked(ar, full, num)
  <2>. HIDE DEF full
  <2>. QED BY <1>4, AddsMarks
<1>6. WellFormed(full) /\ full.ranges # <<>>
  BY <1>4 DEF Adds
<1>7. full \in [ranges : Seq(Nat \ {0}), largest : Nat]
  BY <1>6 DEF WellFormed
<1>. HIDE DEF full
<1>8. PICK k \in 0 .. Len(full.ranges) :
        /\ k = IF MaxRanges <= Len(full.ranges) THEN MaxRanges ELSE Len(full.ranges)
        /\ Truncate(full.ranges, MaxRanges) = SubSeq(full.ranges, 1, k)
  BY <1>7, RangesAssumption, Truncated
<1>9. new = [full EXCEPT !.ranges = SubSeq(full.ranges, 1, k)]
  BY <1>1, <1>2, <1>3, <1>8 DEF full
<1>. HIDE DEF new
<1>10. /\ Len(full.ranges) \in Nat /\ Len(full.ranges) <= full.largest + 1
       /\ Len(full.ranges) % 2 = 1 /\ Low(full, Len(full.ranges)) >= -1
  BY <1>6, Short DEF WellFormed
<1>11. full.largest \in Nat /\ MaxRanges \in Nat /\ MaxRanges % 2 = 1
  BY <1>7, RangesAssumption
<1>12. ASSUME MaxRanges < Len(full.ranges) PROVE Marked(ar, new, num)
  <2>. DEFINE n == Len(full.ranges)
  <2>0. n \in Nat /\ n <= full.largest + 1 /\ n = Len(full.ranges) /\ MaxRanges < n
    BY <1>10, <1>12
  <2>. HIDE DEF n
  <2>1. k = MaxRanges /\ k \in Nat /\ k % 2 = 1 /\ k <= n
    <3>1. k = IF MaxRanges <= n THEN MaxRanges ELSE n
      BY <1>8, <2>0
    <3>2. k = MaxRanges
      BY <1>11, <2>0, <3>1
    <3>. QED BY <1>11, <2>0, <3>2
  <2>2. /\ new \in [ranges : Seq(Nat \ {0}), largest : Nat]
        /\ Len(SubSeq(full.ranges, 1, k)) = k
        /\ Low(new, k) = Low(full, k) /\ Seen(new) \subseteq Seen(full)
    BY <1>7, <1>9, Cut
  <2>3. new.ranges = SubSeq(full.ranges, 1, k) /\ new.largest = full.largest
    BY <1>7, <1>9
  <2>4. Len(new.ranges) = k
    BY <2>2, <2>3
  <2>5. new.ranges # <<>>
    BY <2>1, <2>2, <2>4, EmptySeq
  <2>6. Low(new, k) >= -1
    <3>0. n \in k .. n /\ n \in 0 .. n /\ k \in 0 .. n
      BY <2>0, <2>1
    <3>1. \A j \in k .. n : Low(full, j) <= Low(full, k) - (j - k)
      <4>1. \A j \in k .. Len(full.ranges) : Low(full, j) <= Low(full, k) - (j - k)
        BY <1>7, <1>8, Descend
      <4>. QED BY <2>0, <4>1
    <3>2. \A j \in 0 .. n : Low(full, j) \in Int
      <4>1. \A j \in 0 .. Len(full.ranges) : Low(full, j) \in Int
        BY <1>7, Lows
      <4>. QED BY <2>0, <4>1
    <3>3. /\ Low(full, n) <= Low(full, k) - (n - k) /\ Low(full, n) >= -1
          /\ Low(full, n) \in Int /\ Low(full, k) \in Int /\ Low(new, k) = Low(full, k)
      BY <1>10, <2>0, <2>2, <3>0, <3>1, <3>2
    <3>. QED BY <2>0, <2>1, <3>3
  <2>7. WellFormed(new)
    BY <2>1, <2>2, <2>4, <2>6 DEF WellFormed
  <2>8. ~(new.largest < MaxRanges)
    BY <1>11, <2>0, <2>3
  <2>. QED BY <1>5, <2>2, <2>3, <2>5, <2>7, <2>8 DEF Marked
<1>13. ASSUME ~(MaxRanges < Len(full.ranges)) PROVE Marked(ar, new, num)
  <2>1. k = Len(full.ranges)
    BY <1>8, <1>10, <1>11, <1>13
  <2>2. SubSeq(full.ranges, 1, k) = full.ranges
    <3>1. full.ranges \in Seq(Nat \ {0})
      BY <1>7
    <3>. QED BY <2>1, <3>1, SubSeqFull
  <2>3. new = full
    BY <1>7, <1>9, <2>2
  <2>. QED BY <1>5, <2>3
<1>14. Marked(ar, new, num)
  BY <1>12, <1>13
<1>. QED BY <1>14 DEF new

(* In a gap: it closes, shrinks from above or below, or splits.            *)
LEMMA GapMarks ==
  ASSUME NEW ar, NEW i, NEW num, InGap(ar, i, num)
  PROVE  Marked(ar, [ar EXCEPT !.ranges = FillGap(ar, i, num)], num)
<1>. DEFINE n == Len(ar.ranges)  L == [j \in 0 .. n |-> Low(ar, j)]
            above == Low(ar, i - 1) - num
            below == num - (Low(ar, i) + 1)
            ranges == FillGap(ar, i, num)
            new == [ar EXCEPT !.ranges = ranges]
<1>1. /\ WellFormed(ar) /\ ar.ranges # <<>> /\ num \in Nat
      /\ Low(ar, i) < num /\ num <= Low(ar, i - 1)
  BY DEF InGap, InRange
<1>2. Around(ar, L, n, i, num)
  BY GapEnds
<1>3. Low(ar, i) \in Int /\ Low(ar, i - 1) \in Int
  <2>. HIDE DEF n, L
  <2>1. n \in Nat /\ i \in 2 .. n - 1
    BY <1>2 DEF Around
  <2>2. i \in 0 .. n /\ i - 1 \in 0 .. n
    BY <2>1
  <2>3. L = [j \in 0 .. n |-> Low(ar, j)] /\ \A j \in 0 .. n : L[j] \in Int
    BY <1>2 DEF Around
  <2>. QED BY <2>2, <2>3
<1>4. above \in Nat /\ below \in Nat
  BY <1>1, <1>3
<1>. DEFINE one == Splice(ar.ranges, i - 2, <<ar.ranges[i - 1] + 1 + ar.ranges[i + 1]>>, i + 2)
            top == [ar.ranges EXCEPT ![i - 1] = @ + 1, ![i] = below]
            bottom == [ar.ranges EXCEPT ![i] = above, ![i + 1] = @ + 1]
            three == Splice(ar.ranges, i - 1, <<above, 1, below>>, i + 1)
<1>5. ranges = CASE above = 0 /\ below = 0 -> one
                 [] above = 0 /\ below > 0 -> top
                 [] above > 0 /\ below = 0 -> bottom
                 [] OTHER -> three
  BY DEF FillGap, Splice
<1>6. /\ above = Low(ar, i - 1) - num /\ below = num - (Low(ar, i) + 1)
      /\ (above = 0 => Low(ar, i - 1) = num) /\ (below = 0 => Low(ar, i) + 1 = num)
  BY <1>1, <1>3
<1>. HIDE DEF ranges, above, below
<1>7. Adds(ar, [ar EXCEPT !.ranges = ranges], num)
  <2>1. CASE above = 0 /\ below = 0
    <3>1. ranges = one
      <4>. HIDE DEF one, top, bottom, three
      <4>. QED BY <1>5, <2>1
    <3>. QED BY <1>6, <2>1, <3>1, GapClosed
  <2>2. CASE above = 0 /\ below > 0
    <3>1. ranges = top
      <4>. HIDE DEF one, top, bottom, three
      <4>. QED BY <1>5, <2>2
    <3>. QED BY <1>6, <2>2, <3>1, GapTop
  <2>3. CASE above > 0 /\ below = 0
    <3>1. ranges = bottom
      <4>. HIDE DEF one, top, bottom, three
      <4>. QED BY <1>5, <2>3
    <3>. QED BY <1>6, <2>3, <3>1, GapBottom
  <2>4. CASE above > 0 /\ below > 0
    <3>1. ranges = three
      <4>. HIDE DEF one, top, bottom, three
      <4>. QED BY <1>5, <2>4
    <3>. QED BY <1>6, <2>4, <3>1, GapSplit
  <2>. QED BY <1>4, <2>1, <2>2, <2>3, <2>4
<1>. HIDE DEF new
<1>8. Marked(ar, new, num)
  BY <1>1, <1>7, AddsMarks DEF new
<1>. QED BY <1>8 DEF new, ranges

(* AckRanges::add_packet_number marks exactly the number it is given,      *)
(* whatever was marked before; only a list that reaches its limit of runs  *)
(* may forget numbers, never make one up.                                  *)
THEOREM AddedExactly ==
  ASSUME NEW ar, WellFormed(ar), NEW num \in Nat
  PROVE  Marked(ar, add_packet_number(ar, num), num)
<1>1. ar \in [ranges : Seq(Nat \ {0}), largest : Nat]
  BY DEF WellFormed
<1>. DEFINE holder == {i \in DOMAIN ar.ranges : InRange(ar, i, num)}
            i == CHOOSE x \in holder : TRUE
            new == add_packet_number(ar, num)
<1>2. new = CASE ar.ranges = <<>> -> [ranges |-> <<1>>, largest |-> num]
              [] ar.ranges # <<>> /\ num > ar.largest -> OnTop(ar, num)
              [] holder # {} /\ i % 2 = 1 -> ar
              [] holder # {} /\ i % 2 = 0 -> [ar EXCEPT !.ranges = FillGap(ar, i, num)]
              [] OTHER -> [ar EXCEPT !.ranges = AtEnd(ar, num)]
  BY DEF add_packet_number
<1>3. holder # {} => i \in holder
  OBVIOUS
<1>4. \A x \in holder : x \in DOMAIN ar.ranges /\ InRange(ar, x, num)
  OBVIOUS
<1>5. holder = {} => \A x \in DOMAIN ar.ranges : ~InRange(ar, x, num)
  OBVIOUS
<1>6. ar.largest \in Nat /\ DOMAIN ar.ranges = 1 .. Len(ar.ranges) /\ Len(ar.ranges) \in Nat
  BY <1>1, LenProperties
<1>. HIDE DEF holder, i, new
<1>7. ASSUME ar.ranges # <<>>, holder # {} PROVE ~(num > ar.largest) /\ num \in 0 .. ar.largest
  <2>1. i \in 1 .. Len(ar.ranges) /\ num <= Low(ar, i - 1)
    BY <1>3, <1>4, <1>6, <1>7 DEF InRange
  <2>2. i - 1 \in 0 .. Len(ar.ranges) /\ 0 \in 0 .. Len(ar.ranges) /\ i - 1 \in 0 .. i
    BY <1>6, <2>1
  <2>3. Low(ar, 0) = ar.largest /\ Low(ar, i - 1) \in Int
    BY <1>1, <2>2, Lows
  <2>4. Low(ar, i - 1) <= Low(ar, 0) - ((i - 1) - 0)
    BY <1>1, <2>2, Descend
  <2>. QED BY <1>6, <2>1, <2>2, <2>3, <2>4
<1>8. CASE ar.ranges = <<>>
  <2>0. holder = {}
    <3>1. Len(ar.ranges) = 0
      BY <1>8
    <3>2. DOMAIN ar.ranges = {}
      BY <1>6, <3>1
    <3>. QED BY <1>3, <1>4, <3>2
  <2>1. new = [ranges |-> <<1>>, largest |-> num]
    BY <1>2, <1>8, <2>0
  <2>. DEFINE one == <<1>>  M == [j \in 0 .. 1 |-> num - j]
  <2>2. one \in Seq(Nat \ {0}) /\ Len(one) = 1 /\ one[1] = 1 /\ one # <<>>
    OBVIOUS
  <2>3. new = [ranges |-> one, largest |-> num]
    BY <2>1
  <2>4. M[0] = num /\ M[1] = num - 1
    OBVIOUS
  <2>. HIDE DEF one, M
  <2>5. /\ new \in [ranges : Seq(Nat \ {0}), largest : Nat] /\ new.ranges = one
        /\ new.largest = num
    BY <2>2, <2>3
  <2>6. WellFormed(new) /\ \A x \in Int : x \in Seen(new) <=> In(M, 1, x)
    <3>1. /\ Len(new.ranges) = 1 /\ Len(new.ranges) % 2 = 1 /\ M[0] = new.largest
          /\ M[Len(new.ranges)] >= -1
          /\ \A j \in 1 .. Len(new.ranges) : M[j] = M[j - 1] - new.ranges[j]
      <4>1. Len(new.ranges) = 1 /\ 1 % 2 = 1 /\ M[0] = new.largest /\ M[1] >= -1
        BY <2>2, <2>4, <2>5
      <4>2. M[1] = M[1 - 1] - new.ranges[1]
        BY <2>2, <2>4, <2>5
      <4>3. \A j \in 1 .. 1 : j = 1
        OBVIOUS
      <4>. QED BY <4>1, <4>2, <4>3
    <3>2. WellFormed(new) /\ \A x \in Int : x \in Seen(new) <=> In(M, Len(new.ranges), x)
      BY <2>5, <3>1, ByEnds
    <3>. QED BY <3>1, <3>2
  <2>7. \A x \in Int : In(M, 1, x) <=> x = num
    BY <2>4 DEF In
  <2>8. Seen(new) \subseteq Int
    BY <2>5 DEF Seen
  <2>9. Seen(new) = {num}
    BY <2>6, <2>7, <2>8
  <2>10. Seen(ar) = {}
    BY <1>8 DEF Seen
  <2>11. Marked(ar, new, num)
    BY <1>8, <2>2, <2>5, <2>6, <2>9, <2>10 DEF Marked
  <2>. QED BY <2>11 DEF new
<1>9. CASE ar.ranges # <<>> /\ num > ar.largest
  <2>0. holder = {}
    BY <1>7, <1>9
  <2>1. new = OnTop(ar, num)
    BY <1>2, <1>9, <2>0
  <2>2. Adds(ar, new, num)
    BY <1>9, <2>1, AddsOnTop
  <2>3. Marked(ar, new, num)
    BY <1>9, <2>2, AddsMarks
  <2>. QED BY <2>3 DEF new
<1>10. CASE ar.ranges # <<>> /\ holder # {} /\ i % 2 = 1
  <2>1. new = ar
    BY <1>2, <1>7, <1>10
  <2>2. num \in Seen(ar)
    BY <1>3, <1>4, <1>7, <1>10 DEF Seen
  <2>3. ar.largest = IF ar.largest > num THEN ar.largest ELSE num
    BY <1>6, <1>7, <1>10
  <2>4. Marked(ar, new, num)
    BY <1>10, <2>1, <2>2, <2>3 DEF Marked
  <2>. QED BY <2>4 DEF new
<1>11. CASE ar.ranges # <<>> /\ holder # {} /\ i % 2 = 0
  <2>1. ~(i % 2 = 1)
    BY <1>11
  <2>2. new = [ar EXCEPT !.ranges = FillGap(ar, i, num)]
    BY <1>2, <1>7, <1>11, <2>1
  <2>3. InGap(ar, i, num)
    BY <1>3, <1>4, <1>11 DEF InGap
  <2>4. Marked(ar, new, num)
    BY <2>2, <2>3, GapMarks
  <2>. QED BY <2>4 DEF new
<1>12. CASE ar.ranges # <<>> /\ ~(num > ar.largest) /\ holder = {}
  <2>1. new = [ar EXCEPT !.ranges = AtEnd(ar, num)]
    BY <1>2, <1>12
  <2>2. \A x \in DOMAIN ar.ranges : ~InRange(ar, x, num)
    BY <1>5, <1>12
  <2>3. num <= Low(ar, Len(ar.ranges))
    BY <1>12, <2>2, NoHolder
  <2>4. Marked(ar, new, num)
    BY <1>12, <2>1, <2>3, EndMarks
  <2>. QED BY <2>4 DEF new
<1>13. holder # {} => i % 2 \in {0, 1}
  BY <1>3, <1>4, <1>6
<1>. QED BY <1>8, <1>9, <1>10, <1>11, <1>12, <1>13

(* The runs StreamTransport::send_ACK takes along report no number that    *)
(* the receiver has not seen, however many it leaves behind.               *)
THEOREM CarriedIsSeen ==
  ASSUME NEW ar, WellFormed(ar)
  PROVE  /\ Carried(ar) \in [ranges : Seq(Nat \ {0}), largest : Nat]
         /\ Carried(ar).largest = ar.largest
         /\ Seen(Carried(ar)) \subseteq Seen(ar)
<1>1. ar \in [ranges : Seq(Nat \ {0}), largest : Nat]
  BY DEF WellFormed
<1>2. PICK k \in 0 .. Len(ar.ranges) : Truncate(ar.ranges, MaxAckRanges) = SubSeq(ar.ranges, 1, k)
  <2>1. MaxAckRanges \in Nat
    BY RangesAssumption
  <2>. QED BY <1>1, <2>1, Truncated
<1>3. Carried(ar) = [ar EXCEPT !.ranges = SubSeq(ar.ranges, 1, k)]
  BY <1>2 DEF Carried
<1>4. /\ [ar EXCEPT !.ranges = SubSeq(ar.ranges, 1, k)] \in [ranges : Seq(Nat \ {0}), largest : Nat]
      /\ Seen([ar EXCEPT !.ranges = SubSeq(ar.ranges, 1, k)]) \subseteq Seen(ar)
  BY <1>1, Cut
<1>5. [ar EXCEPT !.ranges = SubSeq(ar.ranges, 1, k)].largest = ar.largest
  BY <1>1
<1>. QED BY <1>3, <1>4, <1>5

=============================================================================
