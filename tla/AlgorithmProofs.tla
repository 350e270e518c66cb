--------------------------- MODULE AlgorithmProofs ---------------------------
(***************************************************************************)
(* Theorems about the code that computes rather than waits: versions and   *)
(* the solvers, names, the scan of a repository, the manifests of a source *)
(* tree, the notification of a user and the manifests of a stack.          *)
(*                                                                         *)
(* Where the code walks a list, the proof takes the least position at      *)
(* which something would be wrong.                                         *)
(***************************************************************************)
EXTENDS Solver, RepoScan, RepoNotice, Metadata, StackManifests,
        FiniteSetTheorems, WellFoundedInduction, SequenceTheorems, TLAPS

(* A set of natural numbers with an element has a least one: what stands for *)
(* induction over numbers here.                                            *)
LEMMA LeastNatural ==
    ASSUME NEW T, T \subseteq Nat, T # {}
    PROVE  \E x \in T : \A y \in T : x <= y
<1> DEFINE Below == {0..x : x \in T}
<1>1. Below \subseteq FiniteSubsetsOf(Nat)
  <2> SUFFICES ASSUME NEW x \in T PROVE 0..x \in FiniteSubsetsOf(Nat)
    OBVIOUS
  <2>1. IsFiniteSet(0..x)
    BY FS_Interval
  <2>2. 0..x \subseteq Nat
    OBVIOUS
  <2> QED BY <2>1, <2>2 DEF FiniteSubsetsOf
<1>2. Below # {}
  OBVIOUS
<1>3. IsWellFoundedOn(StrictSubsetOrdering(Nat), FiniteSubsetsOf(Nat))
  BY FS_StrictSubsetOrderingWellFounded
<1> HIDE DEF Below
<1>4. PICK m \in Below : \A n \in Below : <<n, m>> \notin StrictSubsetOrdering(Nat)
  BY <1>1, <1>2, <1>3, WFMin
<1> USE DEF Below
<1>5. PICK x \in T : m = 0..x
  OBVIOUS
<1>6. \A y \in T : x <= y
  <2> SUFFICES ASSUME NEW y \in T, y < x PROVE FALSE
    OBVIOUS
  <2>1. 0..y \in Below /\ 0..y \subseteq Nat /\ 0..x \subseteq Nat
    OBVIOUS
  <2>2. 0..y \subseteq 0..x /\ x \in 0..x /\ x \notin 0..y
    OBVIOUS
  <2>3. <<0..y, 0..x>> \in StrictSubsetOrdering(Nat)
    BY <2>1, <2>2 DEF StrictSubsetOrdering
  <2> QED BY <2>1, <2>3, <1>4, <1>5
<1> QED BY <1>6
-----------------------------------------------------------------------------
(* FirstOf is what its name says.                                          *)
LEMMA FirstIsLeast ==
    ASSUME NEW S, S \subseteq Nat, S # {}
    PROVE  FirstOf(S) \in S /\ \A j \in S : FirstOf(S) <= j
<1>1. \E i \in S : \A j \in S : i <= j
  BY LeastNatural
<1> QED BY <1>1 DEF FirstOf

(* The part of a version at a position, past its end too.                  *)
PartAt(v, i) == IF i <= Len(v) THEN AsNumber(v[i]) ELSE 0

(* A part that a version does not have counts as 0 (compare_version).      *)
LEMMA PartIsNumber ==
    ASSUME NEW v \in Seq(Int), NEW i \in Nat \ {0}
    PROVE  PartAt(v, i) \in Int /\ PartAt(v, i) >= -1
<1>1. CASE i <= Len(v)
  <2>1. v[i] \in Int
    BY <1>1
  <2> QED BY <1>1, <2>1 DEF PartAt, AsNumber
<1>2. CASE ~(i <= Len(v))
  BY <1>2 DEF PartAt
<1> QED BY <1>1, <1>2

(* The length that two versions are filled up to.                          *)
LEMMA LongestIsLonger ==
    ASSUME NEW a \in Seq(Int), NEW b \in Seq(Int)
    PROVE  Longest(a, b) \in Nat /\ Len(a) <= Longest(a, b) /\ Len(b) <= Longest(a, b)
BY DEF Longest

(* How the parts of two versions decide which is higher: a and b agree up  *)
(* to i, where a is higher.                                                *)
HigherAt(a, b, i) == /\ PartAt(a, i) > PartAt(b, i)
                     /\ \A j \in 1..(i - 1) : PartAt(a, j) = PartAt(b, j)

(* compare_version decides at the first part that differs.                 *)
LEMMA CompareByParts ==
    ASSUME NEW a \in Seq(Int), NEW b \in Seq(Int)
    PROVE  \/ /\ compare_version(a, b) = 0
              /\ \A i \in Nat \ {0} : PartAt(a, i) = PartAt(b, i)
           \/ compare_version(a, b) = 1 /\ \E i \in Nat \ {0} : HigherAt(a, b, i)
           \/ compare_version(a, b) = -1 /\ \E i \in Nat \ {0} : HigherAt(b, a, i)
<1> DEFINE n == Longest(a, b)
           l == Cardinal(a, n)
           r == Cardinal(b, n)
           D == Differ(l, r)
<1>1. n \in Nat /\ Len(a) <= n /\ Len(b) <= n /\ Len(a) \in Nat /\ Len(b) \in Nat
  BY LongestIsLonger
<1>2. /\ DOMAIN l = 1..n
      /\ \A i \in 1..n : l[i] = PartAt(a, i) /\ r[i] = PartAt(b, i)
  BY DEF Cardinal, PartAt
<1>3. D \subseteq 1..n /\ \A i \in 1..n : i \in D <=> PartAt(a, i) # PartAt(b, i)
  BY <1>2 DEF Differ
<1>4. compare_version(a, b) = IF D = {} THEN 0 ELSE IF l[FirstOf(D)] > r[FirstOf(D)] THEN 1 ELSE -1
  BY DEF compare_version
<1>5. CASE D = {}
  <2>1. \A i \in Nat \ {0} : PartAt(a, i) = PartAt(b, i)
    <3> SUFFICES ASSUME NEW i \in Nat \ {0} PROVE PartAt(a, i) = PartAt(b, i)
      OBVIOUS
    <3>1. CASE i \in 1..n
      BY <1>3, <1>5, <3>1
    <3>2. CASE i \notin 1..n
      <4>1. ~(i <= Len(a)) /\ ~(i <= Len(b))
        BY <1>1, <3>2
      <4> QED BY <4>1 DEF PartAt
    <3> QED BY <3>1, <3>2
  <2> QED BY <1>4, <1>5, <2>1
<1>6. CASE D # {}
  <2> DEFINE f == FirstOf(D)
  <2>1. f \in D /\ \A j \in D : f <= j
    <3>1. D \subseteq Nat
      BY <1>1, <1>3
    <3> QED BY <3>1, <1>6, FirstIsLeast
  <2>2. f \in 1..n /\ f \in Nat \ {0} /\ PartAt(a, f) # PartAt(b, f)
    BY <1>1, <1>3, <2>1
  <2>3. \A j \in 1..(f - 1) : PartAt(a, j) = PartAt(b, j)
    <3> SUFFICES ASSUME NEW j \in 1..(f - 1), PartAt(a, j) # PartAt(b, j) PROVE FALSE
      OBVIOUS
    <3>1. j \in 1..n /\ ~(f <= j)
      BY <1>1, <2>2
    <3> QED BY <3>1, <1>3, <2>1
  <2>4. PartAt(a, f) \in Int /\ PartAt(b, f) \in Int
    BY <2>2, PartIsNumber
  <2>5. l[f] = PartAt(a, f) /\ r[f] = PartAt(b, f)
    BY <1>2, <2>2
  <2> HIDE DEF f
  <2>6. CASE PartAt(a, f) > PartAt(b, f)
    <3>1. HigherAt(a, b, f)
      BY <2>3, <2>6 DEF HigherAt
    <3>2. compare_version(a, b) = 1
      BY <1>4, <1>6, <2>5, <2>6 DEF f
    <3> QED BY <3>1, <3>2, <2>2
  <2>7. CASE ~(PartAt(a, f) > PartAt(b, f))
    <3>1. PartAt(b, f) > PartAt(a, f)
      BY <2>2, <2>4, <2>7
    <3>2. HigherAt(b, a, f)
      BY <2>3, <3>1 DEF HigherAt
    <3>3. compare_version(a, b) = -1
      BY <1>4, <1>6, <2>5, <2>7 DEF f
    <3> QED BY <3>2, <3>3, <2>2
  <2> QED BY <2>6, <2>7
<1> QED BY <1>5, <1>6

(* Only one of two versions is higher.                                     *)
LEMMA HigherExcludes ==
    ASSUME NEW a \in Seq(Int), NEW b \in Seq(Int), NEW i \in Nat \ {0}, HigherAt(a, b, i)
    PROVE  /\ \A j \in Nat \ {0} : ~HigherAt(b, a, j)
           /\ PartAt(a, i) # PartAt(b, i)
<1>1. /\ PartAt(a, i) \in Int /\ PartAt(b, i) \in Int /\ PartAt(a, i) > PartAt(b, i)
      /\ \A j \in 1..(i - 1) : PartAt(a, j) = PartAt(b, j)
  BY PartIsNumber DEF HigherAt
<1>2. ASSUME NEW j \in Nat \ {0}, HigherAt(b, a, j) PROVE FALSE
  <2>1. /\ PartAt(a, j) \in Int /\ PartAt(b, j) \in Int /\ PartAt(b, j) > PartAt(a, j)
        /\ \A k \in 1..(j - 1) : PartAt(b, k) = PartAt(a, k)
    BY <1>2, PartIsNumber DEF HigherAt
  <2>2. i \in 1..(j - 1) \/ i = j \/ j \in 1..(i - 1)
    OBVIOUS
  <2> QED BY <1>1, <2>1, <2>2
<1> QED BY <1>1, <1>2

(* compare_version says which version is higher, and where.                *)
LEMMA CompareMeans ==
    ASSUME NEW a \in Seq(Int), NEW b \in Seq(Int)
    PROVE  /\ compare_version(a, b) \in {-1, 0, 1}
           /\ compare_version(a, b) = 0 <=> \A i \in Nat \ {0} : PartAt(a, i) = PartAt(b, i)
           /\ compare_version(a, b) = 1 <=> \E i \in Nat \ {0} : HigherAt(a, b, i)
           /\ compare_version(a, b) = -1 <=> \E i \in Nat \ {0} : HigherAt(b, a, i)
<1>1. \A i \in Nat \ {0} : HigherAt(a, b, i) =>
          /\ \A j \in Nat \ {0} : ~HigherAt(b, a, j)
          /\ PartAt(a, i) # PartAt(b, i)
  BY HigherExcludes
<1>2. \A i \in Nat \ {0} : HigherAt(b, a, i) =>
          /\ \A j \in Nat \ {0} : ~HigherAt(a, b, j)
          /\ PartAt(b, i) # PartAt(a, i)
  BY HigherExcludes
<1>3. -1 # 0 /\ -1 # 1 /\ 0 # 1
  OBVIOUS
<1> QED BY <1>1, <1>2, <1>3, CompareByParts, Zenon

(* Higher is transitive, at the nearer of the two places, and does not     *)
(* tell apart what has the same parts.                                     *)
LEMMA HigherIsTransitive ==
    ASSUME NEW a \in Seq(Int), NEW b \in Seq(Int), NEW c \in Seq(Int),
           compare_version(a, b) >= 0, compare_version(b, c) >= 0
    PROVE  /\ compare_version(a, c) >= 0
           /\ compare_version(a, c) = 0 => compare_version(a, b) = 0
<1>1. /\ compare_version(a, b) \in {0, 1} /\ compare_version(b, c) \in {0, 1}
      /\ compare_version(a, c) \in {-1, 0, 1}
  BY CompareMeans
<1>2. CASE compare_version(a, b) = 0
  <2>1. \A i \in Nat \ {0} : PartAt(a, i) = PartAt(b, i)
    BY <1>2, CompareMeans
  <2>2. ASSUME compare_version(a, c) = -1 PROVE FALSE
    <3>1. PICK i \in Nat \ {0} : HigherAt(c, a, i)
      BY <2>2, CompareMeans
    <3>2. HigherAt(c, b, i)
      BY <2>1, <3>1 DEF HigherAt
    <3>3. compare_version(b, c) = -1
      BY <3>2, CompareMeans
    <3> QED BY <1>1, <3>3
  <2> QED BY <1>1, <1>2, <2>2
<1>3. CASE compare_version(a, b) = 1
  <2>1. PICK i \in Nat \ {0} : HigherAt(a, b, i)
    BY <1>3, CompareMeans
  <2>2. \A j \in Nat \ {0} : PartAt(a, j) \in Int /\ PartAt(b, j) \in Int /\ PartAt(c, j) \in Int
    BY PartIsNumber
  <2>3. \E k \in Nat \ {0} : HigherAt(a, c, k)
    <3>1. CASE compare_version(b, c) = 0
      <4>1. \A j \in Nat \ {0} : PartAt(b, j) = PartAt(c, j)
        BY <3>1, CompareMeans
      <4>2. HigherAt(a, c, i)
        BY <2>1, <4>1 DEF HigherAt
      <4> QED BY <4>2
    <3>2. CASE compare_version(b, c) = 1
      <4>1. PICK k \in Nat \ {0} : HigherAt(b, c, k)
        BY <3>2, CompareMeans
      <4>2. CASE i <= k
        <5>1. PartAt(a, i) > PartAt(b, i) /\ PartAt(b, i) >= PartAt(c, i)
          <6>1. i = k \/ i \in 1..(k - 1)
            BY <4>2
          <6> QED BY <2>1, <2>2, <4>1, <6>1 DEF HigherAt
        <5>2. \A j \in 1..(i - 1) : PartAt(a, j) = PartAt(b, j) /\ PartAt(b, j) = PartAt(c, j)
          <6>1. \A j \in 1..(i - 1) : j \in 1..(k - 1)
            BY <4>2
          <6> QED BY <2>1, <4>1, <6>1 DEF HigherAt
        <5>3. HigherAt(a, c, i)
          BY <2>2, <5>1, <5>2 DEF HigherAt
        <5> QED BY <5>3
      <4>3. CASE k < i
        <5>1. PartAt(a, k) = PartAt(b, k) /\ PartAt(b, k) > PartAt(c, k)
          <6>1. k \in 1..(i - 1)
            BY <4>3
          <6> QED BY <2>1, <4>1, <6>1 DEF HigherAt
        <5>2. \A j \in 1..(k - 1) : PartAt(a, j) = PartAt(b, j) /\ PartAt(b, j) = PartAt(c, j)
          <6>1. \A j \in 1..(k - 1) : j \in 1..(i - 1)
            BY <4>3
          <6> QED BY <2>1, <4>1, <6>1 DEF HigherAt
        <5>3. HigherAt(a, c, k)
          BY <2>2, <5>1, <5>2 DEF HigherAt
        <5> QED BY <5>3
      <4> QED BY <4>2, <4>3
    <3> QED BY <1>1, <3>1, <3>2
  <2>4. compare_version(a, c) = 1
    BY <2>3, CompareMeans
  <2> QED BY <2>4
<1> QED BY <1>1, <1>2, <1>3
-----------------------------------------------------------------------------
(* ~= with a version of two or more numbers: its last number is its last   *)
(* part, and the bound from above ends one part earlier.                   *)
LEMMA CompatibleBounds ==
    ASSUME NEW v \in Seq(Int), Len(v) > 1, \A i \in DOMAIN v : v[i] >= 0
    PROVE  LET k     == Len(v) - 1
               upper == [i \in 1..k |-> IF i = k THEN v[i] + 1 ELSE v[i]]
           IN  /\ CompatibleRelease(v) = <<Con(">=", v), Con("<", upper)>>
               /\ upper \in Seq(Int) /\ Len(upper) = k /\ k \in Nat \ {0}
               /\ \A i \in 1..(k - 1) : PartAt(upper, i) = v[i]
               /\ PartAt(upper, k) = v[k] + 1
               /\ \A i \in Nat : i > k => PartAt(upper, i) = 0
<1> DEFINE k     == Len(v) - 1
           upper == [i \in 1..k |-> IF i = k THEN v[i] + 1 ELSE v[i]]
<1>1. k \in Nat \ {0} /\ Len(v) \in Nat /\ k + 1 = Len(v) /\ DOMAIN v = 1..Len(v)
  OBVIOUS
<1>2. \A i \in 1..k : i \in DOMAIN v /\ v[i] \in Int /\ v[i] >= 0
  BY <1>1
<1>3. LastNumber(v) = Len(v)
  <2>1. Len(v) \in DOMAIN v /\ v[Len(v)] >= 0 /\ \A j \in DOMAIN v : ~(j > Len(v))
    BY <1>1
  <2>2. \A i \in DOMAIN v :
            v[i] >= 0 /\ (\A j \in DOMAIN v : j > i => v[j] < 0) => i = Len(v)
    <3> SUFFICES ASSUME NEW i \in DOMAIN v, \A j \in DOMAIN v : j > i => v[j] < 0, i # Len(v)
                 PROVE  FALSE
      OBVIOUS
    <3>1. i \in 1..Len(v) /\ Len(v) > i
      BY <1>1
    <3>2. v[Len(v)] \in Int /\ v[Len(v)] < 0
      BY <1>1, <2>1, <3>1
    <3> QED BY <2>1, <3>2
  <2> QED BY <2>1, <2>2 DEF LastNumber
<1>4. CompatibleRelease(v) = <<Con(">=", v), Con("<", upper)>>
  BY <1>3 DEF CompatibleRelease
<1>5. upper \in Seq(Int) /\ Len(upper) = k
  <2>1. \A i \in 1..k : (IF i = k THEN v[i] + 1 ELSE v[i]) \in Int
    BY <1>2
  <2>2. k \in Nat
    BY <1>1
  <2> HIDE DEF k
  <2>3. upper \in [1..k -> Int]
    BY <2>1
  <2> QED BY <2>2, <2>3
<1>6. \A i \in 1..(k - 1) : PartAt(upper, i) = v[i]
  <2> SUFFICES ASSUME NEW i \in 1..(k - 1) PROVE PartAt(upper, i) = v[i]
    OBVIOUS
  <2>1. i \in 1..k /\ i # k /\ i <= k
    <3> HIDE DEF k
    <3> QED BY <1>1
  <2>2. upper[i] = v[i] /\ v[i] >= 0
    BY <1>2, <2>1
  <2> QED BY <1>5, <2>1, <2>2 DEF PartAt, AsNumber
<1>7. PartAt(upper, k) = v[k] + 1
  <2>1. k \in 1..k /\ k <= k
    BY <1>1
  <2>2. upper[k] = v[k] + 1 /\ v[k] \in Int /\ v[k] >= 0
    BY <1>2, <2>1
  <2>3. v[k] + 1 >= 0
    BY <2>2
  <2> QED BY <1>5, <2>1, <2>2, <2>3 DEF PartAt, AsNumber
<1>8. \A i \in Nat : i > k => PartAt(upper, i) = 0
  <2> SUFFICES ASSUME NEW i \in Nat, i > k PROVE PartAt(upper, i) = 0
    OBVIOUS
  <2>1. ~(i <= Len(upper))
    <3> HIDE DEF k, upper
    <3> QED BY <1>1, <1>5
  <2> QED BY <2>1 DEF PartAt
<1> QED BY <1>1, <1>4, <1>5, <1>6, <1>7, <1>8

(* A version of numbers has no part below zero.                            *)
LEMMA NumbersAreParts ==
    ASSUME NEW v \in Seq(Int), \A i \in DOMAIN v : v[i] >= 0, NEW i \in Nat \ {0}
    PROVE  PartAt(v, i) \in Nat /\ (i <= Len(v) => PartAt(v, i) = v[i])
<1>1. CASE i <= Len(v)
  <2>1. i \in DOMAIN v /\ v[i] \in Int
    BY <1>1
  <2>2. v[i] >= 0 /\ v[i] \in Nat
    BY <2>1
  <2> QED BY <1>1, <2>2 DEF PartAt, AsNumber
<1>2. CASE ~(i <= Len(v))
  BY <1>2 DEF PartAt
<1> QED BY <1>1, <1>2

(* Both constraints of a compatible release together say what PEP 440 says.*)
LEMMA CompatibleMeans ==
    ASSUME NEW v \in Seq(Int), NEW w \in Seq(Int), Len(v) > 1,
           \A i \in DOMAIN v : v[i] >= 0, \A i \in DOMAIN w : w[i] >= 0
    PROVE  CheckAll(w, CompatibleRelease(v)) <=>
               /\ compare_version(w, v) >= 0
               /\ \A i \in 1..(Len(v) - 1) : PartAt(w, i) = v[i]
<1> DEFINE k     == Len(v) - 1
           upper == [i \in 1..k |-> IF i = k THEN v[i] + 1 ELSE v[i]]
<1>1. /\ CompatibleRelease(v) = <<Con(">=", v), Con("<", upper)>>
      /\ upper \in Seq(Int) /\ k \in Nat \ {0}
      /\ \A i \in 1..(k - 1) : PartAt(upper, i) = v[i]
      /\ PartAt(upper, k) = v[k] + 1
      /\ \A i \in Nat : i > k => PartAt(upper, i) = 0
  BY CompatibleBounds
<1>0. /\ \A i \in 1..k : v[i] \in Int
      /\ k + 1 = Len(v) /\ Len(v) \in Nat
  BY <1>1
<1> HIDE DEF upper, k
<1>2. CheckAll(w, CompatibleRelease(v)) <=>
          compare_version(w, v) >= 0 /\ compare_version(w, upper) = -1
  <2> DEFINE both == <<Con(">=", v), Con("<", upper)>>
  <2>1. DOMAIN both = {1, 2} /\ both[1] = Con(">=", v) /\ both[2] = Con("<", upper)
    OBVIOUS
  <2>2. CompareSpec(w, both[1]) <=> compare_version(w, v) >= 0
    BY <2>1 DEF CompareSpec, Con
  <2>3. CompareSpec(w, both[2]) <=> compare_version(w, upper) = -1
    BY <2>1 DEF CompareSpec, Con
  <2> HIDE DEF both
  <2>4. CheckAll(w, both) <=> CompareSpec(w, both[1]) /\ CompareSpec(w, both[2])
    BY <2>1 DEF CheckAll
  <2> QED BY <1>1, <2>2, <2>3, <2>4 DEF both
<1>3. \A i \in Nat \ {0} : PartAt(w, i) \in Nat /\ PartAt(v, i) \in Nat
                           /\ (i <= k => PartAt(v, i) = v[i])
  <2>1. \A i \in Nat \ {0} : i <= k => i <= Len(v)
    BY <1>0, <1>1
  <2> QED BY <2>1, NumbersAreParts
<1>4. ASSUME compare_version(w, v) >= 0, \A i \in 1..k : PartAt(w, i) = v[i]
      PROVE  compare_version(w, upper) = -1
  <2>1. PartAt(upper, k) > PartAt(w, k)
    <3>1. k \in 1..k /\ v[k] \in Int
      BY <1>0, <1>1
    <3>2. PartAt(w, k) = v[k]
      BY <1>4, <3>1
    <3> QED BY <1>1, <3>1, <3>2
  <2>2. \A j \in 1..(k - 1) : PartAt(upper, j) = PartAt(w, j)
    <3>1. \A j \in 1..(k - 1) : j \in 1..k
      BY <1>1
    <3> QED BY <1>1, <1>4, <3>1
  <2>3. HigherAt(upper, w, k)
    BY <2>1, <2>2 DEF HigherAt
  <2> QED BY <1>1, <2>3, CompareMeans
<1>5. ASSUME compare_version(w, v) >= 0, compare_version(w, upper) = -1
      PROVE  \A i \in 1..k : PartAt(w, i) = v[i]
  <2>1. PICK j \in Nat \ {0} : HigherAt(upper, w, j)
    BY <1>1, <1>5, CompareMeans
  <2>2. PartAt(upper, j) > PartAt(w, j) /\ \A i \in 1..(j - 1) : PartAt(upper, i) = PartAt(w, i)
    BY <2>1 DEF HigherAt
  <2>3. ~(j > k)
    BY <1>1, <1>3, <2>2
  <2>4. \A i \in Nat \ {0} : ~HigherAt(v, w, i)
    <3>1. compare_version(w, v) # -1
      BY <1>5, CompareMeans
    <3> QED BY <3>1, CompareMeans
  <2>5. \A i \in 1..(j - 1) : PartAt(v, i) = PartAt(w, i)
    <3>1. \A i \in 1..(j - 1) : i \in Nat \ {0} /\ i <= k /\ i \in 1..(k - 1)
      BY <1>1, <2>3
    <3> QED BY <1>1, <1>3, <2>2, <3>1
  <2>6. ~(PartAt(v, j) > PartAt(w, j))
    BY <2>4, <2>5 DEF HigherAt
  <2>7. j = k
    <3> SUFFICES ASSUME j # k PROVE FALSE
      OBVIOUS
    <3>1. j \in 1..(k - 1) /\ j <= k
      BY <1>1, <2>3
    <3>2. PartAt(upper, j) = PartAt(v, j)
      BY <1>1, <1>3, <3>1
    <3> QED BY <2>2, <2>6, <3>2
  <2>8. PartAt(w, k) = v[k]
    <3>1. PartAt(w, k) \in Nat /\ PartAt(v, k) \in Nat /\ PartAt(v, k) = v[k] /\ v[k] + 1 > PartAt(w, k)
          /\ ~(PartAt(v, k) > PartAt(w, k))
      <4>1. k \in Nat \ {0} /\ k <= k
        BY <1>1
      <4> QED BY <1>1, <1>3, <2>2, <2>6, <2>7, <4>1
    <3> QED BY <3>1
  <2>9. \A i \in 1..k : i = k \/ (i \in 1..(j - 1) /\ PartAt(v, i) = v[i])
    <3>1. \A i \in 1..k : i \in Nat \ {0} /\ i <= k /\ (i = k \/ i \in 1..(k - 1))
      BY <1>1
    <3> QED BY <1>3, <2>7, <3>1
  <2> QED BY <2>5, <2>8, <2>9
<1>6. 1..(Len(v) - 1) = 1..k
  BY DEF k
<1> QED BY <1>2, <1>4, <1>5, <1>6
-----------------------------------------------------------------------------
(* The rank of i in T by an order R: how many elements come up to i.       *)
RankIn(R, T, i) == Cardinality({j \in T : <<j, i>> \in R})

Orders(R, T) ==
    /\ \A i \in T : <<i, i>> \in R
    /\ \A i, j \in T : <<i, j>> \in R \/ <<j, i>> \in R
    /\ \A i, j \in T : <<i, j>> \in R /\ <<j, i>> \in R => i = j
    /\ \A i, j, k \in T : <<i, j>> \in R /\ <<j, k>> \in R => <<i, k>> \in R

(* The elements of a finite set have the ranks 1 to n, each of them one.   *)
LEMMA RanksAreNumbers ==
    ASSUME NEW T, NEW R, IsFiniteSet(T), Orders(R, T)
    PROVE  /\ \A i \in T : RankIn(R, T, i) \in 1..Cardinality(T)
           /\ \A i, j \in T : <<i, j>> \in R /\ i # j => RankIn(R, T, i) < RankIn(R, T, j)
           /\ \A i, j \in T : RankIn(R, T, i) = RankIn(R, T, j) => i = j
           /\ \A k \in 1..Cardinality(T) : \E i \in T : RankIn(R, T, i) = k
<1> DEFINE Up(i) == {j \in T : <<j, i>> \in R}
           n == Cardinality(T)
<1>1. n \in Nat
  BY FS_CardinalityType
<1>2. \A i \in T : /\ Up(i) \subseteq T /\ IsFiniteSet(Up(i)) /\ i \in Up(i)
                   /\ RankIn(R, T, i) = Cardinality(Up(i))
                   /\ RankIn(R, T, i) \in 1..n
  <2> SUFFICES ASSUME NEW i \in T
               PROVE  /\ Up(i) \subseteq T /\ IsFiniteSet(Up(i)) /\ i \in Up(i)
                      /\ RankIn(R, T, i) = Cardinality(Up(i))
                      /\ RankIn(R, T, i) \in 1..n
    OBVIOUS
  <2>1. Up(i) \in SUBSET T /\ i \in Up(i)
    BY DEF Orders
  <2>2. RankIn(R, T, i) = Cardinality(Up(i))
    BY DEF RankIn
  <2> HIDE DEF Up
  <2>3. IsFiniteSet(Up(i)) /\ Cardinality(Up(i)) <= n /\ Cardinality(Up(i)) \in Nat
    BY <2>1, FS_Subset, FS_CardinalityType
  <2>4. Cardinality(Up(i)) # 0
    BY <2>1, <2>3, FS_EmptySet
  <2> HIDE DEF n
  <2>5. Cardinality(Up(i)) \in 1..n
    BY <1>1, <2>3, <2>4
  <2> QED BY <2>1, <2>2, <2>3, <2>5
<1>3. \A i, j \in T : <<i, j>> \in R /\ i # j => RankIn(R, T, i) < RankIn(R, T, j)
  <2> SUFFICES ASSUME NEW i \in T, NEW j \in T, <<i, j>> \in R, i # j
               PROVE  RankIn(R, T, i) < RankIn(R, T, j)
    OBVIOUS
  <2>1. Up(i) \in SUBSET Up(j) /\ Up(i) # Up(j)
    <3>1. \A k \in T : <<k, i>> \in R => <<k, j>> \in R
      BY DEF Orders
    <3>2. j \in Up(j) /\ j \notin Up(i)
      BY DEF Orders
    <3> QED BY <3>1, <3>2
  <2>2. IsFiniteSet(Up(i)) /\ IsFiniteSet(Up(j))
    BY <1>2
  <2>3. RankIn(R, T, i) = Cardinality(Up(i)) /\ RankIn(R, T, j) = Cardinality(Up(j))
    BY <1>2
  <2> HIDE DEF Up
  <2>4. Cardinality(Up(i)) <= Cardinality(Up(j)) /\ Cardinality(Up(j)) # Cardinality(Up(i))
    BY <2>1, <2>2, FS_Subset
  <2>5. Cardinality(Up(i)) \in Nat /\ Cardinality(Up(j)) \in Nat
    BY <2>2, FS_CardinalityType
  <2> QED BY <2>3, <2>4, <2>5
<1>4. \A i, j \in T : RankIn(R, T, i) = RankIn(R, T, j) => i = j
  <2> SUFFICES ASSUME NEW i \in T, NEW j \in T, RankIn(R, T, i) = RankIn(R, T, j), i # j
               PROVE  FALSE
    OBVIOUS
  <2>1. RankIn(R, T, i) \in Nat /\ RankIn(R, T, j) \in Nat
    <3> HIDE DEF n
    <3>1. RankIn(R, T, i) \in 1..n /\ RankIn(R, T, j) \in 1..n
      BY <1>2
    <3> QED BY <1>1, <3>1
  <2>2. RankIn(R, T, i) < RankIn(R, T, j) \/ RankIn(R, T, j) < RankIn(R, T, i)
    BY <1>3 DEF Orders
  <2> QED BY <2>1, <2>2
<1>5. \A k \in 1..n : \E i \in T : RankIn(R, T, i) = k
  <2> DEFINE f == [i \in T |-> RankIn(R, T, i)]
  <2>1. f \in Injection(T, 1..n)
    <3>1. f \in [T -> 1..n]
      BY <1>2
    <3> QED BY <1>4, <3>1 DEF Injection, IsInjective
  <2>2. IsFiniteSet(1..n) /\ Cardinality(1..n) = n
    <3> HIDE DEF n
    <3>1. 1 \in Int /\ n \in Int /\ (IF 1 > n THEN 0 ELSE n - 1 + 1) = n
      BY <1>1
    <3> QED BY <3>1, FS_Interval
  <2>3. f \in Surjection(T, 1..n)
    <3> HIDE DEF f
    <3> QED BY <2>1, <2>2, FS_Injection
  <2> QED BY <2>3 DEF Surjection
<1> QED BY <1>2, <1>3, <1>4, <1>5

(* Taking the elements of T by their rank gives each of them once.         *)
ByRank(R, T, k) == CHOOSE i \in T : RankIn(R, T, i) = k

(* Elements taken by their rank come in the order of their ranks.          *)
LEMMA ByRankIsOrdered ==
    ASSUME NEW T, NEW R, IsFiniteSet(T), Orders(R, T)
    PROVE  /\ \A k \in 1..Cardinality(T) :
                  ByRank(R, T, k) \in T /\ RankIn(R, T, ByRank(R, T, k)) = k
           /\ \A i \in T : RankIn(R, T, i) \in 1..Cardinality(T) /\ ByRank(R, T, RankIn(R, T, i)) = i
           /\ \A k, l \in 1..Cardinality(T) : k <= l => <<ByRank(R, T, k), ByRank(R, T, l)>> \in R
<1> DEFINE n == Cardinality(T)
<1>1. \A k \in 1..n : ByRank(R, T, k) \in T /\ RankIn(R, T, ByRank(R, T, k)) = k
  <2> SUFFICES ASSUME NEW k \in 1..n
               PROVE  ByRank(R, T, k) \in T /\ RankIn(R, T, ByRank(R, T, k)) = k
    OBVIOUS
  <2>1. \E i \in T : RankIn(R, T, i) = k
    BY RanksAreNumbers
  <2> QED BY <2>1 DEF ByRank
<1>2. \A i \in T : RankIn(R, T, i) \in 1..n
  BY RanksAreNumbers
<1>3. \A i \in T : ByRank(R, T, RankIn(R, T, i)) = i
  <2> HIDE DEF n
  <2> QED BY <1>1, <1>2, RanksAreNumbers
<1>4. \A k, l \in 1..n : k <= l => <<ByRank(R, T, k), ByRank(R, T, l)>> \in R
  <2> SUFFICES ASSUME NEW k \in 1..n, NEW l \in 1..n, k <= l,
                      <<ByRank(R, T, k), ByRank(R, T, l)>> \notin R
               PROVE  FALSE
    OBVIOUS
  <2> DEFINE i == ByRank(R, T, k)
             j == ByRank(R, T, l)
  <2>1. i \in T /\ j \in T /\ RankIn(R, T, i) = k /\ RankIn(R, T, j) = l
    BY <1>1
  <2> HIDE DEF i, j
  <2>2. <<j, i>> \in R /\ i # j
    BY <2>1 DEF Orders, i, j
  <2>3. RankIn(R, T, j) < RankIn(R, T, i)
    BY <2>1, <2>2, RanksAreNumbers
  <2> HIDE DEF n
  <2>4. k \in Int /\ l \in Int
    OBVIOUS
  <2> QED BY <2>1, <2>3, <2>4
<1> QED BY <1>1, <1>2, <1>3, <1>4
-----------------------------------------------------------------------------
(* A set of positions of a sequence is finite, and ordered by <=.          *)
AtMost(T) == {p \in T \X T : p[1] <= p[2]}

(* Positions of a sequence are finitely many and ordered.                  *)
LEMMA PositionsAreOrdered ==
    ASSUME NEW n \in Nat, NEW T \in SUBSET (1..n)
    PROVE  IsFiniteSet(T) /\ Cardinality(T) \in Nat /\ Orders(AtMost(T), T)
<1>1. IsFiniteSet(T)
  <2>1. IsFiniteSet(1..n)
    BY FS_Interval
  <2> QED BY <2>1, FS_Subset
<1>2. Cardinality(T) \in Nat
  BY <1>1, FS_CardinalityType
<1>3. Orders(AtMost(T), T)
  <2>1. \A i, j \in T : <<i, j>> \in AtMost(T) <=> i <= j
    BY DEF AtMost
  <2>2. \A i \in T : i \in Int
    OBVIOUS
  <2> QED BY <2>1, <2>2 DEF Orders
<1> QED BY <1>1, <1>2, <1>3

(* The elements picked are those at the given positions.                   *)
LEMMA PickedIsThere ==
    ASSUME NEW s, NEW n \in Nat, NEW T \in SUBSET (1..n)
    PROVE  /\ Cardinality(T) \in Nat /\ DOMAIN Picked(s, T) = 1..Cardinality(T)
           /\ Cardinality(T) = 0 <=> T = {}
           /\ \A k \in 1..Cardinality(T) : \E i \in T : Picked(s, T)[k] = s[i]
           /\ \A i \in T : \E k \in 1..Cardinality(T) : Picked(s, T)[k] = s[i]
<1> DEFINE R == AtMost(T)
<1>1. IsFiniteSet(T) /\ Cardinality(T) \in Nat /\ Orders(R, T)
  BY PositionsAreOrdered
<1>2. \A i \in T : Cardinality({j \in T : j <= i}) = RankIn(R, T, i)
  <2> SUFFICES ASSUME NEW i \in T
               PROVE  {j \in T : j <= i} = {j \in T : <<j, i>> \in R}
    BY DEF RankIn
  <2> QED BY DEF AtMost
<1>3. \A k \in 1..Cardinality(T) : Picked(s, T)[k] = s[ByRank(R, T, k)]
  <2> SUFFICES ASSUME NEW k \in 1..Cardinality(T)
               PROVE  Nth(T, k) = ByRank(R, T, k)
    BY DEF Picked
  <2> HIDE DEF R
  <2> QED BY <1>2 DEF ByRank, Nth
<1>4. DOMAIN Picked(s, T) = 1..Cardinality(T)
  BY DEF Picked
<1> HIDE DEF R
<1>5. \A k \in 1..Cardinality(T) : \E i \in T : Picked(s, T)[k] = s[i]
  BY <1>1, <1>3, ByRankIsOrdered
<1>6. \A i \in T : \E k \in 1..Cardinality(T) : Picked(s, T)[k] = s[i]
  <2> SUFFICES ASSUME NEW i \in T
               PROVE  \E k \in 1..Cardinality(T) : Picked(s, T)[k] = s[i]
    OBVIOUS
  <2>1. RankIn(R, T, i) \in 1..Cardinality(T) /\ ByRank(R, T, RankIn(R, T, i)) = i
    BY <1>1, ByRankIsOrdered
  <2> QED BY <1>3, <2>1
<1> QED BY <1>1, <1>4, <1>5, <1>6, FS_EmptySet

(* What is picked from a sequence is a sequence of elements of that kind.  *)
LEMMA PickedIsSequence ==
    ASSUME NEW V, NEW s \in Seq(V), NEW T \in SUBSET DOMAIN s
    PROVE  /\ Picked(s, T) \in Seq(V) /\ Len(Picked(s, T)) = Cardinality(T)
           /\ Picked(s, T) = << >> <=> T = {}
<1>1. DOMAIN s = 1..Len(s) /\ Len(s) \in Nat
  OBVIOUS
<1>2. /\ Cardinality(T) \in Nat /\ DOMAIN Picked(s, T) = 1..Cardinality(T)
      /\ Cardinality(T) = 0 <=> T = {}
      /\ \A k \in 1..Cardinality(T) : \E i \in T : Picked(s, T)[k] = s[i]
  BY <1>1, PickedIsThere
<1>3. Picked(s, T) = [k \in 1..Cardinality(T) |-> Picked(s, T)[k]]
  BY DEF Picked
<1>4. \A k \in 1..Cardinality(T) : Picked(s, T)[k] \in V
  BY <1>1, <1>2
<1>5. Picked(s, T) \in [1..Cardinality(T) -> V]
  BY <1>3, <1>4
<1>6. Picked(s, T) \in Seq(V) /\ Len(Picked(s, T)) = Cardinality(T)
  BY <1>2, <1>5
<1>7. Picked(s, T) = << >> <=> Cardinality(T) = 0
  BY <1>6
<1> QED BY <1>2, <1>6, <1>7
-----------------------------------------------------------------------------
(* compare_version(a, b) says of a what compare_version(b, a) says of b.   *)
LEMMA CompareBothWays ==
    ASSUME NEW a \in Seq(Int), NEW b \in Seq(Int)
    PROVE  /\ compare_version(a, b) \in Int
           /\ compare_version(a, b) = -compare_version(b, a)
           /\ compare_version(a, b) < 0 <=> compare_version(b, a) > 0
           /\ compare_version(a, b) = 0 <=> compare_version(b, a) = 0
<1> DEFINE c == compare_version(a, b)
           d == compare_version(b, a)
<1>1. (\A i \in Nat \ {0} : PartAt(a, i) = PartAt(b, i)) <=> (\A i \in Nat \ {0} : PartAt(b, i) = PartAt(a, i))
  OBVIOUS
<1>2. (c = 0 <=> d = 0) /\ (c = 1 <=> d = -1) /\ (c = -1 <=> d = 1)
  BY <1>1, CompareMeans
<1>3. (c = -1 \/ c = 0 \/ c = 1) /\ (d = -1 \/ d = 0 \/ d = 1)
  BY CompareMeans
<1> HIDE DEF c, d
<1>4. c \in Int /\ d \in Int /\ c = -d
  <2>1. (c = 0 /\ d = 0) \/ (c = 1 /\ d = -1) \/ (c = -1 /\ d = 1)
    BY <1>2, <1>3, Zenon
  <2> QED BY <2>1
<1>5. (c < 0 <=> d > 0) /\ (c = 0 <=> d = 0)
  BY <1>4
<1> QED BY <1>4, <1>5 DEF c, d

(* The order that sorted() works with.                                     *)
SortOrder(s) == {p \in (DOMAIN s) \X (DOMAIN s) : SortsBefore(s, p[1], p[2])}

(* The sort key of versions with the position as tie-break is a total order *)
(* of positions: sorted() is stable.                                       *)
LEMMA SortOrderOrders ==
    ASSUME NEW s \in Seq(Seq(Int))
    PROVE  /\ Orders(SortOrder(s), DOMAIN s)
           /\ \A i, j \in DOMAIN s : <<i, j>> \in SortOrder(s) => compare_version(s[i], s[j]) <= 0
<1>1. \A i, j \in DOMAIN s : <<i, j>> \in SortOrder(s) <=>
          \/ compare_version(s[i], s[j]) < 0
          \/ compare_version(s[i], s[j]) = 0 /\ i <= j
  BY DEF SortOrder, SortsBefore
<1>2. \A i \in DOMAIN s : s[i] \in Seq(Int) /\ i \in Int
  OBVIOUS
<1>3. \A i, j \in DOMAIN s : /\ compare_version(s[i], s[j]) \in Int
                             /\ compare_version(s[i], s[j]) < 0 <=> compare_version(s[j], s[i]) > 0
                             /\ compare_version(s[i], s[j]) = 0 <=> compare_version(s[j], s[i]) = 0
  BY <1>2, CompareBothWays
<1>4. \A i, j, k \in DOMAIN s :
          compare_version(s[i], s[j]) >= 0 /\ compare_version(s[j], s[k]) >= 0 =>
              /\ compare_version(s[i], s[k]) >= 0
              /\ compare_version(s[i], s[k]) = 0 => compare_version(s[i], s[j]) = 0
  BY <1>2, HigherIsTransitive
<1>5. \A i \in DOMAIN s : <<i, i>> \in SortOrder(s)
  <2>1. \A i \in DOMAIN s : compare_version(s[i], s[i]) = 0
    BY <1>3
  <2> QED BY <1>1, <1>2, <2>1
<1>6. \A i, j \in DOMAIN s : <<i, j>> \in SortOrder(s) \/ <<j, i>> \in SortOrder(s)
  <2> SUFFICES ASSUME NEW i \in DOMAIN s, NEW j \in DOMAIN s
               PROVE  <<i, j>> \in SortOrder(s) \/ <<j, i>> \in SortOrder(s)
    OBVIOUS
  <2> DEFINE c == compare_version(s[i], s[j])
             d == compare_version(s[j], s[i])
  <2>1. c \in Int /\ d \in Int /\ (c < 0 <=> d > 0) /\ (d < 0 <=> c > 0) /\ i \in Int /\ j \in Int
        /\ (c = 0 <=> d = 0)
    BY <1>2, <1>3
  <2> HIDE DEF c, d
  <2>2. c < 0 \/ (c = 0 /\ i <= j) \/ d < 0 \/ (d = 0 /\ j <= i)
    BY <2>1
  <2> QED BY <1>1, <2>2 DEF c, d
<1>7. \A i, j \in DOMAIN s : <<i, j>> \in SortOrder(s) /\ <<j, i>> \in SortOrder(s) => i = j
  BY <1>1, <1>2, <1>3
<1>8. ASSUME NEW i \in DOMAIN s, NEW j \in DOMAIN s, NEW k \in DOMAIN s,
             <<i, j>> \in SortOrder(s), <<j, k>> \in SortOrder(s)
      PROVE  <<i, k>> \in SortOrder(s)
  <2> DEFINE ij == compare_version(s[i], s[j])  ji == compare_version(s[j], s[i])
             jk == compare_version(s[j], s[k])  kj == compare_version(s[k], s[j])
             ik == compare_version(s[i], s[k])  ki == compare_version(s[k], s[i])
  <2>1. /\ ij \in Int /\ jk \in Int /\ ik \in Int /\ ji \in Int /\ kj \in Int /\ ki \in Int
        /\ (ij < 0 <=> ji > 0) /\ (jk < 0 <=> kj > 0) /\ (ik < 0 <=> ki > 0)
        /\ (ij = 0 <=> ji = 0) /\ (jk = 0 <=> kj = 0) /\ (ik = 0 <=> ki = 0)
    BY <1>3
  <2>2. kj >= 0 /\ ji >= 0 => ki >= 0 /\ (ki = 0 => kj = 0)
    BY <1>4
  <2>3. ik >= 0 /\ kj >= 0 => ij >= 0
    BY <1>4
  <2>4. (ij < 0 \/ (ij = 0 /\ i <= j)) /\ (jk < 0 \/ (jk = 0 /\ j <= k)) /\ i \in Int /\ j \in Int /\ k \in Int
    BY <1>1, <1>2, <1>8
  <2>6. i \in Int /\ j \in Int /\ k \in Int
    BY <1>2
  <2> HIDE DEF ij, ji, jk, kj, ik, ki
  <2>5. ik < 0 \/ (ik = 0 /\ i <= k)
    BY <2>1, <2>2, <2>3, <2>4, <2>6
  <2> QED BY <1>1, <2>5 DEF ik
<1>9. Orders(SortOrder(s), DOMAIN s)
  BY <1>5, <1>6, <1>7, <1>8 DEF Orders
<1>10. \A i, j \in DOMAIN s : <<i, j>> \in SortOrder(s) => compare_version(s[i], s[j]) <= 0
  BY <1>1, <1>3
<1> QED BY <1>9, <1>10

(* sorted() returns the releases it was given, each no higher than those   *)
(* that follow.                                                            *)
LEMMA SortedIsSorted ==
    ASSUME NEW s \in Seq(Seq(Int))
    PROVE  /\ Sorted(s) \in Seq(Seq(Int)) /\ Len(Sorted(s)) = Len(s)
           /\ \A k \in 1..Len(s) : \E i \in 1..Len(s) : Sorted(s)[k] = s[i]
           /\ \A i \in 1..Len(s) : \E k \in 1..Len(s) : Sorted(s)[k] = s[i]
           /\ \A k, l \in 1..Len(s) : k <= l => compare_version(Sorted(s)[k], Sorted(s)[l]) <= 0
<1> DEFINE T == DOMAIN s
           R == SortOrder(s)
           n == Len(s)
<1>1. n \in Nat /\ T = 1..n /\ IsFiniteSet(T) /\ Cardinality(T) = n
  <2>1. n \in Nat /\ T = 1..n
    OBVIOUS
  <2> HIDE DEF n
  <2>2. 1 \in Int /\ n \in Int /\ (IF 1 > n THEN 0 ELSE n - 1 + 1) = n
    BY <2>1
  <2>3. IsFiniteSet(1..n) /\ Cardinality(1..n) = n
    BY <2>2, FS_Interval
  <2> HIDE DEF T
  <2> QED BY <2>1, <2>3
<1>2. Orders(R, T) /\ \A i, j \in T : <<i, j>> \in R => compare_version(s[i], s[j]) <= 0
  BY SortOrderOrders
<1>3. Sorted(s) = [k \in T |-> s[ByRank(R, T, k)]]
  <2>1. \A i \in T : Cardinality({j \in T : SortsBefore(s, j, i)}) = RankIn(R, T, i)
    <3> SUFFICES ASSUME NEW i \in T
                 PROVE  {j \in T : SortsBefore(s, j, i)} = {j \in T : <<j, i>> \in R}
      BY DEF RankIn
    <3> QED BY DEF SortOrder
  <2>2. \A k : SortedTo(s, k) = ByRank(R, T, k)
    <3> SUFFICES ASSUME NEW k PROVE SortedTo(s, k) = ByRank(R, T, k)
      OBVIOUS
    <3>1. SortedTo(s, k) = CHOOSE i \in T : Cardinality({j \in T : SortsBefore(s, j, i)}) = k
      BY DEF SortedTo
    <3> HIDE DEF R, T
    <3> QED BY <2>1, <3>1 DEF ByRank
  <2> QED BY <2>2 DEF Sorted
<1>4. /\ \A k \in 1..n : ByRank(R, T, k) \in T
      /\ \A i \in T : \E k \in 1..n : ByRank(R, T, k) = i
      /\ \A k, l \in 1..n : k <= l => <<ByRank(R, T, k), ByRank(R, T, l)>> \in R
  <2> HIDE DEF R, T
  <2>1. /\ \A k \in 1..Cardinality(T) : ByRank(R, T, k) \in T
        /\ \A i \in T : RankIn(R, T, i) \in 1..Cardinality(T) /\ ByRank(R, T, RankIn(R, T, i)) = i
        /\ \A k, l \in 1..Cardinality(T) : k <= l => <<ByRank(R, T, k), ByRank(R, T, l)>> \in R
    BY <1>1, <1>2, ByRankIsOrdered
  <2> HIDE DEF n
  <2> QED BY <1>1, <2>1
<1>5. \A k \in 1..n : Sorted(s)[k] = s[ByRank(R, T, k)] /\ s[ByRank(R, T, k)] \in Seq(Int)
  BY <1>1, <1>3, <1>4
<1>6. Sorted(s) \in Seq(Seq(Int)) /\ Len(Sorted(s)) = n
  <2> HIDE DEF R, T, n
  <2>1. Sorted(s) \in [1..n -> Seq(Int)]
    BY <1>1, <1>3, <1>5
  <2> QED BY <1>1, <2>1
<1> HIDE DEF R, T, n
<1>7. \A k \in 1..n : \E i \in 1..n : Sorted(s)[k] = s[i]
  BY <1>1, <1>4, <1>5
<1>8. \A i \in 1..n : \E k \in 1..n : Sorted(s)[k] = s[i]
  BY <1>1, <1>4, <1>5
<1>9. \A k, l \in 1..n : k <= l => compare_version(Sorted(s)[k], Sorted(s)[l]) <= 0
  BY <1>1, <1>2, <1>4, <1>5
<1> QED BY <1>6, <1>7, <1>8, <1>9 DEF n
-----------------------------------------------------------------------------
(* The highest and the lowest of some versions are among them.             *)
LEMMA EndsOfSorted ==
    ASSUME NEW vs \in Seq(Seq(Int)), vs # << >>
    PROVE  /\ \E i \in 1..Len(vs) : Highest(vs) = vs[i]
           /\ \E i \in 1..Len(vs) : Sorted(vs)[1] = vs[i]
           /\ \A i \in 1..Len(vs) : compare_version(vs[i], Highest(vs)) <= 0
           /\ \A i \in 1..Len(vs) : compare_version(Sorted(vs)[1], vs[i]) <= 0
<1> DEFINE n == Len(vs)
           o == Sorted(vs)
<1>1. n \in Nat /\ n # 0
  OBVIOUS
<1>2. /\ \A k \in 1..n : \E i \in 1..n : o[k] = vs[i]
      /\ \A i \in 1..n : \E k \in 1..n : o[k] = vs[i]
      /\ \A k, l \in 1..n : k <= l => compare_version(o[k], o[l]) <= 0
  BY SortedIsSorted
<1>3. Highest(vs) = o[n]
  BY DEF Highest
<1> HIDE DEF n, o
<1>4. 1 \in 1..n /\ n \in 1..n /\ \A k \in 1..n : 1 <= k /\ k <= n
  BY <1>1
<1>5. \A i \in 1..n : compare_version(vs[i], o[n]) <= 0 /\ compare_version(o[1], vs[i]) <= 0
  BY <1>2, <1>4
<1>6. (\E i \in 1..n : o[n] = vs[i]) /\ (\E i \in 1..n : o[1] = vs[i])
  BY <1>2, <1>4
<1> QED BY <1>3, <1>5, <1>6 DEF n, o

Lowers == {">", ">="}
Uppers == {"<", "<="}

(* A constraint follows from one of the same operator whose version is     *)
(* more restricting.                                                       *)
LEMMA MoreRestricting ==
    ASSUME NEW w \in Seq(Int), NEW c, NEW d, c.ver \in Seq(Int), d.ver \in Seq(Int), c.op = d.op,
           \/ c.op \in Lowers /\ compare_version(d.ver, c.ver) <= 0
           \/ c.op \in Uppers /\ compare_version(c.ver, d.ver) <= 0,
           CompareSpec(w, c)
    PROVE  CompareSpec(w, d)
<1> DEFINE wc == compare_version(w, c.ver)  cw == compare_version(c.ver, w)
           wd == compare_version(w, d.ver)  dw == compare_version(d.ver, w)
           cd == compare_version(c.ver, d.ver)  dc == compare_version(d.ver, c.ver)
<1>1. /\ wc \in {-1, 0, 1} /\ wd \in {-1, 0, 1}
      /\ wc = -cw /\ wd = -dw /\ cd = -dc
      /\ wc \in Int /\ cw \in Int /\ wd \in Int /\ dw \in Int /\ cd \in Int /\ dc \in Int
  BY CompareMeans, CompareBothWays
<1>2. wc >= 0 /\ cd >= 0 => wd >= 0 /\ (wd = 0 => wc = 0)
  BY HigherIsTransitive
<1>3. dc >= 0 /\ cw >= 0 => dw >= 0 /\ (dw = 0 => dc = 0)
  BY HigherIsTransitive
<1>4. wd >= 0 /\ dc >= 0 => wc >= 0
  BY HigherIsTransitive
<1>5. c.op \in Lowers \cup Uppers /\ wc = compare_version(w, c.ver) /\ wd = compare_version(w, d.ver)
  OBVIOUS
<1> HIDE DEF wc, cw, wd, dw, cd, dc
<1>6. CASE c.op = ">"
  <2>1. wc = 1 /\ dc <= 0
    BY <1>5, <1>6 DEF CompareSpec, Uppers, Lowers, dc
  <2>2. wd = 1
    BY <1>1, <1>2, <2>1
  <2> QED BY <1>5, <1>6, <2>2 DEF CompareSpec
<1>7. CASE c.op = ">="
  <2>1. wc >= 0 /\ dc <= 0
    BY <1>5, <1>7 DEF CompareSpec, Uppers, Lowers, dc
  <2>2. wd >= 0
    BY <1>1, <1>2, <2>1
  <2> QED BY <1>5, <1>7, <2>2 DEF CompareSpec
<1>8. CASE c.op = "<"
  <2>1. wc = -1 /\ cd <= 0
    BY <1>5, <1>8 DEF CompareSpec, Uppers, Lowers, cd
  <2>2. wd = -1
    BY <1>1, <1>3, <1>4, <2>1
  <2> QED BY <1>5, <1>8, <2>2 DEF CompareSpec
<1>9. CASE c.op = "<="
  <2>1. wc <= 0 /\ cd <= 0
    BY <1>5, <1>9 DEF CompareSpec, Uppers, Lowers, cd
  <2>2. wd <= 0
    BY <1>1, <1>3, <2>1
  <2> QED BY <1>5, <1>9, <2>2 DEF CompareSpec
<1> QED BY <1>5, <1>6, <1>7, <1>8, <1>9 DEF Lowers, Uppers

(* Of constraints with the operators <, <=, > and >=, restrict_versions    *)
(* keeps some that mean the same as all of them, whatever their names and  *)
(* order.                                                                  *)
LEMMA RestrictMeans ==
    ASSUME NEW w \in Seq(Int), NEW N, NEW cons \in Seq([name : N, op : Lowers \cup Uppers, ver : Seq(Int)])
    PROVE  (\A i \in DOMAIN cons : CompareSpec(w, cons[i])) <=>
               \A c \in restrict_versions(cons) : CompareSpec(w, c)
<1> DEFINE NamePos(n) == FirstOf({i \in DOMAIN cons : cons[i].name = n})
           Same(c)    == {i \in DOMAIN cons : cons[i].name = c.name /\ cons[i].op = c.op}
           KeyPos(c)  == FirstOf(Same(c))
           keys       == {i \in DOMAIN cons : KeyPos(cons[i]) = i}
           Earlier(j, i) == \/ NamePos(cons[j].name) < NamePos(cons[i].name)
                            \/ cons[j].name = cons[i].name /\ j < i
           before(i)  == {j \in keys : Earlier(j, i)}
           vers       == [i \in DOMAIN cons |-> cons[i].ver]
           Given(c)   == Picked(vers, Same(c))
           Restricting(c) == IF c.op \in {">", ">="} THEN Highest(Given(c)) ELSE Sorted(Given(c))[1]
           chosen(i)  == {j \in before(i) \cup {i} : cons[j].op \in {">", ">=", "<", "<="}}
           Latest(S)  == CHOOSE j \in S : \A k \in S : k = j \/ Earlier(k, j)
           Used(i)    == IF chosen(i) = {} THEN cons[Len(cons)].ver ELSE Restricting(cons[Latest(chosen(i))])
<1>1. restrict_versions(cons) = {[name |-> cons[i].name, op |-> cons[i].op, ver |-> Used(i)] : i \in keys}
  BY DEF restrict_versions
<1>2. \A i \in DOMAIN cons : /\ i \in Nat \ {0} /\ i \in Same(cons[i])
                             /\ cons[i].op \in Lowers \cup Uppers /\ cons[i].ver \in Seq(Int)
  <2>1. \A i \in DOMAIN cons : i \in Nat \ {0} /\ cons[i] \in [name : N, op : Lowers \cup Uppers, ver : Seq(Int)]
    <3> DEFINE C == [name : N, op : Lowers \cup Uppers, ver : Seq(Int)]
    <3> HIDE DEF C
    <3>1. cons \in Seq(C)
      BY DEF C
    <3>2. \A i \in DOMAIN cons : i \in Nat \ {0} /\ cons[i] \in C
      BY <3>1
    <3> QED BY <3>2 DEF C
  <2> QED BY <2>1
<1>3. \A i \in DOMAIN cons : KeyPos(cons[i]) \in keys /\ i \in Same(cons[KeyPos(cons[i])])
  <2> SUFFICES ASSUME NEW i \in DOMAIN cons
               PROVE  KeyPos(cons[i]) \in keys /\ i \in Same(cons[KeyPos(cons[i])])
    OBVIOUS
  <2> DEFINE k == KeyPos(cons[i])
  <2>1. k \in Same(cons[i])
    <3>1. Same(cons[i]) \subseteq Nat /\ Same(cons[i]) # {}
      BY <1>2
    <3> HIDE DEF Same
    <3> QED BY <3>1, FirstIsLeast
  <2> HIDE DEF k
  <2>2. k \in DOMAIN cons /\ Same(cons[k]) = Same(cons[i])
    BY <2>1
  <2>3. KeyPos(cons[k]) = k
    BY <2>2 DEF k
  <2> QED BY <1>2, <2>2, <2>3 DEF k
<1>4. \A i \in keys : Used(i) = Restricting(cons[i])
  <2> SUFFICES ASSUME NEW i \in keys PROVE Used(i) = Restricting(cons[i])
    OBVIOUS
  <2>1. i \in DOMAIN cons /\ i \in chosen(i)
    BY <1>2 DEF Lowers, Uppers
  <2>2. \A j \in chosen(i) : j \in DOMAIN cons /\ (j = i \/ Earlier(j, i))
    OBVIOUS
  <2>3. \A j \in DOMAIN cons : Earlier(i, j) /\ Earlier(j, i) => FALSE
    <3> SUFFICES ASSUME NEW j \in DOMAIN cons, Earlier(i, j), Earlier(j, i) PROVE FALSE
      OBVIOUS
    <3> DEFINE a == NamePos(cons[i].name)
               b == NamePos(cons[j].name)
    <3>1. \A x \in DOMAIN cons : NamePos(cons[x].name) \in Nat
      <4> SUFFICES ASSUME NEW x \in DOMAIN cons PROVE NamePos(cons[x].name) \in Nat
        OBVIOUS
      <4> DEFINE P == {y \in DOMAIN cons : cons[y].name = cons[x].name}
      <4>1. P \subseteq Nat /\ P # {}
        BY <1>2
      <4> HIDE DEF P
      <4>2. FirstOf(P) \in Nat
        BY <4>1, FirstIsLeast
      <4> QED BY <4>2 DEF P
    <3>2. a \in Nat /\ b \in Nat /\ i \in Nat /\ j \in Nat
      BY <1>2, <2>1, <3>1
    <3>3. cons[i].name = cons[j].name => a = b
      OBVIOUS
    <3>4. (a < b \/ (cons[i].name = cons[j].name /\ i < j)) /\ (b < a \/ (cons[i].name = cons[j].name /\ j < i))
      OBVIOUS
    <3> HIDE DEF a, b
    <3> QED BY <3>2, <3>3, <3>4
  <2> HIDE DEF chosen, Earlier
  <2>4. Latest(chosen(i)) = i
    <3>1. \A j \in chosen(i) : (\A k \in chosen(i) : k = j \/ Earlier(k, j)) => j = i
      BY <2>1, <2>2, <2>3
    <3>2. \A k \in chosen(i) : k = i \/ Earlier(k, i)
      BY <2>2
    <3> QED BY <2>1, <3>1, <3>2
  <2> HIDE DEF Latest
  <2> QED BY <2>1, <2>4
<1>5. \A i \in DOMAIN cons : /\ \E j \in Same(cons[i]) : Restricting(cons[i]) = cons[j].ver
                             /\ \A j \in Same(cons[i]) :
                                   \/ cons[i].op \in Lowers /\ compare_version(cons[j].ver, Restricting(cons[i])) <= 0
                                   \/ cons[i].op \in Uppers /\ compare_version(Restricting(cons[i]), cons[j].ver) <= 0
  <2> SUFFICES ASSUME NEW i \in DOMAIN cons
               PROVE  /\ \E j \in Same(cons[i]) : Restricting(cons[i]) = cons[j].ver
                      /\ \A j \in Same(cons[i]) :
                            \/ cons[i].op \in Lowers /\ compare_version(cons[j].ver, Restricting(cons[i])) <= 0
                            \/ cons[i].op \in Uppers /\ compare_version(Restricting(cons[i]), cons[j].ver) <= 0
    OBVIOUS
  <2> DEFINE S == Same(cons[i])
             g == Picked(vers, S)
  <2>1. vers \in Seq(Seq(Int)) /\ S \in SUBSET DOMAIN vers /\ S # {} /\ DOMAIN vers = 1..Len(vers) /\ Len(vers) \in Nat
    <3> DEFINE n == Len(cons)
    <3>1. n \in Nat /\ DOMAIN cons = 1..n
      OBVIOUS
    <3> HIDE DEF n
    <3>2. vers \in [1..n -> Seq(Int)]
      BY <1>2, <3>1
    <3>3. vers \in Seq(Seq(Int)) /\ DOMAIN vers = 1..n
      BY <3>1, <3>2
    <3>4. S \in SUBSET (1..n) /\ i \in S
      BY <1>2, <3>1
    <3> HIDE DEF S, vers
    <3> QED BY <3>3, <3>4
  <2>2. \A j \in S : vers[j] = cons[j].ver
    OBVIOUS
  <2>3. Restricting(cons[i]) = IF cons[i].op \in Lowers THEN Highest(g) ELSE Sorted(g)[1]
    BY DEF Lowers
  <2>4. cons[i].op \in Lowers \/ (cons[i].op \in Uppers /\ cons[i].op \notin Lowers)
    BY <1>2 DEF Lowers, Uppers
  <2> HIDE DEF vers, Same, S, Restricting
  <2>5. g \in Seq(Seq(Int)) /\ g # << >> /\ Len(g) = Cardinality(S)
    BY <2>1, PickedIsSequence
  <2>6. /\ \A k \in 1..Len(g) : \E j \in S : g[k] = vers[j]
        /\ \A j \in S : \E k \in 1..Len(g) : g[k] = vers[j]
    <3> DEFINE n == Len(vers)
    <3>1. n \in Nat /\ S \in SUBSET (1..n)
      BY <2>1
    <3> HIDE DEF n
    <3>2. /\ \A k \in 1..Cardinality(S) : \E j \in S : g[k] = vers[j]
          /\ \A j \in S : \E k \in 1..Cardinality(S) : g[k] = vers[j]
      BY <3>1, PickedIsThere
    <3> HIDE DEF g
    <3> QED BY <2>5, <3>2
  <2> HIDE DEF g
  <2>7. /\ \E k \in 1..Len(g) : Highest(g) = g[k]
        /\ \E k \in 1..Len(g) : Sorted(g)[1] = g[k]
        /\ \A k \in 1..Len(g) : compare_version(g[k], Highest(g)) <= 0
        /\ \A k \in 1..Len(g) : compare_version(Sorted(g)[1], g[k]) <= 0
    BY <2>5, EndsOfSorted
  <2> HIDE DEF Same
  <2>8. CASE cons[i].op \in Lowers
    BY <2>2, <2>3, <2>6, <2>7, <2>8 DEF S
  <2>9. CASE cons[i].op \in Uppers /\ cons[i].op \notin Lowers
    BY <2>2, <2>3, <2>6, <2>7, <2>9 DEF S
  <2> QED BY <2>4, <2>8, <2>9
<1> HIDE DEF NamePos, KeyPos, keys, Earlier, before, vers, Given, Restricting, chosen, Latest, Used
<1>6. ASSUME \A i \in DOMAIN cons : CompareSpec(w, cons[i]), NEW c \in restrict_versions(cons)
      PROVE  CompareSpec(w, c)
  <2>1. PICK i \in keys : c = [name |-> cons[i].name, op |-> cons[i].op, ver |-> Used(i)]
    BY <1>1, <1>6
  <2>2. i \in DOMAIN cons
    BY DEF keys
  <2>3. PICK j \in Same(cons[i]) : Restricting(cons[i]) = cons[j].ver
    BY <1>5, <2>2
  <2>4. j \in DOMAIN cons /\ c.op = cons[j].op /\ c.ver = cons[j].ver
    BY <1>4, <2>1, <2>2, <2>3
  <2> QED BY <1>6, <2>4 DEF CompareSpec
<1>7. ASSUME \A c \in restrict_versions(cons) : CompareSpec(w, c), NEW i \in DOMAIN cons
      PROVE  CompareSpec(w, cons[i])
  <2> DEFINE k == KeyPos(cons[i])
             c == [name |-> cons[k].name, op |-> cons[k].op, ver |-> Used(k)]
  <2>1. k \in keys /\ k \in DOMAIN cons /\ i \in Same(cons[k])
    BY <1>3 DEF keys
  <2>2. CompareSpec(w, c)
    BY <1>1, <1>7, <2>1
  <2>3. c.op = cons[k].op /\ c.ver = Restricting(cons[k]) /\ cons[i].op = cons[k].op
    BY <1>4, <2>1
  <2>4. \/ cons[k].op \in Lowers /\ compare_version(cons[i].ver, Restricting(cons[k])) <= 0
        \/ cons[k].op \in Uppers /\ compare_version(Restricting(cons[k]), cons[i].ver) <= 0
    BY <1>5, <2>1
  <2>5. Restricting(cons[k]) \in Seq(Int) /\ cons[i].ver \in Seq(Int)
    BY <1>2, <1>5, <2>1
  <2> HIDE DEF c, k, Same
  <2> QED BY <2>2, <2>3, <2>4, <2>5, MoreRestricting
<1> QED BY <1>6, <1>7
-----------------------------------------------------------------------------
(* What the solvers rely on when they sort versions, expand an operator    *)
(* and keep only the most restricting constraints holds of any versions,   *)
(* of any number of parts: compare_version is an order up to equality, ~=  *)
(* means what PEP 440 says, and restrict_versions changes nothing.         *)
THEOREM VersionsAlwaysAgree == SampleInit => VersionsAgree
<1> SUFFICES ASSUME SampleInit PROVE VersionsAgree
  OBVIOUS
<1> DEFINE a == sample[1]
           b == sample[2]
           c == sample[3]
<1>1. a \in Seq(Int) /\ b \in Seq(Int) /\ c \in Seq(Int)
  BY SampleAssumption DEF SampleInit
<1>2. CompareIsOrder
  <2> HIDE DEF a, b, c
  <2>1. /\ compare_version(a, b) = -compare_version(b, a)
        /\ compare_version(a, b) >= 0 /\ compare_version(b, c) >= 0 =>
               /\ compare_version(a, c) >= 0
               /\ compare_version(a, c) = 0 => compare_version(a, b) = 0
    BY <1>1, CompareBothWays, HigherIsTransitive
  <2> QED BY <2>1 DEF CompareIsOrder, a, b, c
<1>3. CompatibleIsPrefixMatch
  <2> DEFINE n == Longest(a, b)
             AllNumbers(x) == \A i \in DOMAIN x : x[i] >= 0
  <2> HIDE DEF a, b, c
  <2> SUFFICES ASSUME AllNumbers(a), AllNumbers(b), Len(a) > 1
               PROVE  CheckAll(b, CompatibleRelease(a)) <=>
                          /\ compare_version(b, a) >= 0
                          /\ \A i \in 1..(Len(a) - 1) : Cardinal(b, n)[i] = a[i]
    BY DEF CompatibleIsPrefixMatch, a, b
  <2>1. CheckAll(b, CompatibleRelease(a)) <=>
            /\ compare_version(b, a) >= 0
            /\ \A i \in 1..(Len(a) - 1) : PartAt(b, i) = a[i]
    BY <1>1, CompatibleMeans
  <2>2. \A i \in 1..(Len(a) - 1) : Cardinal(b, n)[i] = PartAt(b, i)
    <3> SUFFICES ASSUME NEW i \in 1..(Len(a) - 1) PROVE Cardinal(b, n)[i] = PartAt(b, i)
      OBVIOUS
    <3>1. n \in Nat /\ Len(a) <= n /\ Len(a) \in Nat
      BY <1>1, LongestIsLonger
    <3> HIDE DEF n
    <3>2. i \in 1..n
      BY <3>1
    <3> QED BY <3>2 DEF Cardinal, PartAt
  <2> QED BY <2>1, <2>2
<1>4. RestrictKeepsMeaning
  <2> SUFFICES ASSUME NEW lower \in {">", ">="}, NEW upper \in {"<", "<="}, NEW w \in Samples
               PROVE  LET Called(x) == [name |-> "x", op |-> x.op, ver |-> x.ver]
                          cons == <<Con(lower, a), Con(upper, b), Con(lower, c), Con(upper, c)>>
                          kept == restrict_versions([i \in DOMAIN cons |-> Called(cons[i])])
                      IN  CheckAll(w, cons) <=> \A x \in kept : CompareSpec(w, x)
    BY DEF RestrictKeepsMeaning
  <2> DEFINE cons  == <<Con(lower, a), Con(upper, b), Con(lower, c), Con(upper, c)>>
             named4 == [i \in DOMAIN cons |-> [name |-> "x", op |-> cons[i].op, ver |-> cons[i].ver]]
  <2>1. w \in Seq(Int)
    BY SampleAssumption
  <2> HIDE DEF a, b, c
  <2>2. \A i \in 1..4 : cons[i].op \in Lowers \cup Uppers /\ cons[i].ver \in Seq(Int)
    BY <1>1 DEF Con, Lowers, Uppers
  <2>3. DOMAIN cons = 1..4
    OBVIOUS
  <2> HIDE DEF cons
  <2>4. named4 \in Seq([name : {"x"}, op : Lowers \cup Uppers, ver : Seq(Int)]) /\ DOMAIN named4 = 1..4
    BY <2>2, <2>3
  <2>5. \A i \in 1..4 : named4[i].op = cons[i].op /\ named4[i].ver = cons[i].ver
    BY <2>3
  <2>6. \A i \in 1..4 : CompareSpec(w, cons[i]) <=> CompareSpec(w, named4[i])
    <3> SUFFICES ASSUME NEW i \in 1..4 PROVE CompareSpec(w, cons[i]) <=> CompareSpec(w, named4[i])
      OBVIOUS
    <3>1. named4[i].op = cons[i].op /\ named4[i].ver = cons[i].ver
      BY <2>5
    <3> HIDE DEF named4
    <3> QED BY <3>1 DEF CompareSpec
  <2> HIDE DEF named4
  <2>7. (\A i \in DOMAIN named4 : CompareSpec(w, named4[i])) <=> \A x \in restrict_versions(named4) : CompareSpec(w, x)
    BY <2>1, <2>4, RestrictMeans
  <2>8. CheckAll(w, cons) <=> \A x \in restrict_versions(named4) : CompareSpec(w, x)
    BY <2>3, <2>4, <2>6, <2>7 DEF CheckAll
  <2> QED BY <2>8 DEF cons, named4
<1> QED BY <1>2, <1>3, <1>4 DEF VersionsAgree
-----------------------------------------------------------------------------
(* LastOf is what its name says.                                           *)
LEMMA LastIsGreatest ==
    ASSUME NEW n \in Nat, NEW S \in SUBSET (1..n), S # {}
    PROVE  LastOf(S) \in S /\ \A j \in S : j <= LastOf(S)
<1> DEFINE T == {n - j : j \in S}
<1>1. T \subseteq Nat /\ T # {}
  <2>1. \A j \in S : n - j \in Nat
    OBVIOUS
  <2> QED BY <2>1
<1>2. PICK x \in T : \A y \in T : x <= y
  <2> HIDE DEF T
  <2> QED BY <1>1, LeastNatural
<1>3. PICK i \in S : x = n - i
  OBVIOUS
<1>4. \A j \in S : j <= i
  <2> SUFFICES ASSUME NEW j \in S PROVE j <= i
    OBVIOUS
  <2>1. x <= n - j
    BY <1>2
  <2> QED BY <1>3, <2>1
<1> QED BY <1>4 DEF LastOf

Versioned == Seq(Int) \ {NoVersion}

(* What a fetcher returns: listed releases, or that it raised.             *)
LEMMA FetchedAreListed ==
    ASSUME NEW eco, NEW reply \in Replies
    PROVE  \/ FetchReleases(eco, reply) \in {Raised, RaisedValue}
           \/ FetchReleases(eco, reply) \in Seq(Versioned)
<1>1. reply.listed \in Seq(Versioned)
  <2>1. << >> \in Seq(Versioned)
    OBVIOUS
  <2>2. reply.listed \in Listings \/ reply.listed = << >>
    BY DEF Replies
  <2> QED BY <2>1, <2>2, SolverAssumption DEF Versioned
<1> DEFINE V == Versioned
<1>2. reply.listed # << >> => <<reply.listed[1]>> \in Seq(Versioned)
  <2> HIDE DEF V
  <2>1. reply.listed \in Seq(V)
    BY <1>1 DEF V
  <2>2. reply.listed # << >> => reply.listed[1] \in V
    BY <2>1
  <2>3. reply.listed # << >> => <<reply.listed[1]>> \in Seq(V)
    BY <2>2
  <2> QED BY <2>3 DEF V
<1>3. << >> \in Seq(Versioned)
  OBVIOUS
<1>4. \/ FetchReleases(eco, reply) \in {Raised, RaisedValue}
      \/ FetchReleases(eco, reply) = reply.listed
      \/ FetchReleases(eco, reply) = << >>
      \/ reply.listed # << >> /\ FetchReleases(eco, reply) = <<reply.listed[1]>>
  <2>1. reply.status \in {"ok", "not found", "bad reply", "no reply"}
    BY DEF Replies
  <2>2. CASE reply.status = "no reply"
    BY <2>2 DEF FetchReleases
  <2>3. CASE reply.status = "not found"
    BY <2>3 DEF FetchReleases
  <2>4. CASE reply.status = "ok"
    BY <2>4 DEF FetchReleases
  <2>5. CASE reply.status = "bad reply"
    BY <2>5 DEF FetchReleases
  <2> QED BY <2>1, <2>2, <2>3, <2>4, <2>5
<1> QED BY <1>1, <1>2, <1>3, <1>4

Matching(spec, releases) == {i \in DOMAIN releases : check(releases[i], spec)}

(* Solver.solve answers with the best of the matching releases.            *)
LEMMA SolveIsBest ==
    ASSUME NEW eco, NEW dep, NEW rel \in Seq(Versioned)
    PROVE  LET version == SolveDependency(eco, dep, rel).version
           IN  /\ version = NoVersion <=> Matching(dep.spec, rel) = {}
               /\ version \in Seq(Int)
               /\ version # NoVersion => \E i \in Matching(dep.spec, rel) : version = rel[i]
               /\ version # NoVersion => \A i \in Matching(dep.spec, rel) : 
                      IF HighestWins(eco) THEN compare_version(rel[i], version) <= 0
                                          ELSE compare_version(version, rel[i]) <= 0
<1> DEFINE T == Matching(dep.spec, rel)
           g == Picked(rel, T)
           o == Sorted(g)
           version == SolveDependency(eco, dep, rel).version
<1>1. rel \in Seq(Seq(Int)) /\ T \in SUBSET DOMAIN rel /\ DOMAIN rel = 1..Len(rel) /\ Len(rel) \in Nat
  <2>1. Versioned \subseteq Seq(Int)
    BY DEF Versioned
  <2> HIDE DEF T
  <2>2. rel \in Seq(Seq(Int)) /\ DOMAIN rel = 1..Len(rel) /\ Len(rel) \in Nat
    BY <2>1
  <2> QED BY <2>2 DEF T, Matching
<1>2. version = IF o = << >> THEN NoVersion ELSE IF HighestWins(eco) THEN o[Len(o)] ELSE o[1]
  BY DEF SolveDependency, Solution, Matching
<1>3. \A i \in T : rel[i] \in Seq(Int) /\ rel[i] # NoVersion
  BY DEF Versioned, Matching
<1> HIDE DEF T
<1>4. g \in Seq(Seq(Int)) /\ (g = << >> <=> T = {}) /\ Len(g) = Cardinality(T)
  BY <1>1, PickedIsSequence
<1>5. /\ \A k \in 1..Len(g) : \E i \in T : g[k] = rel[i]
      /\ \A i \in T : \E k \in 1..Len(g) : g[k] = rel[i]
  <2> DEFINE n == Len(rel)
  <2>1. n \in Nat /\ T \in SUBSET (1..n)
    BY <1>1
  <2> HIDE DEF n
  <2>2. /\ \A k \in 1..Cardinality(T) : \E i \in T : g[k] = rel[i]
        /\ \A i \in T : \E k \in 1..Cardinality(T) : g[k] = rel[i]
    BY <2>1, PickedIsThere
  <2> HIDE DEF g
  <2> QED BY <1>4, <2>2
<1> HIDE DEF g
<1>6. o \in Seq(Seq(Int)) /\ Len(o) = Len(g)
  BY <1>4, SortedIsSorted
<1>7. o = << >> <=> T = {}
  <2>1. o = << >> <=> Len(o) = 0
    BY <1>6
  <2>2. g = << >> <=> Len(g) = 0
    BY <1>4
  <2> QED BY <1>4, <1>6, <2>1, <2>2
<1>8. ASSUME T # {}
      PROVE  /\ \E i \in T : o[Len(o)] = rel[i]
             /\ \E i \in T : o[1] = rel[i]
             /\ \A i \in T : compare_version(rel[i], o[Len(o)]) <= 0
             /\ \A i \in T : compare_version(o[1], rel[i]) <= 0
  <2>1. Highest(g) = o[Len(o)]
    BY <1>6 DEF Highest
  <2>2. /\ \E k \in 1..Len(g) : o[Len(o)] = g[k]
        /\ \E k \in 1..Len(g) : o[1] = g[k]
        /\ \A k \in 1..Len(g) : compare_version(g[k], o[Len(o)]) <= 0
        /\ \A k \in 1..Len(g) : compare_version(o[1], g[k]) <= 0
    BY <1>4, <1>8, <2>1, EndsOfSorted
  <2> HIDE DEF o
  <2> QED BY <1>5, <2>2
<1> HIDE DEF o, version
<1>9. CASE T = {}
  <2>0. NoVersion \in Seq(Int)
    BY DEF NoVersion
  <2>1. version = NoVersion /\ NoVersion \in Seq(Int)
    BY <1>2, <1>7, <1>9, <2>0
  <2> QED BY <1>9, <2>1 DEF T, version
<1>10. CASE T # {}
  <2>1. version = IF HighestWins(eco) THEN o[Len(o)] ELSE o[1]
    BY <1>2, <1>7, <1>10
  <2>2. \E i \in T : version = rel[i]
    BY <1>8, <1>10, <2>1
  <2>3. \A i \in T : IF HighestWins(eco) THEN compare_version(rel[i], version) <= 0
                                         ELSE compare_version(version, rel[i]) <= 0
    BY <1>8, <1>10, <2>1
  <2>4. version \in Seq(Int) /\ version # NoVersion
    BY <1>3, <2>2
  <2> QED BY <1>10, <2>2, <2>3, <2>4 DEF T, version
<1> QED BY <1>9, <1>10
-----------------------------------------------------------------------------
IsSequence(q) == \E S : q \in Seq(S)

(* Append adds one element and keeps the others.                           *)
LEMMA AppendGrows ==
    ASSUME NEW q, NEW x, IsSequence(q)
    PROVE  /\ IsSequence(Append(q, x)) /\ Len(q) \in Nat /\ DOMAIN q = 1..Len(q)
           /\ Len(Append(q, x)) = Len(q) + 1 /\ DOMAIN Append(q, x) = 1..(Len(q) + 1)
           /\ \A i \in DOMAIN q : i \in DOMAIN Append(q, x) /\ Append(q, x)[i] = q[i]
           /\ Append(q, x)[Len(q) + 1] = x
           /\ \A i \in DOMAIN Append(q, x) : i \in DOMAIN q \/ i = Len(q) + 1
<1>1. PICK S : q \in Seq(S)
  BY DEF IsSequence
<1> DEFINE V == S \cup {x}
<1> HIDE DEF V
<1>2. q \in Seq(V) /\ x \in V
  BY <1>1 DEF V
<1>3. Append(q, x) \in Seq(V)
  BY <1>2
<1>4. /\ Len(q) \in Nat /\ DOMAIN q = 1..Len(q)
      /\ Len(Append(q, x)) = Len(q) + 1 /\ DOMAIN Append(q, x) = 1..(Len(q) + 1)
      /\ \A i \in 1..Len(q) : Append(q, x)[i] = q[i]
      /\ Append(q, x)[Len(q) + 1] = x
  BY <1>2
<1>5. \A i \in 1..(Len(q) + 1) : i \in 1..Len(q) \/ i = Len(q) + 1
  BY <1>4
<1>6. \A i \in 1..Len(q) : i \in 1..(Len(q) + 1)
  BY <1>4
<1> QED BY <1>3, <1>4, <1>5, <1>6 DEF IsSequence

(* The version found depends on the specification, not on the name.        *)
LEMMA SolutionParts ==
    ASSUME NEW eco, NEW dep, NEW rel
    PROVE  LET s == SolveDependency(eco, dep, rel)
           IN  /\ s.name = FetchedName(eco, dep.name) /\ s.spec = dep.spec /\ s.releases = rel
               /\ \A n : s.version = SolveDependency(eco, Dep(n, dep.spec), rel).version
BY DEF SolveDependency, Solution, Dep

(* A solution is the solver's own answer for its specification.            *)
IsAnswer(eco, s) ==
    s.spec # << >> /\ eco # "maven" =>
        /\ s.releases \in Seq(Versioned)
        /\ s.version = SolveDependency(eco, Dep(s.name, s.spec), s.releases).version

(* What Solver.solve returns for one dependency is an answer.              *)
LEMMA SolvedIsAnswer ==
    ASSUME NEW eco, NEW dep, NEW rel \in Seq(Versioned)
    PROVE  IsAnswer(eco, SolveDependency(eco, dep, rel))
BY SolutionParts DEF IsAnswer

(* What the snapshot makes of a dependency that it has a version for, or   *)
(* that it asks for one.                                                   *)
LEMMA GivenIsAnswer ==
    ASSUME NEW given, NEW raw, NEW spec, NEW rel,
           rel \in {Raised, RaisedValue} \/ rel \in Seq(Versioned),
           ResolveGiven(given, raw, spec, rel) \notin Problems
    PROVE  LET s == ResolveGiven(given, raw, spec, rel)
           IN  s.version # NoVersion /\ s.spec \in {<< >>, spec}
<1> DEFINE s == ResolveGiven(given, raw, spec, rel)
           V == Versioned
<1>1. NoVersion \notin V
  BY DEF Versioned
<1>2. Problem("failed") \in Problems /\ Problem("error") \in Problems
  BY DEF Problems
<1>3. s = IF given # NoVersion THEN Solution(raw.name, << >>, << >>, given)
          ELSE IF rel \in {Raised, << >>} THEN Problem("failed")
          ELSE IF rel = RaisedValue THEN Problem("error")
          ELSE Solution(raw.name, spec, rel, rel[1])
  BY DEF ResolveGiven
<1> HIDE DEF V, s
<1>4. CASE given # NoVersion
  <2>1. s.version = given /\ s.spec = << >>
    BY <1>3, <1>4 DEF Solution
  <2> QED BY <1>4, <2>1 DEF s
<1>5. CASE given = NoVersion
  <2>1. rel \notin {Raised, << >>} /\ rel # RaisedValue
    BY <1>2, <1>3, <1>5 DEF s
  <2>2. rel \in Seq(V) /\ rel # << >>
    BY <2>1 DEF V
  <2>3. rel[1] \in V
    BY <2>2
  <2>4. s.version = rel[1] /\ s.spec = spec
    BY <1>3, <1>5, <2>1 DEF Solution
  <2> QED BY <1>1, <2>3, <2>4 DEF s
<1> QED BY <1>4, <1>5

(* A solution of the snapshot is an answer, and has a version unless it is *)
(* of a link that stands alone.                                            *)
LEMMA ResolvedIsAnswer ==
    ASSUME NEW man \in Manifests, NEW i \in DOMAIN man.raws, NEW reply \in Replies,
           ResolveDependency(man.eco, man.raws[i], FetchReleases(man.eco, reply)) \notin Problems
    PROVE  LET s == ResolveDependency(man.eco, man.raws[i], FetchReleases(man.eco, reply))
           IN  /\ s.version = NoVersion => man.raws[i].link = "bare" /\ s.name = man.raws[i].name
               /\ IsAnswer(man.eco, s)
<1> DEFINE eco == man.eco
           raw == man.raws[i]
           rel == FetchReleases(eco, reply)
           s   == ResolveDependency(eco, raw, rel)
<1>1. rel \in {Raised, RaisedValue} \/ rel \in Seq(Versioned)
  BY FetchedAreListed
<1>2. s \notin Problems
  OBVIOUS
<1>3. Problem("failed") \in Problems /\ Problem("error") \in Problems
  BY DEF Problems
<1>4. raw.link \in {"", "version", "bare"}
  BY SolverAssumption
<1> SUFFICES /\ s.version = NoVersion => raw.link = "bare" /\ s.name = raw.name
             /\ IsAnswer(eco, s)
  OBVIOUS
<1> HIDE DEF raw, rel, eco
<1>5. CASE raw.link = "version"
  <2>1. s = Solution(raw.name, << >>, << >>, LinkVersion)
    BY <1>5 DEF ResolveDependency
  <2>2. s.spec = << >> /\ s.version = LinkVersion
    BY <2>1 DEF Solution
  <2>3. LinkVersion # NoVersion
    BY DEF LinkVersion, NoVersion
  <2> QED BY <2>2, <2>3 DEF IsAnswer
<1>6. CASE raw.link = "bare"
  <2>1. s = Solution(raw.name, << >>, << >>, NoVersion)
    BY <1>6 DEF ResolveDependency
  <2>2. s.spec = << >> /\ s.name = raw.name
    BY <2>1 DEF Solution
  <2> QED BY <1>6, <2>2 DEF IsAnswer
<1>7. CASE raw.link = "" /\ eco = "go"
  <2>1. s = ResolveGiven(raw.range, raw, << >>, rel)
    BY <1>7 DEF ResolveDependency
  <2> HIDE DEF s
  <2>2. s.version # NoVersion /\ s.spec = << >>
    BY <1>1, <1>2, <2>1, GivenIsAnswer
  <2> QED BY <2>2 DEF IsAnswer
<1>8. CASE raw.link = "" /\ eco = "maven"
  <2> DEFINE given == IF raw.range[1].op = "" THEN raw.range[1].ver ELSE NoVersion
  <2>1. s = ResolveGiven(given, raw, <<raw.range>>, rel)
    BY <1>8 DEF ResolveDependency
  <2> HIDE DEF s, given
  <2>2. s.version # NoVersion
    BY <1>1, <1>2, <2>1, GivenIsAnswer
  <2> QED BY <1>8, <2>2 DEF IsAnswer
<1>9. CASE raw.link = "" /\ eco \notin {"go", "maven"}
  <2> DEFINE deps == DependencyParser(eco, <<raw>>)
             t    == SolveDependency(eco, deps[1], rel)
  <2>1. s = ResolveParsed(eco, deps, rel)
    BY <1>9 DEF ResolveDependency
  <2> HIDE DEF s, deps
  <2>2. s = t /\ t.version # NoVersion /\ rel \notin {Raised, RaisedValue}
    BY <1>2, <1>3, <2>1 DEF ResolveParsed
  <2>3. IsAnswer(eco, t)
    BY <1>1, <2>2, SolvedIsAnswer
  <2> QED BY <2>2, <2>3
<1> QED BY <1>4, <1>5, <1>6, <1>7, <1>8, <1>9

(* The parsers of the ecosystems that the aggregator solves make a list.   *)
LEMMA ParsedIsList ==
    ASSUME NEW man \in Manifests, man.eco \in {"npm", "pypi", "nuget"}
    PROVE  \E n \in Nat : DOMAIN DependencyParser(man.eco, man.raws) = 1..n
<1> DEFINE raws == man.raws
           T == {i \in DOMAIN raws : raws[i].range # << >>}
<1>1. Len(raws) \in Nat /\ DOMAIN raws = 1..Len(raws)
  BY SolverAssumption
<1>2. CASE man.eco = "npm"
  <2>1. DependencyParser(man.eco, raws) = ParseNpm(raws)
    BY <1>2 DEF DependencyParser
  <2>2. DOMAIN ParseNpm(raws) = DOMAIN Picked(raws, T)
    BY DEF ParseNpm
  <2>3. T \in SUBSET (1..Len(raws))
    BY <1>1
  <2> HIDE DEF T
  <2>4. DOMAIN Picked(raws, T) = 1..Cardinality(T) /\ Cardinality(T) \in Nat
    BY <1>1, <2>3, PickedIsThere
  <2> QED BY <2>1, <2>2, <2>4
<1>3. CASE man.eco = "pypi"
  <2>1. DependencyParser(man.eco, raws) = ParsePypi(raws)
    BY <1>3 DEF DependencyParser
  <2>2. DOMAIN ParsePypi(raws) = DOMAIN raws
    BY DEF ParsePypi
  <2> QED BY <1>1, <2>1, <2>2
<1>4. CASE man.eco = "nuget"
  <2>1. DependencyParser(man.eco, raws) = ParseNuget(raws)
    BY <1>4 DEF DependencyParser
  <2>2. DOMAIN ParseNuget(raws) = DOMAIN raws
    BY DEF ParseNuget
  <2> QED BY <1>1, <2>1, <2>2
<1> QED BY <1>2, <1>3, <1>4
-----------------------------------------------------------------------------
NameOf(eco, deps, i) == FetchedName(eco, deps[i].name)

OwnNames(deps, eco) == \A i, j \in DOMAIN deps : NameOf(eco, deps, i) = NameOf(eco, deps, j) => i = j

(* A range is read as a dependency of the name before it, or as a problem. *)
LEMMA RangeKeepsName ==
    ASSUME NEW name, NEW r
    PROVE  \/ NugetRange(name, r) \in {NoBranch, BadRange}
           \/ NugetRange(name, r).name = name
<1> DEFINE lo == r.lo # << >>  hi == r.hi # << >>  form == <<r.open, r.close>>
           d == NugetRange(name, r)
<1>1. \A cons : Dep(name, <<cons>>).name = name
  BY DEF Dep
<1>2. CASE form = <<"", "">>
  <2>1. \E cons : d = Dep(name, <<cons>>)
    BY <1>2 DEF NugetRange
  <2> QED BY <1>1, <2>1
<1>3. CASE form = <<"[", "]">>
  <2>1. d = NoBranch \/ \E cons : d = Dep(name, <<cons>>)
    BY <1>3 DEF NugetRange
  <2> QED BY <1>1, <2>1
<1>4. CASE form = <<"(", ")">>
  <2>1. d \in {NoBranch, BadRange} \/ \E cons : d = Dep(name, <<cons>>)
    BY <1>4 DEF NugetRange
  <2> QED BY <1>1, <2>1
<1>5. CASE form = <<"[", ")">>
  <2>1. d = NoBranch \/ \E cons : d = Dep(name, <<cons>>)
    BY <1>5 DEF NugetRange
  <2> QED BY <1>1, <2>1
<1>6. CASE form = <<"(", "]">>
  <2>1. d = NoBranch \/ \E cons : d = Dep(name, <<cons>>)
    BY <1>6 DEF NugetRange
  <2> QED BY <1>1, <2>1
<1>7. CASE form \notin {<<"", "">>, <<"[", "]">>, <<"(", ")">>, <<"[", ")">>, <<"(", "]">>}
  <2>1. d = NoBranch
    BY <1>7 DEF NugetRange
  <2> QED BY <2>1
<1> QED BY <1>2, <1>3, <1>4, <1>5, <1>6, <1>7

(* A nuget range that repeats the dependency before it repeats its name.   *)
LEMMA NugetNames ==
    ASSUME NEW raws, NEW n \in Nat, DOMAIN raws = 1..n,
           \A i \in 1..n : ParseNuget(raws)[i] \notin ParseErrors,
           OwnNames(ParseNuget(raws), "nuget")
    PROVE  \A i \in 1..n : ParseNuget(raws)[i].name = raws[i].name
<1> DEFINE deps == ParseNuget(raws)
           Ranged(j) == NugetRange(raws[j].name, raws[j].range)
           known(i)  == {j \in 1..i : Ranged(j) # NoBranch}
<1>1. DOMAIN deps = 1..n /\ \A i \in 1..n : deps[i] = IF known(i) = {} THEN Unbound ELSE Ranged(LastOf(known(i)))
  BY DEF ParseNuget
<1> SUFFICES ASSUME NEW i \in 1..n PROVE deps[i].name = raws[i].name
  OBVIOUS
<1>2. known(i) # {} /\ Unbound \in ParseErrors /\ BadRange \in ParseErrors
  BY <1>1 DEF ParseErrors
<1> DEFINE l == LastOf(known(i))
<1>3. l \in known(i) /\ \A j \in known(i) : j <= l
  <2>1. i \in Nat /\ known(i) \in SUBSET (1..i)
    OBVIOUS
  <2> HIDE DEF known
  <2> QED BY <1>2, <2>1, LastIsGreatest
<1>4. deps[i] = Ranged(l)
  BY <1>1, <1>2
<1> HIDE DEF l
<1>5. l \in 1..n /\ l \in 1..i /\ Ranged(l) # NoBranch
  BY <1>3
<1>6. LastOf(known(l)) = l /\ known(l) # {}
  <2>1. l \in known(l) /\ l \in Nat /\ known(l) \in SUBSET (1..l)
    BY <1>5
  <2>2. LastOf(known(l)) \in known(l) /\ \A j \in known(l) : j <= LastOf(known(l))
    <3> HIDE DEF known
    <3> QED BY <2>1, LastIsGreatest
  <2>3. LastOf(known(l)) \in 1..l /\ l <= LastOf(known(l))
    BY <2>1, <2>2
  <2> HIDE DEF known
  <2> QED BY <2>1, <2>3
<1>7. deps[l] = Ranged(l)
  BY <1>1, <1>5, <1>6
<1>8. i = l
  <2>1. NameOf("nuget", deps, i) = NameOf("nuget", deps, l)
    BY <1>4, <1>7 DEF NameOf
  <2> HIDE DEF deps, known
  <2> QED BY <1>1, <1>5, <2>1 DEF OwnNames, deps
<1>9. deps[l] \notin {NoBranch, BadRange}
  BY <1>2, <1>5, <1>7
<1> HIDE DEF deps
<1> QED BY <1>7, <1>8, <1>9, RangeKeepsName

(* Dependencies that all parsed, with a name each, are those of the        *)
(* manifest.                                                               *)
LEMMA AllAreNamed ==
    ASSUME NEW man \in Manifests, man.eco \in {"npm", "pypi", "nuget"},
           \A i \in DOMAIN DependencyParser(man.eco, man.raws) : DependencyParser(man.eco, man.raws)[i] \notin ParseErrors,
           OwnNames(DependencyParser(man.eco, man.raws), man.eco)
    PROVE  LET deps == DependencyParser(man.eco, man.raws)
           IN  {NameOf(man.eco, deps, i) : i \in DOMAIN deps}
                  = {FetchedName(man.eco, man.raws[i].name) :
                        i \in {j \in DOMAIN man.raws : man.eco = "npm" => man.raws[j].range # << >>}}
<1> DEFINE eco  == man.eco
           raws == man.raws
           deps == DependencyParser(eco, raws)
           T == {i \in DOMAIN raws : raws[i].range # << >>}
           U == {j \in DOMAIN raws : eco = "npm" => raws[j].range # << >>}
<1>0. \A name, spec : Dep(name, spec).name = name
  BY DEF Dep
<1>1. Len(raws) \in Nat /\ DOMAIN raws = 1..Len(raws)
  BY SolverAssumption
<1>2. CASE eco = "npm"
  <2> DEFINE g == Picked(raws, T)
  <2>1. deps = ParseNpm(raws)
    BY <1>2 DEF DependencyParser
  <2>2. DOMAIN deps = DOMAIN g /\ \A i \in DOMAIN g : deps[i].name = g[i].name
    <3>1. DOMAIN deps = DOMAIN g
      BY <2>1 DEF ParseNpm
    <3>2. \A i \in DOMAIN g : \E spec : deps[i] = Dep(g[i].name, spec)
      BY <2>1 DEF ParseNpm
    <3> QED BY <1>0, <3>1, <3>2
  <2>3. T \in SUBSET (1..Len(raws)) /\ U = T
    BY <1>1, <1>2
  <2> HIDE DEF T, deps, U
  <2>4. /\ DOMAIN g = 1..Cardinality(T)
        /\ \A k \in 1..Cardinality(T) : \E i \in T : g[k] = raws[i]
        /\ \A i \in T : \E k \in 1..Cardinality(T) : g[k] = raws[i]
    BY <1>1, <2>3, PickedIsThere
  <2> HIDE DEF g, raws, eco
  <2>5. \A k \in DOMAIN deps : \E i \in T : NameOf(eco, deps, k) = FetchedName(eco, raws[i].name)
    BY <2>2, <2>4 DEF NameOf
  <2>6. \A i \in T : \E k \in DOMAIN deps : NameOf(eco, deps, k) = FetchedName(eco, raws[i].name)
    BY <2>2, <2>4 DEF NameOf
  <2>7. {NameOf(eco, deps, i) : i \in DOMAIN deps} = {FetchedName(eco, raws[i].name) : i \in U}
    BY <2>3, <2>5, <2>6
  <2> QED BY <2>7 DEF eco, raws, deps, U
<1>3. CASE eco # "npm"
  <2>1. DOMAIN deps = DOMAIN raws /\ \A i \in DOMAIN raws : deps[i].name = raws[i].name
    <3>1. CASE eco = "pypi"
      <4>1. deps = ParsePypi(raws)
        BY <3>1 DEF DependencyParser
      <4>2. DOMAIN deps = DOMAIN raws
        BY <4>1 DEF ParsePypi
      <4>3. \A i \in DOMAIN raws : \E spec : deps[i] = Dep(raws[i].name, spec)
        BY <4>1 DEF ParsePypi
      <4> QED BY <1>0, <4>2, <4>3
    <3>2. CASE eco = "nuget"
      <4>1. deps = ParseNuget(raws) /\ DOMAIN deps = DOMAIN raws
        BY <3>2 DEF DependencyParser, ParseNuget
      <4>2. (\A i \in DOMAIN deps : deps[i] \notin ParseErrors) /\ OwnNames(deps, "nuget")
        BY <3>2
      <4> DEFINE n == Len(raws)
      <4>3. n \in Nat /\ DOMAIN raws = 1..n
        BY <1>1
      <4> HIDE DEF raws, deps, n
      <4>4. \A i \in 1..n : ParseNuget(raws)[i].name = raws[i].name
        BY <4>1, <4>2, <4>3, NugetNames
      <4> QED BY <4>1, <4>3, <4>4
    <3> QED BY <1>3, <3>1, <3>2
  <2>2. U = DOMAIN raws
    BY <1>3
  <2> HIDE DEF deps, raws, eco, U
  <2>3. {NameOf(eco, deps, i) : i \in DOMAIN deps} = {FetchedName(eco, raws[i].name) : i \in U}
    BY <2>1, <2>2 DEF NameOf
  <2> QED BY <2>3 DEF eco, raws, deps, U
<1> QED BY <1>2, <1>3
-----------------------------------------------------------------------------
Deps == DependencyParser(sManifest.eco, sManifest.raws)

SolverShape ==
    /\ IsSequence(sSolved) /\ sTask \in {"none", "aggregator", "snapshot"}
    /\ sTask = "none" => sSolved = << >> /\ sOutcome = "running"
    /\ sTask # "none" => sManifest \in Manifests

AnswersAreBest == \A i \in DOMAIN sSolved : IsAnswer(sManifest.eco, sSolved[i])

(* The answers so far are those of the dependencies done, of distinct      *)
(* names.                                                                  *)
AggregatorInv ==
    sTask = "aggregator" =>
        /\ sManifest.eco \in {"npm", "pypi", "nuget"}
        /\ sOutcome = "success" => sTodo = {}
        /\ sOutcome \in {"running", "success"} =>
              /\ sTodo \subseteq DOMAIN Deps
              /\ \A i \in DOMAIN Deps : Deps[i] \notin ParseErrors
              /\ \A i, j \in DOMAIN sSolved : sSolved[i].name = sSolved[j].name => i = j
              /\ \A i, j \in (DOMAIN Deps) \ sTodo :
                    NameOf(sManifest.eco, Deps, i) = NameOf(sManifest.eco, Deps, j) => i = j
              /\ {sSolved[i].name : i \in DOMAIN sSolved}
                    = {NameOf(sManifest.eco, Deps, i) : i \in (DOMAIN Deps) \ sTodo}

LoneLinkIfNone(s) ==
    s.version = NoVersion =>
        \E j \in DOMAIN sManifest.raws : sManifest.raws[j].link = "bare" /\ sManifest.raws[j].name = s.name

SnapshotInv ==
    sTask = "snapshot" =>
        /\ sOutcome = "success" => sTodo = {}
        /\ sTodo \subseteq DOMAIN sManifest.raws
        /\ sOutcome \in {"running", "success"} => Len(sSolved) + Cardinality(sTodo) = Len(sManifest.raws)
        /\ sOutcome = "error" => Len(sSolved) + Cardinality(sTodo) < Len(sManifest.raws)
        /\ \A i \in DOMAIN sSolved : LoneLinkIfNone(sSolved[i])

SolverInv == SolverShape /\ AnswersAreBest /\ AggregatorInv /\ SnapshotInv

(* Before the first request the solver's invariant holds.                  *)
LEMMA SolverInvInit == SolverInit => SolverInv
<1> SUFFICES ASSUME SolverInit PROVE SolverInv
  OBVIOUS
<1>1. IsSequence(sSolved) /\ DOMAIN sSolved = {}
  <2>1. sSolved \in Seq({}) /\ DOMAIN sSolved = {}
    BY DEF SolverInit
  <2> QED BY <2>1 DEF IsSequence
<1> QED BY <1>1 DEF SolverInv, SolverInit, SolverShape, AnswersAreBest, AggregatorInv, SnapshotInv

(* The aggregator starts with every dependency of the manifest.            *)
LEMMA AggregatorStartKeepsInv ==
    ASSUME SolverInv, NEW man \in Manifests, AggregatorStart(man)
    PROVE  SolverInv'
<1> DEFINE deps == DependencyParser(man.eco, man.raws)
<1>1. /\ sTask = "none" /\ man.eco \in {"npm", "pypi", "nuget"}
      /\ sTask' = "aggregator" /\ sManifest' = man /\ sSolved' = sSolved
      /\ IF Unpackable(man) \/ \E i \in DOMAIN deps : deps[i] \in ParseErrors
         THEN sTodo' = {} /\ sOutcome' = "failed"
         ELSE sTodo' = DOMAIN deps /\ sOutcome' = sOutcome
  BY DEF AggregatorStart
<1>2. sSolved = << >> /\ sOutcome = "running" /\ IsSequence(sSolved) /\ DOMAIN sSolved = {}
  BY <1>1 DEF SolverInv, SolverShape
<1>3. Deps' = deps
  BY <1>1 DEF Deps
<1> HIDE DEF deps
<1>4. SolverShape'
  BY <1>1, <1>2 DEF SolverShape
<1>5. AnswersAreBest'
  BY <1>1, <1>2 DEF AnswersAreBest
<1>6. AggregatorInv'
  BY <1>1, <1>2, <1>3 DEF AggregatorInv
<1>7. SnapshotInv'
  BY <1>1 DEF SnapshotInv
<1> QED BY <1>4, <1>5, <1>6, <1>7 DEF SolverInv

(* The snapshot starts with every dependency of the manifest.              *)
LEMMA SnapshotStartKeepsInv ==
    ASSUME SolverInv, NEW man \in Manifests, SnapshotStart(man)
    PROVE  SolverInv'
<1>1. /\ sTask = "none" /\ sTask' = "snapshot" /\ sManifest' = man /\ sSolved' = sSolved
      /\ sTodo' = DOMAIN man.raws /\ sOutcome' = sOutcome
  BY DEF SnapshotStart
<1>2. sSolved = << >> /\ sOutcome = "running" /\ IsSequence(sSolved) /\ DOMAIN sSolved = {} /\ Len(sSolved) = 0
  BY <1>1 DEF SolverInv, SolverShape
<1>3. SolverShape'
  BY <1>1, <1>2 DEF SolverShape
<1>4. AnswersAreBest'
  BY <1>1, <1>2 DEF AnswersAreBest
<1>5. AggregatorInv'
  BY <1>1 DEF AggregatorInv
<1>6. SnapshotInv'
  <2> DEFINE n == Len(man.raws)
  <2>1. n \in Nat /\ DOMAIN man.raws = 1..n
    BY SolverAssumption
  <2> HIDE DEF n
  <2>2. 1 \in Int /\ n \in Int /\ (IF 1 > n THEN 0 ELSE n - 1 + 1) = n
    BY <2>1
  <2>3. Cardinality(1..n) = n
    BY <2>2, FS_Interval
  <2>4. Len(sSolved') + Cardinality(sTodo') = n
    BY <1>1, <1>2, <2>1, <2>3
  <2> QED BY <1>1, <1>2, <2>4 DEF SnapshotInv, n
<1> QED BY <1>3, <1>4, <1>5, <1>6 DEF SolverInv

(* The aggregator answers the next dependency or fails.                    *)
LEMMA AggregatorSolveKeepsInv ==
    ASSUME SolverInv, NEW reply \in Replies, AggregatorSolve(reply)
    PROVE  SolverInv'
<1> DEFINE eco == sManifest.eco
           rel == FetchReleases(eco, reply)
           f   == FirstOf(sTodo)
           s   == SolveDependency(eco, Deps[f], rel)
<1>1. /\ sTask = "aggregator" /\ sOutcome = "running" /\ sTodo # {}
      /\ sTodo' = sTodo \ {f} /\ sTask' = sTask /\ sManifest' = sManifest
      /\ IF rel \in {Raised, RaisedValue} \/ AlreadySolved(s.name)
         THEN sOutcome' = "failed" /\ sSolved' = sSolved
         ELSE sSolved' = Append(sSolved, s) /\ sOutcome' = sOutcome
  BY DEF AggregatorSolve, Deps
<1>2. /\ IsSequence(sSolved) /\ sManifest \in Manifests
      /\ AnswersAreBest /\ eco \in {"npm", "pypi", "nuget"}
      /\ sTodo \subseteq DOMAIN Deps
      /\ \A i \in DOMAIN Deps : Deps[i] \notin ParseErrors
      /\ \A i, j \in DOMAIN sSolved : sSolved[i].name = sSolved[j].name => i = j
      /\ \A i, j \in (DOMAIN Deps) \ sTodo : NameOf(eco, Deps, i) = NameOf(eco, Deps, j) => i = j
      /\ {sSolved[i].name : i \in DOMAIN sSolved} = {NameOf(eco, Deps, i) : i \in (DOMAIN Deps) \ sTodo}
  BY <1>1 DEF SolverInv, SolverShape, AggregatorInv
<1>3. f \in sTodo
  <2>1. sTodo \subseteq Nat
    BY <1>2, ParsedIsList DEF Deps
  <2> QED BY <1>1, <2>1, FirstIsLeast
<1>4. Deps' = Deps
  BY <1>1 DEF Deps
<1>5. SnapshotInv'
  BY <1>1 DEF SnapshotInv
<1>6. CASE rel \in {Raised, RaisedValue} \/ AlreadySolved(s.name)
  <2>1. sOutcome' = "failed" /\ sSolved' = sSolved
    BY <1>1, <1>6
  <2>2. SolverShape'
    BY <1>1, <1>2, <2>1 DEF SolverShape
  <2>3. AnswersAreBest'
    BY <1>1, <1>2, <2>1 DEF AnswersAreBest
  <2>4. AggregatorInv'
    BY <1>1, <1>2, <2>1 DEF AggregatorInv
  <2> QED BY <1>5, <2>2, <2>3, <2>4 DEF SolverInv
<1>7. CASE ~(rel \in {Raised, RaisedValue} \/ AlreadySolved(s.name))
  <2>1. sOutcome' = "running" /\ sSolved' = Append(sSolved, s) /\ rel \notin {Raised, RaisedValue}
    BY <1>1, <1>7
  <2>2. \A i \in DOMAIN sSolved : sSolved[i].name # s.name
    BY <1>7 DEF AlreadySolved
  <2>3. IsAnswer(eco, s)
    <3>1. rel \in Seq(Versioned)
      BY <2>1, FetchedAreListed
    <3> HIDE DEF rel
    <3> QED BY <3>1, SolvedIsAnswer
  <2>4. s.name = NameOf(eco, Deps, f)
    BY SolutionParts DEF NameOf
  <2> HIDE DEF s, rel, f, eco
  <2> DEFINE k == Len(sSolved) + 1
  <2>5. /\ IsSequence(sSolved') /\ k \in DOMAIN sSolved' /\ sSolved'[k] = s
        /\ \A i \in DOMAIN sSolved : i \in DOMAIN sSolved' /\ sSolved'[i] = sSolved[i]
        /\ \A i \in DOMAIN sSolved' : i \in DOMAIN sSolved \/ i = k
    <3>1. Len(sSolved) \in Nat /\ DOMAIN sSolved' = 1..(Len(sSolved) + 1)
      BY <1>2, <2>1, AppendGrows
    <3>2. k \in DOMAIN sSolved'
      BY <3>1
    <3> HIDE DEF k
    <3> QED BY <1>2, <2>1, <3>2, AppendGrows DEF k
  <2> HIDE DEF k
  <2>6. SolverShape'
    BY <1>1, <1>2, <2>5 DEF SolverShape
  <2>7. AnswersAreBest'
    BY <1>1, <1>2, <2>3, <2>5 DEF AnswersAreBest, eco
  <2>8. \A i, j \in DOMAIN sSolved' : sSolved'[i].name = sSolved'[j].name => i = j
    BY <1>2, <2>2, <2>5
  <2> DEFINE done == (DOMAIN Deps) \ sTodo
             done1 == (DOMAIN Deps) \ sTodo'
  <2>9. done1 = done \cup {f}
    BY <1>1, <1>2, <1>3
  <2>10. \A i \in done : \E j \in DOMAIN sSolved : sSolved[j].name = NameOf(eco, Deps, i)
    <3>1. \A i \in done : NameOf(eco, Deps, i) \in {sSolved[j].name : j \in DOMAIN sSolved}
      BY <1>2
    <3> QED BY <3>1
  <2>11. \A j \in DOMAIN sSolved : \E i \in done : sSolved[j].name = NameOf(eco, Deps, i)
    <3>1. \A j \in DOMAIN sSolved : sSolved[j].name \in {NameOf(eco, Deps, i) : i \in done}
      BY <1>2
    <3> QED BY <3>1
  <2>12. \A i, j \in done1 : NameOf(eco, Deps, i) = NameOf(eco, Deps, j) => i = j
    <3>1. \A i, j \in done : NameOf(eco, Deps, i) = NameOf(eco, Deps, j) => i = j
      BY <1>2
    <3>2. \A i \in done : NameOf(eco, Deps, i) # NameOf(eco, Deps, f)
      BY <2>2, <2>4, <2>10
    <3> HIDE DEF done, done1
    <3> QED BY <2>9, <3>1, <3>2
  <2>13. {sSolved'[i].name : i \in DOMAIN sSolved'} = {NameOf(eco, Deps, i) : i \in done1}
    <3> HIDE DEF done, done1
    <3>1. \A x \in DOMAIN sSolved' : \E i \in done1 : sSolved'[x].name = NameOf(eco, Deps, i)
      BY <2>4, <2>5, <2>9, <2>11
    <3>2. \A i \in done1 : \E x \in DOMAIN sSolved' : sSolved'[x].name = NameOf(eco, Deps, i)
      BY <2>4, <2>5, <2>9, <2>10
    <3> QED BY <3>1, <3>2
  <2>14. AggregatorInv'
    <3>1. sTodo' \subseteq DOMAIN Deps
      BY <1>1, <1>2
    <3>2. sManifest'.eco = eco /\ Deps' = Deps /\ (DOMAIN Deps') \ sTodo' = done1
      BY <1>1, <1>4 DEF eco
    <3>3. \A x, y \in (DOMAIN Deps') \ sTodo' :
             NameOf(sManifest'.eco, Deps', x) = NameOf(sManifest'.eco, Deps', y) => x = y
      BY <2>12, <3>2, Zenon
    <3>4. {sSolved'[x].name : x \in DOMAIN sSolved'}
             = {NameOf(sManifest'.eco, Deps', x) : x \in (DOMAIN Deps') \ sTodo'}
      BY <2>13, <3>2, Zenon
    <3>5. /\ sTodo' \subseteq DOMAIN Deps' /\ sOutcome' # "success" /\ sManifest'.eco \in {"npm", "pypi", "nuget"}
          /\ \A x \in DOMAIN Deps' : Deps'[x] \notin ParseErrors
      BY <1>2, <2>1, <3>1, <3>2
    <3> QED BY <2>8, <3>3, <3>4, <3>5, Zenon DEF AggregatorInv
  <2> QED BY <1>5, <2>6, <2>7, <2>14 DEF SolverInv
<1> QED BY <1>6, <1>7

(* The snapshot answers a dependency or fails.                             *)
LEMMA SnapshotResolveKeepsInv ==
    ASSUME SolverInv, NEW reply \in Replies, NEW i \in sTodo, SnapshotResolve(i, reply)
    PROVE  SolverInv'
<1> DEFINE s == ResolveDependency(sManifest.eco, sManifest.raws[i], FetchReleases(sManifest.eco, reply))
           raws == sManifest.raws
<1>1. /\ sTask = "snapshot" /\ sOutcome = "running" /\ i \in sTodo
      /\ sTodo' = sTodo \ {i} /\ sTask' = sTask /\ sManifest' = sManifest
      /\ IF s \in Problems THEN sOutcome' = s.name /\ sSolved' = sSolved
         ELSE sSolved' = Append(sSolved, s) /\ sOutcome' = sOutcome
  BY DEF SnapshotResolve
<1>2. /\ IsSequence(sSolved) /\ sManifest \in Manifests
      /\ AnswersAreBest /\ sTodo \subseteq DOMAIN raws
      /\ Len(sSolved) + Cardinality(sTodo) = Len(raws)
      /\ \A j \in DOMAIN sSolved : LoneLinkIfNone(sSolved[j])
  BY <1>1 DEF SolverInv, SolverShape, SnapshotInv
<1>3. s \notin Problems => LoneLinkIfNone(s) /\ IsAnswer(sManifest.eco, s)
  <2>1. i \in DOMAIN sManifest.raws
    BY <1>2
  <2> QED BY <1>2, <2>1, ResolvedIsAnswer DEF LoneLinkIfNone
<1>4. s \in Problems => s.name \in {"error", "failed"}
  BY DEF Problems, Problem, Solution
<1>5. /\ IsFiniteSet(sTodo) /\ Cardinality(sTodo) \in Nat /\ Len(raws) \in Nat
      /\ Cardinality(sTodo') = Cardinality(sTodo) - 1
  <2>1. Len(raws) \in Nat /\ DOMAIN raws = 1..Len(raws)
    BY <1>2, SolverAssumption
  <2> HIDE DEF raws
  <2>2. IsFiniteSet(sTodo) /\ Cardinality(sTodo) \in Nat
    BY <1>2, <2>1, PositionsAreOrdered
  <2> QED BY <1>1, <2>1, <2>2, FS_RemoveElement
<1>6. AggregatorInv'
  BY <1>1 DEF AggregatorInv
<1> HIDE DEF s
<1>7. CASE s \in Problems
  <2>1. sOutcome' \in {"error", "failed"} /\ sSolved' = sSolved
    BY <1>1, <1>4, <1>7
  <2>2. SolverShape'
    BY <1>1, <1>2, <2>1 DEF SolverShape
  <2>3. AnswersAreBest'
    BY <1>1, <1>2, <2>1 DEF AnswersAreBest
  <2>4. Len(sSolved') + Cardinality(sTodo') < Len(raws)
    <3>1. Len(sSolved) \in Nat
      BY <1>2, AppendGrows
    <3> HIDE DEF raws
    <3> QED BY <1>2, <1>5, <2>1, <3>1
  <2>5. SnapshotInv'
    BY <1>1, <1>2, <2>1, <2>4 DEF SnapshotInv, LoneLinkIfNone
  <2> QED BY <1>6, <2>2, <2>3, <2>5 DEF SolverInv
<1>8. CASE s \notin Problems
  <2>1. sOutcome' = "running" /\ sSolved' = Append(sSolved, s)
    BY <1>1, <1>8
  <2> DEFINE k == Len(sSolved) + 1
  <2>2. /\ Len(sSolved) \in Nat /\ Len(sSolved') = Len(sSolved) + 1
        /\ IsSequence(sSolved') /\ sSolved'[k] = s
        /\ \A j \in DOMAIN sSolved : j \in DOMAIN sSolved' /\ sSolved'[j] = sSolved[j]
        /\ \A j \in DOMAIN sSolved' : j \in DOMAIN sSolved \/ j = k
    BY <1>2, <2>1, AppendGrows
  <2> HIDE DEF k, raws
  <2>3. SolverShape'
    BY <1>1, <1>2, <2>2 DEF SolverShape
  <2>4. AnswersAreBest'
    BY <1>1, <1>2, <1>3, <1>8, <2>2 DEF AnswersAreBest
  <2>5. Len(sSolved') + Cardinality(sTodo') = Len(raws)
    BY <1>2, <1>5, <2>2
  <2>6. \A j \in DOMAIN sSolved' : LoneLinkIfNone(sSolved[j])'
    <3>1. sManifest' = sManifest
      BY <1>1
    <3> QED BY <1>2, <1>3, <1>8, <2>2, <3>1 DEF LoneLinkIfNone
  <2>7. SnapshotInv'
    BY <1>1, <1>2, <2>1, <2>5, <2>6 DEF SnapshotInv, raws
  <2> QED BY <1>6, <2>3, <2>4, <2>7 DEF SolverInv
<1> QED BY <1>7, <1>8

(* A request that is done changes no answer.                               *)
LEMMA DoneKeepsInv ==
    ASSUME SolverInv, AggregatorDone \/ SnapshotDone \/ UNCHANGED solverVars
    PROVE  SolverInv'
<1>1. ASSUME sTask' = sTask, sManifest' = sManifest, sSolved' = sSolved, sTodo' = sTodo
      PROVE  /\ Deps' = Deps
             /\ AnswersAreBest' = AnswersAreBest
             /\ (SolverShape /\ sTask # "none" => SolverShape')
  BY <1>1 DEF Deps, AnswersAreBest, SolverShape
<1>5. ASSUME sManifest' = sManifest, sSolved' = sSolved, sTodo' = sTodo, Deps' = Deps,
             sTask = "aggregator", sOutcome \in {"running", "success"},
             sOutcome' \in {"running", "success"}, sOutcome' = "success" => sTodo = {}
      PROVE  AggregatorInv'
  <2>1. /\ sManifest.eco \in {"npm", "pypi", "nuget"} /\ sTodo \subseteq DOMAIN Deps
        /\ \A i \in DOMAIN Deps : Deps[i] \notin ParseErrors
        /\ \A i, j \in DOMAIN sSolved : sSolved[i].name = sSolved[j].name => i = j
        /\ \A i, j \in (DOMAIN Deps) \ sTodo :
              NameOf(sManifest.eco, Deps, i) = NameOf(sManifest.eco, Deps, j) => i = j
        /\ {sSolved[i].name : i \in DOMAIN sSolved}
              = {NameOf(sManifest.eco, Deps, i) : i \in (DOMAIN Deps) \ sTodo}
    BY <1>5 DEF SolverInv, AggregatorInv
  <2>2. /\ sManifest'.eco \in {"npm", "pypi", "nuget"} /\ sTodo' \subseteq DOMAIN Deps'
        /\ \A i \in DOMAIN Deps' : Deps'[i] \notin ParseErrors
        /\ \A i, j \in DOMAIN sSolved' : sSolved'[i].name = sSolved'[j].name => i = j
        /\ sOutcome' = "success" => sTodo' = {}
    BY <1>5, <2>1
  <2>3. \A i, j \in (DOMAIN Deps') \ sTodo' :
           NameOf(sManifest'.eco, Deps', i) = NameOf(sManifest'.eco, Deps', j) => i = j
    BY <1>5, <2>1
  <2>4. {sSolved'[i].name : i \in DOMAIN sSolved'}
           = {NameOf(sManifest'.eco, Deps', i) : i \in (DOMAIN Deps') \ sTodo'}
    BY <1>5, <2>1
  <2> QED BY <2>2, <2>3, <2>4, Zenon DEF AggregatorInv
<1>2. CASE UNCHANGED solverVars
  <2>1. sTask' = sTask /\ sManifest' = sManifest /\ sSolved' = sSolved /\ sTodo' = sTodo /\ sOutcome' = sOutcome
    BY <1>2 DEF solverVars
  <2>2. SolverShape' /\ AnswersAreBest'
    BY <1>1, <2>1 DEF SolverInv, SolverShape
  <2>3. AggregatorInv'
    <3>1. CASE sTask = "aggregator" /\ sOutcome \in {"running", "success"}
      <4>1. sOutcome' = "success" => sTodo = {}
        BY <2>1, <3>1 DEF SolverInv, AggregatorInv
      <4>2. Deps' = Deps
        BY <1>1, <2>1
      <4> QED BY <1>5, <2>1, <3>1, <4>1, <4>2
    <3>2. CASE sTask = "aggregator" /\ sOutcome \notin {"running", "success"}
      BY <2>1, <3>2 DEF SolverInv, AggregatorInv
    <3>3. CASE sTask # "aggregator"
      BY <2>1, <3>3 DEF AggregatorInv
    <3> QED BY <3>1, <3>2, <3>3
  <2>4. SnapshotInv'
    BY <2>1 DEF SolverInv, SnapshotInv, LoneLinkIfNone
  <2> QED BY <2>2, <2>3, <2>4 DEF SolverInv
<1>3. CASE AggregatorDone
  <2>1. sTask = "aggregator" /\ sOutcome = "running" /\ sTodo = {} /\ sOutcome' = "success"
        /\ sTask' = sTask /\ sManifest' = sManifest /\ sTodo' = sTodo /\ sSolved' = sSolved
    BY <1>3 DEF AggregatorDone
  <2>2. SolverShape' /\ AnswersAreBest' /\ Deps' = Deps
    BY <1>1, <2>1 DEF SolverInv
  <2>3. SnapshotInv'
    BY <2>1 DEF SnapshotInv
  <2>4. AggregatorInv'
    BY <1>5, <2>1, <2>2
  <2> QED BY <2>2, <2>3, <2>4 DEF SolverInv
<1>4. CASE SnapshotDone
  <2>1. sTask = "snapshot" /\ sOutcome = "running" /\ sTodo = {} /\ sOutcome' = "success"
        /\ sTask' = sTask /\ sManifest' = sManifest /\ sTodo' = sTodo /\ sSolved' = sSolved
    BY <1>4 DEF SnapshotDone
  <2>2. SolverShape' /\ AnswersAreBest'
    BY <1>1, <2>1 DEF SolverInv
  <2>3. AggregatorInv'
    BY <2>1 DEF AggregatorInv
  <2>4. SnapshotInv'
    BY <2>1 DEF SolverInv, SnapshotInv, LoneLinkIfNone
  <2> QED BY <2>2, <2>3, <2>4 DEF SolverInv
<1> QED BY <1>2, <1>3, <1>4

(* What is solved answers dependencies of the manifest, in the aggregator  *)
(* each of them once.                                                      *)
THEOREM SolverInvariant == SolverSpec => []SolverInv
<1>1. SolverInv /\ [SolverNext]_solverVars => SolverInv'
  <2> SUFFICES ASSUME SolverInv, [SolverNext]_solverVars PROVE SolverInv'
    OBVIOUS
  <2> QED BY AggregatorStartKeepsInv, SnapshotStartKeepsInv, AggregatorSolveKeepsInv,
             SnapshotResolveKeepsInv, DoneKeepsInv DEF SolverNext
<1> QED BY SolverInvInit, <1>1, PTL DEF SolverSpec
-----------------------------------------------------------------------------
(* No version that matches the specification would be preferred to the one *)
(* that was solved.                                                        *)
LEMMA BestIsNotBeaten == SolverInv => SolvedIsBest
<1> SUFFICES ASSUME SolverInv, NEW i \in DOMAIN sSolved,
                    sSolved[i].spec # << >>, sManifest.eco # "maven"
             PROVE  LET s == sSolved[i]
                        matching == {s.releases[j] : j \in {k \in DOMAIN s.releases : check(s.releases[k], s.spec)}}
                        BeatsIt(v, w) == compare_version(v, w) = IF HighestWins(sManifest.eco) THEN 1 ELSE -1
                    IN  IF s.version = NoVersion THEN matching = {}
                        ELSE s.version \in matching /\ \A v \in matching : ~BeatsIt(v, s.version)
  BY DEF SolvedIsBest
<1> DEFINE s   == sSolved[i]
           eco == sManifest.eco
           T   == Matching(s.spec, s.releases)
           matching == {s.releases[j] : j \in T}
<1>1. s.releases \in Seq(Versioned) /\ s.version = SolveDependency(eco, Dep(s.name, s.spec), s.releases).version
  BY DEF SolverInv, AnswersAreBest, IsAnswer
<1>2. Dep(s.name, s.spec).spec = s.spec
  BY DEF Dep
<1>3. matching = {s.releases[j] : j \in {k \in DOMAIN s.releases : check(s.releases[k], s.spec)}}
  BY DEF Matching
<1>4. \A j \in T : s.releases[j] \in Seq(Int)
  <2> HIDE DEF s
  <2> QED BY <1>1 DEF Versioned, Matching
<1> HIDE DEF s, eco, T
<1>5. /\ s.version = NoVersion <=> T = {}
      /\ s.version \in Seq(Int)
      /\ s.version # NoVersion => \E j \in T : s.version = s.releases[j]
      /\ s.version # NoVersion => \A j \in T :
             IF HighestWins(eco) THEN compare_version(s.releases[j], s.version) <= 0
                                 ELSE compare_version(s.version, s.releases[j]) <= 0
  <2> DEFINE dep == Dep(s.name, s.spec)
             q   == s.releases
             v   == SolveDependency(eco, dep, q).version
  <2>1. q \in Seq(Versioned) /\ dep.spec = s.spec /\ s.version = v
    BY <1>1, <1>2
  <2> HIDE DEF dep, q
  <2>2. /\ v = NoVersion <=> Matching(dep.spec, q) = {}
        /\ v \in Seq(Int)
        /\ v # NoVersion => \E j \in Matching(dep.spec, q) : v = q[j]
        /\ v # NoVersion => \A j \in Matching(dep.spec, q) :
               IF HighestWins(eco) THEN compare_version(q[j], v) <= 0 ELSE compare_version(v, q[j]) <= 0
    BY <2>1, SolveIsBest
  <2> HIDE DEF v
  <2> QED BY <2>1, <2>2 DEF T, q
<1>6. ASSUME s.version # NoVersion, NEW j \in T
      PROVE  ~(compare_version(s.releases[j], s.version) = IF HighestWins(eco) THEN 1 ELSE -1)
  <2> DEFINE c == compare_version(s.releases[j], s.version)
             d == compare_version(s.version, s.releases[j])
  <2>1. c \in Int /\ d \in Int /\ (c < 0 <=> d > 0)
    BY <1>4, <1>5, CompareBothWays
  <2>2. IF HighestWins(eco) THEN c <= 0 ELSE d <= 0
    BY <1>5, <1>6
  <2> HIDE DEF c, d
  <2>3. ~(c = IF HighestWins(eco) THEN 1 ELSE -1)
    BY <2>1, <2>2
  <2> QED BY <2>3 DEF c
<1>7. IF s.version = NoVersion THEN matching = {}
      ELSE /\ s.version \in matching
           /\ \A v \in matching : ~(compare_version(v, s.version) = IF HighestWins(eco) THEN 1 ELSE -1)
  BY <1>5, <1>6
<1> QED BY <1>3, <1>7 DEF s, eco

(* Two lists of the same releases have equally high best matches.          *)
LEMMA SameReleasesSameBest ==
    ASSUME NEW eco, NEW dep, NEW r \in Seq(Versioned), NEW q \in Seq(Versioned),
           {r[j] : j \in DOMAIN r} = {q[j] : j \in DOMAIN q}
    PROVE  compare_version(SolveDependency(eco, dep, r).version, SolveDependency(eco, dep, q).version) = 0
<1> DEFINE v == SolveDependency(eco, dep, r).version
           w == SolveDependency(eco, dep, q).version
           R == Matching(dep.spec, r)
           Q == Matching(dep.spec, q)
<1>1. \A j \in R : \E k \in Q : r[j] = q[k]
  <2>1. \A j \in DOMAIN r : r[j] \in {q[k] : k \in DOMAIN q}
    OBVIOUS
  <2> QED BY <2>1 DEF Matching
<1>2. \A k \in Q : \E j \in R : r[j] = q[k]
  <2>1. \A k \in DOMAIN q : q[k] \in {r[j] : j \in DOMAIN r}
    OBVIOUS
  <2> QED BY <2>1 DEF Matching
<1>3. /\ (v = NoVersion <=> R = {}) /\ v \in Seq(Int)
      /\ v # NoVersion => \E i \in R : v = r[i]
      /\ v # NoVersion => \A i \in R : IF HighestWins(eco) THEN compare_version(r[i], v) <= 0
                                                           ELSE compare_version(v, r[i]) <= 0
  BY SolveIsBest
<1>4. /\ (w = NoVersion <=> Q = {}) /\ w \in Seq(Int)
      /\ w # NoVersion => \E i \in Q : w = q[i]
      /\ w # NoVersion => \A i \in Q : IF HighestWins(eco) THEN compare_version(q[i], w) <= 0
                                                           ELSE compare_version(w, q[i]) <= 0
  BY SolveIsBest
<1> HIDE DEF v, w, R, Q
<1>5. CASE v = NoVersion
  <2>1. w = v
    BY <1>2, <1>3, <1>4, <1>5
  <2> QED BY <1>3, <2>1, CompareMeans DEF v, w
<1>6. CASE v # NoVersion
  <2>1. w # NoVersion
    BY <1>1, <1>3, <1>4, <1>6
  <2> DEFINE c == compare_version(v, w)
             d == compare_version(w, v)
  <2>2. c <= 0 /\ d <= 0
    BY <1>1, <1>2, <1>3, <1>4, <1>6, <2>1
  <2>3. c \in Int /\ d \in Int /\ (c < 0 <=> d > 0)
    BY <1>3, <1>4, CompareBothWays
  <2> HIDE DEF c, d
  <2>4. c = 0
    BY <2>2, <2>3
  <2> QED BY <2>4 DEF c, v, w
<1> QED BY <1>5, <1>6

(* The order in which the registry lists the versions does not matter.     *)
LEMMA BestWhateverTheOrder == SolverInv => SolvedWhateverTheOrder
<1> SUFFICES ASSUME SolverInv, NEW i \in DOMAIN sSolved, NEW rel \in Listings,
                    sSolved[i].spec # << >>, sManifest.eco # "maven",
                    {rel[j] : j \in DOMAIN rel} = {sSolved[i].releases[j] : j \in DOMAIN sSolved[i].releases}
             PROVE  compare_version(sSolved[i].version,
                        SolveDependency(sManifest.eco, Dep(sSolved[i].name, sSolved[i].spec), rel).version) = 0
  BY DEF SolvedWhateverTheOrder
<1> DEFINE s   == sSolved[i]
           eco == sManifest.eco
<1>1. s.releases \in Seq(Versioned) /\ s.version = SolveDependency(eco, Dep(s.name, s.spec), s.releases).version
  BY DEF SolverInv, AnswersAreBest, IsAnswer
<1>2. rel \in Seq(Versioned)
  BY SolverAssumption DEF Versioned
<1> DEFINE q == s.releases
<1>3. {q[j] : j \in DOMAIN q} = {rel[j] : j \in DOMAIN rel}
  OBVIOUS
<1> HIDE DEF q
<1>4. compare_version(SolveDependency(eco, Dep(s.name, s.spec), q).version,
                      SolveDependency(eco, Dep(s.name, s.spec), rel).version) = 0
  <2>1. q \in Seq(Versioned)
    BY <1>1 DEF q
  <2> QED BY <1>2, <1>3, <2>1, SameReleasesSameBest
<1> QED BY <1>1, <1>4 DEF q

(* The aggregator ends with an answer for every dependency.                *)
LEMMA AllAnswered == SolverInv => AggregatorAnswersAll
<1> SUFFICES ASSUME SolverInv, sTask = "aggregator", sOutcome = "success"
             PROVE  /\ \A i, j \in DOMAIN sSolved : sSolved[i].name = sSolved[j].name => i = j
                    /\ {sSolved[i].name : i \in DOMAIN sSolved}
                          = {FetchedName(sManifest.eco, sManifest.raws[i].name) :
                                i \in {j \in DOMAIN sManifest.raws :
                                          sManifest.eco = "npm" => sManifest.raws[j].range # << >>}}
  BY DEF AggregatorAnswersAll
<1>1. /\ sManifest \in Manifests /\ sManifest.eco \in {"npm", "pypi", "nuget"} /\ sTodo = {}
      /\ \A i \in DOMAIN Deps : Deps[i] \notin ParseErrors
      /\ \A i, j \in DOMAIN sSolved : sSolved[i].name = sSolved[j].name => i = j
      /\ \A i, j \in (DOMAIN Deps) \ sTodo :
            NameOf(sManifest.eco, Deps, i) = NameOf(sManifest.eco, Deps, j) => i = j
      /\ {sSolved[i].name : i \in DOMAIN sSolved}
            = {NameOf(sManifest.eco, Deps, i) : i \in (DOMAIN Deps) \ sTodo}
  BY DEF SolverInv, SolverShape, AggregatorInv
<1>2. (DOMAIN Deps) \ sTodo = DOMAIN Deps
  BY <1>1
<1>3. OwnNames(Deps, sManifest.eco)
  BY <1>1, <1>2 DEF OwnNames
<1>4. {NameOf(sManifest.eco, Deps, i) : i \in DOMAIN Deps}
          = {FetchedName(sManifest.eco, sManifest.raws[i].name) :
                i \in {j \in DOMAIN sManifest.raws : sManifest.eco = "npm" => sManifest.raws[j].range # << >>}}
  BY <1>1, <1>3, AllAreNamed DEF Deps
<1> QED BY <1>1, <1>2, <1>4

(* A snapshot that succeeds has a version for every dependency; one that   *)
(* reports an error misses some.                                           *)
LEMMA SnapshotIsComplete == SolverInv => SnapshotComplete
<1> SUFFICES ASSUME SolverInv, sTask = "snapshot"
             PROVE  /\ sOutcome = "success" => Len(sSolved) = Len(sManifest.raws)
                    /\ sOutcome = "error"   => Len(sSolved) < Len(sManifest.raws)
                    /\ \A i \in DOMAIN sSolved : LoneLinkIfNone(sSolved[i])
  BY DEF SnapshotComplete, LoneLinkIfNone
<1> DEFINE n == Len(sManifest.raws)
<1>1. /\ IsSequence(sSolved) /\ sManifest \in Manifests
      /\ sOutcome = "success" => sTodo = {}
      /\ sTodo \subseteq DOMAIN sManifest.raws
      /\ sOutcome \in {"running", "success"} => Len(sSolved) + Cardinality(sTodo) = n
      /\ sOutcome = "error" => Len(sSolved) + Cardinality(sTodo) < n
      /\ \A i \in DOMAIN sSolved : LoneLinkIfNone(sSolved[i])
  BY DEF SolverInv, SolverShape, SnapshotInv
<1>2. n \in Nat /\ DOMAIN sManifest.raws = 1..n
  BY <1>1, SolverAssumption
<1> HIDE DEF n
<1>3. Cardinality(sTodo) \in Nat /\ (sTodo = {} => Cardinality(sTodo) = 0)
  BY <1>1, <1>2, PositionsAreOrdered, FS_EmptySet
<1>4. Len(sSolved) \in Nat
  BY <1>1, AppendGrows
<1>5. (sOutcome = "success" => Len(sSolved) = n) /\ (sOutcome = "error" => Len(sSolved) < n)
  BY <1>1, <1>2, <1>3, <1>4
<1> QED BY <1>1, <1>5 DEF n

(* Every answer of a solver is a best match among the releases listed, for *)
(* any registry and whatever its order; an aggregator that succeeds        *)
(* answers each dependency of its manifest, a snapshot resolves them all.  *)
THEOREM SolvedAlwaysRight == SolverSpec => []SolvedRight
<1>1. SolverInv => SolvedRight
  BY BestIsNotBeaten, BestWhateverTheOrder, AllAnswered, SnapshotIsComplete DEF SolvedRight
<1> QED BY <1>1, SolverInvariant, PTL
-----------------------------------------------------------------------------
(* from_str by the number of parts.                                        *)
LEMMA PartsOfCoordinates ==
    ASSUME NEW s
    PROVE  /\ Len(s) = 2 => from_str(s) = Gav(s[1], s[2], "jar", "", "")
           /\ Len(s) = 3 => from_str(s) = Gav(s[1], s[2], "jar", "", s[3])
           /\ Len(s) = 4 => from_str(s) = Gav(s[1], s[2], OrJar(s[3]), "", s[4])
           /\ Len(s) = 5 => from_str(s) = Gav(s[1], s[2], OrJar(s[3]), s[4], s[5])
           /\ from_str(s) # NoCoordinates => Len(s) = 2 \/ Len(s) = 3 \/ Len(s) = 4 \/ Len(s) = 5
<1>1. Len(s) = 2 => from_str(s) = Gav(s[1], s[2], "jar", "", "")
  BY DEF from_str
<1>2. Len(s) = 3 => from_str(s) = Gav(s[1], s[2], "jar", "", s[3])
  BY DEF from_str
<1>3. Len(s) = 4 => from_str(s) = Gav(s[1], s[2], OrJar(s[3]), "", s[4])
  BY DEF from_str
<1>4. Len(s) = 5 => from_str(s) = Gav(s[1], s[2], OrJar(s[3]), s[4], s[5])
  BY DEF from_str
<1>5. from_str(s) # NoCoordinates => Len(s) = 2 \/ Len(s) = 3 \/ Len(s) = 4 \/ Len(s) = 5
  BY DEF from_str
<1> QED BY <1>1, <1>2, <1>3, <1>4, <1>5

(* Coordinates that were read are read back from their own string, and     *)
(* without a version when it is left out.                                  *)
LEMMA GavIsReadBack ==
    ASSUME NEW g, NEW a, NEW p, NEW c, NEW v, p # ""
    PROVE  /\ from_str(to_str(Gav(g, a, p, c, v), FALSE)) = Gav(g, a, p, c, v)
           /\ from_str(to_str(Gav(g, a, p, c, v), TRUE)) = Gav(g, a, p, c, "")
<1>1. ASSUME NEW omit \in BOOLEAN, NEW w, w = IF omit THEN "" ELSE v
      PROVE  from_str(to_str(Gav(g, a, p, c, v), omit)) = Gav(g, a, p, c, w)
  <2> DEFINE r == Gav(g, a, p, c, v)
  <2>1. r.groupId = g /\ r.artifactId = a /\ r.packaging = p /\ r.classifier = c /\ r.version = v
    BY DEF Gav
  <2> HIDE DEF r
  <2>2. CASE c # ""
    <3> DEFINE s == <<g, a, IF p = "jar" THEN "" ELSE p, c, w>>
    <3>1. to_str(r, omit) = s
      BY <1>1, <2>1, <2>2 DEF to_str
    <3>2. Len(s) = 5 /\ s[1] = g /\ s[2] = a /\ OrJar(s[3]) = p /\ s[4] = c /\ s[5] = w
      BY DEF OrJar
    <3> HIDE DEF s
    <3>3. from_str(s) = Gav(g, a, p, c, w)
      BY <3>2, PartsOfCoordinates
    <3> QED BY <3>1, <3>3 DEF r
  <2>3. CASE c = "" /\ p # "jar"
    <3> DEFINE s == <<g, a, p, w>>
    <3>1. to_str(r, omit) = s
      BY <1>1, <2>1, <2>3 DEF to_str
    <3>2. Len(s) = 4 /\ s[1] = g /\ s[2] = a /\ OrJar(s[3]) = p /\ s[4] = w
      BY DEF OrJar
    <3> HIDE DEF s
    <3>3. from_str(s) = Gav(g, a, p, c, w)
      BY <2>3, <3>2, PartsOfCoordinates
    <3> QED BY <3>1, <3>3 DEF r
  <2>4. CASE c = "" /\ p = "jar" /\ w # ""
    <3> DEFINE s == <<g, a, w>>
    <3>1. to_str(r, omit) = s
      BY <1>1, <2>1, <2>4 DEF to_str
    <3>2. Len(s) = 3 /\ s[1] = g /\ s[2] = a /\ s[3] = w
      OBVIOUS
    <3> HIDE DEF s
    <3>3. from_str(s) = Gav(g, a, p, c, w)
      BY <2>4, <3>2, PartsOfCoordinates
    <3> QED BY <3>1, <3>3 DEF r
  <2>5. CASE c = "" /\ p = "jar" /\ w = ""
    <3> DEFINE s == <<g, a>>
    <3>1. to_str(r, omit) = s
      BY <1>1, <2>1, <2>5 DEF to_str
    <3>2. Len(s) = 2 /\ s[1] = g /\ s[2] = a
      OBVIOUS
    <3> HIDE DEF s
    <3>3. from_str(s) = Gav(g, a, p, c, w)
      BY <2>5, <3>2, PartsOfCoordinates
    <3> QED BY <3>1, <3>3 DEF r
  <2> QED BY <2>2, <2>3, <2>4, <2>5
<1>2. from_str(to_str(Gav(g, a, p, c, v), FALSE)) = Gav(g, a, p, c, v)
  BY <1>1, Zenon
<1>3. from_str(to_str(Gav(g, a, p, c, v), TRUE)) = Gav(g, a, p, c, "")
  BY <1>1, Zenon
<1> QED BY <1>2, <1>3

(* Maven coordinates survive to_str and from_str.                          *)
LEMMA CoordinatesAreStable == NameInit => CoordinatesSurvive
<1> SUFFICES ASSUME NameInit, named.kind = "coordinates", from_str(named.of) # NoCoordinates
             PROVE  /\ from_str(normalize_str(named.of)) = from_str(named.of)
                    /\ LET c == from_str(named.of)
                       IN  from_str(to_str(c, TRUE)) = Gav(c.groupId, c.artifactId, c.packaging, c.classifier, "")
  BY DEF CoordinatesSurvive
<1> DEFINE s == named.of
<1> DEFINE r == from_str(s)
<1>1. r.packaging # "" /\ r = Gav(r.groupId, r.artifactId, r.packaging, r.classifier, r.version)
  <2>1. \A x : OrJar(x) # ""
    BY DEF OrJar
  <2>2. ASSUME NEW g, NEW a, NEW p, NEW c, NEW v, p # "", r = Gav(g, a, p, c, v)
        PROVE  r.packaging # "" /\ r = Gav(r.groupId, r.artifactId, r.packaging, r.classifier, r.version)
    <3> HIDE DEF r
    <3>1. r.groupId = g /\ r.artifactId = a /\ r.packaging = p /\ r.classifier = c /\ r.version = v
      BY <2>2 DEF Gav
    <3> QED BY <2>2, <3>1
  <2>3. CASE Len(s) = 2
    BY <2>2, <2>3, PartsOfCoordinates
  <2>4. CASE Len(s) = 3
    BY <2>2, <2>4, PartsOfCoordinates
  <2>5. CASE Len(s) = 4
    BY <2>1, <2>2, <2>5, PartsOfCoordinates
  <2>6. CASE Len(s) = 5
    BY <2>1, <2>2, <2>6, PartsOfCoordinates
  <2> QED BY <2>3, <2>4, <2>5, <2>6, PartsOfCoordinates
<1> DEFINE g == r.groupId
           a == r.artifactId
           p == r.packaging
           c == r.classifier
           v == r.version
<1> HIDE DEF g, a, p, c, v, r
<1>3. p # "" /\ r = Gav(g, a, p, c, v) 
  BY <1>1 DEF g, a, p, c, v
<1>4. from_str(to_str(r, FALSE)) = r
  BY <1>3, GavIsReadBack
<1>5. from_str(to_str(r, TRUE)) = Gav(g, a, p, c, "")
  BY <1>3, GavIsReadBack
<1> QED BY <1>4, <1>5 DEF normalize_str, r, g, a, p, c
-----------------------------------------------------------------------------
(* Positions are taken in their order, and none between two neighbours is  *)
(* left out.                                                               *)
LEMMA NthIsOrdered ==
    ASSUME NEW n \in Nat, NEW T \in SUBSET (1..n)
    PROVE  /\ Cardinality(T) \in Nat
           /\ \A k \in 1..Cardinality(T) : Nth(T, k) \in T
           /\ \A k, l \in 1..Cardinality(T) : k < l => Nth(T, k) < Nth(T, l)
           /\ \A k, l \in 1..Cardinality(T) : l = k + 1 =>
                  \A j \in T : j <= Nth(T, k) \/ Nth(T, l) <= j
<1> DEFINE R == AtMost(T)
           c == Cardinality(T)
           rank(i) == RankIn(R, T, i)
<1>1. IsFiniteSet(T) /\ c \in Nat /\ Orders(R, T)
  BY PositionsAreOrdered
<1>2. \A i \in T : Cardinality({j \in T : j <= i}) = rank(i)
  <2> SUFFICES ASSUME NEW i \in T
               PROVE  {j \in T : j <= i} = {j \in T : <<j, i>> \in R}
    BY DEF RankIn
  <2> QED BY DEF AtMost
<1>3. \A k \in 1..c : Nth(T, k) = ByRank(R, T, k)
  <2> SUFFICES ASSUME NEW k \in 1..c
               PROVE  Nth(T, k) = ByRank(R, T, k)
    OBVIOUS
  <2> HIDE DEF R
  <2> QED BY <1>2 DEF ByRank, Nth
<1>4. \A i, j \in T : <<i, j>> \in R <=> i <= j
  BY DEF AtMost
<1>5. \A i \in T : i \in Int
  OBVIOUS
<1> HIDE DEF R
<1>6. \A k \in 1..c : Nth(T, k) \in T /\ rank(Nth(T, k)) = k
  BY <1>1, <1>3, ByRankIsOrdered
<1>7. \A i, j \in T : i < j => rank(i) < rank(j)
  <2>1. \A i, j \in T : i < j => <<i, j>> \in R /\ i # j
    BY <1>4, <1>5
  <2> QED BY <1>1, <2>1, RanksAreNumbers
<1>8. \A i \in T : rank(i) \in Int
  <2> HIDE DEF c
  <2>1. \A i \in T : rank(i) \in 1..c
    BY <1>1, RanksAreNumbers DEF c
  <2> QED BY <1>1, <2>1
<1> HIDE DEF rank
<1>9. \A k, l \in 1..c : k < l => Nth(T, k) < Nth(T, l)
  <2> SUFFICES ASSUME NEW k \in 1..c, NEW l \in 1..c, k < l
               PROVE  Nth(T, k) < Nth(T, l)
    OBVIOUS
  <2> DEFINE i == Nth(T, k)
             j == Nth(T, l)
  <2>1. i \in T /\ j \in T /\ rank(i) = k /\ rank(j) = l
    BY <1>6
  <2> HIDE DEF i, j, c
  <2>2. k \in Int /\ l \in Int
    BY <1>1
  <2>3. i < j
    BY <1>5, <1>7, <2>1, <2>2
  <2> QED BY <2>3 DEF i, j
<1>10. \A k, l \in 1..c : l = k + 1 => \A j \in T : j <= Nth(T, k) \/ Nth(T, l) <= j
  <2> SUFFICES ASSUME NEW k \in 1..c, NEW l \in 1..c, l = k + 1, NEW j \in T,
                      ~(j <= Nth(T, k) \/ Nth(T, l) <= j)
               PROVE  FALSE
    OBVIOUS
  <2> DEFINE a == Nth(T, k)
             b == Nth(T, l)
  <2>1. a \in T /\ b \in T /\ rank(a) = k /\ rank(b) = l /\ ~(j <= a \/ b <= j)
    BY <1>6
  <2> HIDE DEF a, b, c
  <2>2. k \in Int /\ l \in Int
    BY <1>1
  <2>3. rank(a) < rank(j) /\ rank(j) < rank(b)
    BY <1>5, <1>7, <2>1
  <2> QED BY <1>8, <2>1, <2>2, <2>3
<1> QED BY <1>1, <1>6, <1>9, <1>10

(* Picking every position changes nothing.                                 *)
LEMMA PickedAll ==
    ASSUME NEW V, NEW s \in Seq(V)
    PROVE  Picked(s, DOMAIN s) = s
<1> DEFINE n == Len(s)
<1>1. n \in Nat /\ DOMAIN s = 1..n
  OBVIOUS
<1>2. Cardinality(1..n) = n
  <2> HIDE DEF n
  <2>1. 1 \in Int /\ n \in Int /\ (IF 1 > n THEN 0 ELSE n - 1 + 1) = n
    BY <1>1
  <2> QED BY <2>1, FS_Interval
<1>3. \A i \in 1..n : Cardinality({j \in 1..n : j <= i}) = i
  <2> SUFFICES ASSUME NEW i \in 1..n
               PROVE  Cardinality({j \in 1..n : j <= i}) = i
    OBVIOUS
  <2> HIDE DEF n
  <2>1. 1 \in Int /\ i \in Int /\ (IF 1 > i THEN 0 ELSE i - 1 + 1) = i
    BY <1>1
  <2>2. {j \in 1..n : j <= i} = 1..i
    BY <1>1
  <2> QED BY <2>1, <2>2, FS_Interval
<1>4. \A k \in 1..n : Nth(1..n, k) = k
  <2> HIDE DEF n
  <2> QED BY <1>3 DEF Nth
<1>5. Picked(s, 1..n) = [k \in 1..n |-> s[k]]
  <2> HIDE DEF n
  <2> QED BY <1>2, <1>4 DEF Picked
<1>6. s = [k \in 1..n |-> s[k]]
  BY <1>1
<1> HIDE DEF n
<1> QED BY <1>1, <1>5, <1>6
-----------------------------------------------------------------------------
(* What the letters of a normalised name look like: re.sub leaves one "-"  *)
(* where a run was, and lower() changes nothing more.                      *)
NormalLetter(x) == x = "-" \/ (x \notin Separators /\ Lowercase(x) = x)

(* What normalisation makes of one letter: a dash, or a letter that stays as *)
(* it is.                                                                  *)
LEMMA LowercaseIsNormal ==
    ASSUME NEW x
    PROVE  /\ NormalLetter(IF x \in Separators THEN "-" ELSE Lowercase(x))
           /\ x \notin Separators => Lowercase(x) \notin Separators
           /\ Lowercase(x) \in {x, "a", "b"}
<1>1. DOMAIN LowerOf = {"A", "B"} /\ LowerOf["A"] = "a" /\ LowerOf["B"] = "b"
  BY DEF LowerOf
<1>2. CASE x = "A"
  <2>1. Lowercase(x) = "a" /\ Lowercase("a") = "a"
    BY <1>1, <1>2 DEF Lowercase
  <2>2. x \notin Separators /\ "a" \notin Separators
    BY <1>2 DEF Separators
  <2> QED BY <2>1, <2>2 DEF NormalLetter
<1>3. CASE x = "B"
  <2>1. Lowercase(x) = "b" /\ Lowercase("b") = "b"
    BY <1>1, <1>3 DEF Lowercase
  <2>2. x \notin Separators /\ "b" \notin Separators
    BY <1>3 DEF Separators
  <2> QED BY <2>1, <2>2 DEF NormalLetter
<1>4. CASE x \notin {"A", "B"}
  BY <1>1, <1>4 DEF NormalLetter, Lowercase, Separators
<1> QED BY <1>2, <1>3, <1>4

(* A normalised name has no run of separators and no upper case.           *)
LEMMA DashesAreSingle ==
    ASSUME NEW V, {"-", "a", "b"} \subseteq V, NEW s \in Seq(V)
    PROVE  /\ DashForRuns(s) \in Seq(V)
           /\ \A k \in DOMAIN DashForRuns(s) : NormalLetter(DashForRuns(s)[k])
           /\ \A k, l \in DOMAIN DashForRuns(s) : l = k + 1 =>
                  ~(DashForRuns(s)[k] \in Separators /\ DashForRuns(s)[l] \in Separators)
<1> DEFINE n == Len(s)
           T == {i \in DOMAIN s : ~(i > 1 /\ s[i - 1] \in Separators /\ s[i] \in Separators)}
           letter(x) == IF x \in Separators THEN "-" ELSE Lowercase(x)
           c == [i \in DOMAIN s |-> letter(s[i])]
           p == Picked(c, T)
           m == Cardinality(T)
<1>1. n \in Nat /\ DOMAIN s = 1..n
  OBVIOUS
<1>2. DashForRuns(s) = p
  BY DEF DashForRuns
<1>3. \A x \in V : letter(x) \in V
  <2>1. \A x : Lowercase(x) \in {x, "a", "b"}
    BY LowercaseIsNormal
  <2> QED BY <2>1
<1>4. \A x : NormalLetter(letter(x))
  BY LowercaseIsNormal
<1>5. \A x : letter(x) \in Separators => x \in Separators
  BY LowercaseIsNormal
<1> HIDE DEF letter
<1>6. c \in Seq(V) /\ DOMAIN c = 1..n /\ \A i \in 1..n : c[i] = letter(s[i])
  <2>1. \A i \in 1..n : s[i] \in V
    BY <1>1
  <2>2. c \in [1..n -> V]
    <3> HIDE DEF n
    <3> QED BY <1>1, <1>3, <2>1
  <2> HIDE DEF n
  <2> QED BY <1>1, <2>2
<1>7. T \in SUBSET (1..n)
  BY <1>1
<1>8. \A i \in T : i > 1 /\ s[i] \in Separators => s[i - 1] \notin Separators
  OBVIOUS
<1>9. \A i \in 1..n : i \notin T => i > 1 /\ s[i - 1] \in Separators /\ s[i] \in Separators
  BY <1>1
<1> HIDE DEF c, T, p, m, n
<1>10. p \in Seq(V) /\ m \in Nat /\ DOMAIN p = 1..m
  <2>1. p \in Seq(V)
    BY <1>6, <1>7, PickedIsSequence DEF p
  <2>2. m \in Nat /\ DOMAIN p = 1..m
    BY <1>1, <1>7, PickedIsThere DEF p, m
  <2> QED BY <2>1, <2>2
<1>11. \A k \in 1..m : Nth(T, k) \in T /\ p[k] = letter(s[Nth(T, k)])
  <2>1. \A k \in 1..m : Nth(T, k) \in T
    BY <1>1, <1>7, NthIsOrdered DEF m
  <2>2. \A k \in 1..m : p[k] = c[Nth(T, k)]
    BY DEF p, m, Picked
  <2> QED BY <1>6, <1>7, <2>1, <2>2
<1>12. \A k, l \in 1..m : l = k + 1 => ~(p[k] \in Separators /\ p[l] \in Separators)
  <2> SUFFICES ASSUME NEW k \in 1..m, NEW l \in 1..m, l = k + 1,
                      p[k] \in Separators, p[l] \in Separators
               PROVE  FALSE
    OBVIOUS
  <2> DEFINE i == Nth(T, k)
             j == Nth(T, l)
  <2>0. k < l
    BY <1>10
  <2>1. /\ i \in T /\ j \in T /\ i < j
        /\ \A h \in T : h <= i \/ j <= h
    BY <1>1, <1>7, <2>0, NthIsOrdered DEF m
  <2>2. s[i] \in Separators /\ s[j] \in Separators
    BY <1>5, <1>11
  <2> HIDE DEF i, j
  <2>3. i \in 1..n /\ j \in 1..n
    BY <1>7, <2>1
  <2>4. j > 1 /\ j - 1 \in 1..n /\ j - 1 < j /\ i <= j - 1
    BY <1>1, <2>1, <2>3
  <2>5. s[j - 1] \notin Separators
    BY <1>8, <2>1, <2>2, <2>4
  <2>6. j - 1 \in T
    BY <1>9, <2>4, <2>5
  <2>7. j - 1 # i
    BY <2>2, <2>5
  <2> QED BY <1>1, <2>1, <2>3, <2>4, <2>6, <2>7
<1>13. \A k \in 1..m : NormalLetter(p[k])
  BY <1>4, <1>11
<1> QED BY <1>2, <1>10, <1>12, <1>13

(* A name without runs and upper case is only changed in its separators.   *)
LEMMA SingleDashesStay ==
    ASSUME NEW V, "-" \in V, NEW t \in Seq(V),
           \A k \in DOMAIN t : t[k] \in Separators \/ Lowercase(t[k]) = t[k],
           \A k, l \in DOMAIN t : l = k + 1 => ~(t[k] \in Separators /\ t[l] \in Separators)
    PROVE  DashForRuns(t) = [k \in DOMAIN t |-> IF t[k] \in Separators THEN "-" ELSE t[k]]
<1> DEFINE n == Len(t)
           T == {i \in DOMAIN t : ~(i > 1 /\ t[i - 1] \in Separators /\ t[i] \in Separators)}
           c == [i \in DOMAIN t |-> IF t[i] \in Separators THEN "-" ELSE Lowercase(t[i])]
<1>1. n \in Nat /\ DOMAIN t = 1..n
  OBVIOUS
<1>2. DashForRuns(t) = Picked(c, T)
  BY DEF DashForRuns
<1>3. c = [k \in DOMAIN t |-> IF t[k] \in Separators THEN "-" ELSE t[k]]
  OBVIOUS
<1>4. T = DOMAIN t
  <2> HIDE DEF n
  <2>1. \A i \in 1..n : i > 1 => i - 1 \in 1..n /\ i = (i - 1) + 1
    BY <1>1
  <2> QED BY <1>1, <2>1
<1>5. c \in Seq(V) /\ DOMAIN c = DOMAIN t
  <2>1. \A i \in 1..n : t[i] \in V
    BY <1>1
  <2>2. \A i \in 1..n : c[i] \in V
    <3>1. \A i \in 1..n : c[i] = "-" \/ c[i] = t[i]
      BY <1>1
    <3> HIDE DEF c, n
    <3> QED BY <2>1, <3>1
  <2>3. c = [i \in 1..n |-> c[i]]
    BY <1>1
  <2> HIDE DEF c, n
  <2>4. c \in [1..n -> V]
    BY <2>2, <2>3
  <2> QED BY <1>1, <2>4
<1>6. Picked(c, DOMAIN c) = c
  <2> HIDE DEF c
  <2> QED BY <1>5, PickedAll
<1> QED BY <1>2, <1>3, <1>4, <1>5, <1>6
-----------------------------------------------------------------------------
(* A name without an escaped percent sign has no escape left when unquoted.*)
LEMMA EscapesAreGone ==
    ASSUME NEW V, {"/", "%"} \subseteq V, NEW s \in Seq(V), \A i \in DOMAIN s : s[i] # "25"
    PROVE  /\ Unquoted(s) \in Seq(V)
           /\ \A k \in DOMAIN Unquoted(s) : ~Escape(Unquoted(s), k)
<1> DEFINE n == Len(s)
           T == {i \in DOMAIN s : ~(i > 1 /\ Escape(s, i - 1))}
           c == [i \in DOMAIN s |-> IF ~Escape(s, i) THEN s[i] ELSE IF s[i + 1] = "2F" THEN "/" ELSE "%"]
           p == Picked(c, T)
           m == Cardinality(T)
<1>1. n \in Nat /\ DOMAIN s = 1..n
  OBVIOUS
<1>2. Unquoted(s) = p
  BY DEF Unquoted
<1>3. \A i \in 1..n : Escape(s, i) <=> s[i] = "%" /\ i < n /\ s[i + 1] = "2F"
  <2>1. \A i \in 1..n : i < n => s[i + 1] # "25"
    BY <1>1
  <2> HIDE DEF n
  <2> QED BY <2>1 DEF Escape, n
<1>4. \A i \in 1..n : c[i] = IF Escape(s, i) THEN "/" ELSE s[i]
  <2>1. \A i \in 1..n : c[i] = IF ~Escape(s, i) THEN s[i] ELSE IF s[i + 1] = "2F" THEN "/" ELSE "%"
    BY <1>1
  <2> HIDE DEF n, c
  <2> QED BY <1>3, <2>1
<1>5. c \in Seq(V) /\ DOMAIN c = 1..n
  <2>1. \A i \in 1..n : s[i] \in V
    BY <1>1
  <2>2. c = [i \in 1..n |-> c[i]]
    BY <1>1
  <2>3. \A i \in 1..n : c[i] \in V
    <3> HIDE DEF c, n
    <3> QED BY <1>4, <2>1
  <2> HIDE DEF c, n
  <2>4. c \in [1..n -> V]
    BY <2>2, <2>3
  <2> QED BY <1>1, <2>4
<1>6. T \in SUBSET (1..n)
  BY <1>1
<1>7. \A i \in 1..n : i \in T <=> ~(i > 1 /\ Escape(s, i - 1))
  BY <1>1
<1> HIDE DEF c, T, p, m, n
<1>8. p \in Seq(V) /\ m \in Nat /\ DOMAIN p = 1..m /\ Len(p) = m
  <2>1. p \in Seq(V)
    BY <1>5, <1>6, PickedIsSequence DEF p
  <2>2. m \in Nat /\ DOMAIN p = 1..m
    BY <1>1, <1>6, PickedIsThere DEF p, m
  <2> QED BY <2>1, <2>2
<1>9. \A k \in 1..m : Nth(T, k) \in T /\ p[k] = c[Nth(T, k)]
  <2>1. \A k \in 1..m : Nth(T, k) \in T
    BY <1>1, <1>6, NthIsOrdered DEF m
  <2>2. \A k \in 1..m : p[k] = c[Nth(T, k)]
    BY DEF p, m, Picked
  <2> QED BY <2>1, <2>2
<1>10. ASSUME NEW k \in 1..m, Escape(p, k)
       PROVE  FALSE
  <2>1. k + 1 \in 1..m /\ k < k + 1 /\ p[k] = "%" /\ (p[k + 1] = "2F" \/ p[k + 1] = "25")
    BY <1>8, <1>10 DEF Escape
  <2> DEFINE i == Nth(T, k)
             j == Nth(T, k + 1)
  <2>2. /\ i \in T /\ j \in T /\ i < j
        /\ \A h \in T : h <= i \/ j <= h
    BY <1>1, <1>6, <2>1, NthIsOrdered DEF m
  <2>3. c[i] = "%" /\ (c[j] = "2F" \/ c[j] = "25")
    BY <1>9, <2>1
  <2> HIDE DEF i, j
  <2>4. i \in 1..n /\ j \in 1..n /\ j - 1 \in 1..n /\ i <= j - 1
    BY <1>1, <1>6, <2>2
  <2>5. ~Escape(s, i) /\ s[i] = "%"
    BY <1>4, <2>3, <2>4
  <2>6. s[j] = "2F"
    <3>1. s[j] \in {"2F", "25"}
      BY <1>4, <2>3, <2>4
    <3> QED BY <1>1, <2>4, <3>1
  <2>7. ~Escape(s, j - 1)
    BY <1>1, <1>7, <2>2, <2>4
  <2>8. i # j - 1
    BY <1>1, <1>3, <2>4, <2>5, <2>6
  <2>9. j - 1 \notin T
    BY <1>1, <2>2, <2>4, <2>8
  <2>10. j - 1 > 1 /\ Escape(s, (j - 1) - 1)
    BY <1>7, <2>4, <2>9
  <2>11. j - 2 \in 1..n /\ (j - 1) - 1 = j - 2 /\ (j - 2) + 1 = j - 1 /\ i <= j - 2
    BY <1>1, <2>4, <2>8, <2>10
  <2>12. s[j - 2] = "%" /\ s[j - 1] = "2F"
    BY <1>3, <2>10, <2>11
  <2>13. i # j - 2
    BY <2>5, <2>10, <2>11
  <2>14. j - 2 \notin T
    BY <1>1, <2>2, <2>4, <2>11, <2>13
  <2>15. j - 2 > 1 /\ Escape(s, (j - 2) - 1)
    BY <1>7, <2>11, <2>14
  <2>16. j - 3 \in 1..n /\ (j - 2) - 1 = j - 3 /\ (j - 3) + 1 = j - 2
    BY <1>1, <2>4, <2>15
  <2>17. s[j - 2] = "2F"
    BY <1>3, <2>15, <2>16
  <2> QED BY <2>12, <2>17
<1> QED BY <1>2, <1>8, <1>10

(* A name without an escape is not changed by unquote.                     *)
LEMMA UnescapedStays ==
    ASSUME NEW V, NEW t \in Seq(V), \A k \in DOMAIN t : ~Escape(t, k)
    PROVE  Unquoted(t) = t
<1> DEFINE n == Len(t)
           T == {i \in DOMAIN t : ~(i > 1 /\ Escape(t, i - 1))}
           c == [i \in DOMAIN t |-> IF ~Escape(t, i) THEN t[i] ELSE IF t[i + 1] = "2F" THEN "/" ELSE "%"]
<1>1. n \in Nat /\ DOMAIN t = 1..n
  OBVIOUS
<1>2. Unquoted(t) = Picked(c, T)
  BY DEF Unquoted
<1>3. c = [i \in DOMAIN t |-> t[i]]
  OBVIOUS
<1>4. t = [i \in DOMAIN t |-> t[i]]
  OBVIOUS
<1>5. T = DOMAIN t
  <2> HIDE DEF n
  <2>1. \A i \in 1..n : i > 1 => i - 1 \in 1..n
    BY <1>1
  <2> QED BY <1>1, <2>1
<1> HIDE DEF c, T
<1> QED BY <1>2, <1>3, <1>4, <1>5, PickedAll
-----------------------------------------------------------------------------
(* Every string; the provers do not know that a literal is one.            *)
Characters == STRING \cup {"-", "a", "b", "/", "%"}

(* Normalising a name of the model once more changes nothing.              *)
LEMMA NormalNamesStay == NameInit => NormalNameIsStable
<1> SUFFICES ASSUME NameInit, named.kind = "name"
             PROVE  NormalNameIsStable
  BY DEF NormalNameIsStable
<1> DEFINE s == named.of.chars
           V == Characters
<1>1. s \in Seq(V)
  <2>1. named.of \in PackageNames
    BY DEF NameInit, Named
  <2>2. s \in Seq(STRING)
    BY <2>1, NamesAssumption
  <2> HIDE DEF s
  <2>3. s \in [1..Len(s) -> STRING] /\ Len(s) \in Nat
    BY <2>2
  <2>4. STRING \subseteq V
    BY DEF Characters
  <2> HIDE DEF V
  <2>5. s \in [1..Len(s) -> V]
    BY <2>3, <2>4
  <2> QED BY <2>3, <2>5
<1>2. {"-", "a", "b"} \subseteq V /\ {"/", "%"} \subseteq V /\ "-" \in V
  BY DEF Characters
<1> HIDE DEF s, V
<1>3. (\A i \in DOMAIN s : s[i] # "25") => Unquoted(Unquoted(s)) = Unquoted(s)
  <2> SUFFICES ASSUME \A i \in DOMAIN s : s[i] # "25"
               PROVE  Unquoted(Unquoted(s)) = Unquoted(s)
    OBVIOUS
  <2>1. Unquoted(s) \in Seq(V) /\ \A k \in DOMAIN Unquoted(s) : ~Escape(Unquoted(s), k)
    BY <1>1, <1>2, EscapesAreGone
  <2> QED BY <2>1, UnescapedStays
<1> DEFINE n == DashForRuns(s)
<1>4. /\ n \in Seq(V)
      /\ \A k \in DOMAIN n : NormalLetter(n[k])
      /\ \A k, l \in DOMAIN n : l = k + 1 => ~(n[k] \in Separators /\ n[l] \in Separators)
  BY <1>1, <1>2, DashesAreSingle
<1> HIDE DEF n
<1>5. \A k \in DOMAIN n : /\ n[k] \in Separators \/ Lowercase(n[k]) = n[k]
                          /\ n[k] \in Separators => n[k] = "-"
  BY <1>4 DEF NormalLetter, Separators
<1>6. Len(n) \in Nat /\ DOMAIN n = 1..Len(n) /\ n = [k \in DOMAIN n |-> n[k]]
  BY <1>4
<1>7. DashForRuns(n) = n
  <2>1. DashForRuns(n) = [k \in DOMAIN n |-> IF n[k] \in Separators THEN "-" ELSE n[k]]
    BY <1>2, <1>4, <1>5, SingleDashesStay
  <2>2. [k \in DOMAIN n |-> IF n[k] \in Separators THEN "-" ELSE n[k]] = [k \in DOMAIN n |-> n[k]]
    BY <1>5
  <2> QED BY <1>6, <2>1, <2>2
<1>8. \A i \in 1..(Len(n) - 1) : ~(n[i] \in Separators /\ n[i + 1] \in Separators)
  <2> DEFINE m == Len(n)
  <2> HIDE DEF m
  <2>1. \A i \in 1..(m - 1) : i \in 1..m /\ i + 1 \in 1..m
    BY <1>6 DEF m
  <2> QED BY <1>4, <1>6, <2>1 DEF m
<1>9. ASSUME NEW x \in Separators, NEW i \in DOMAIN n, n[i] = "-"
      PROVE  DashForRuns([n EXCEPT ![i] = x]) = n
  <2> DEFINE t == [n EXCEPT ![i] = x]
  <2>1. DOMAIN t = DOMAIN n /\ \A k \in DOMAIN n : t[k] = IF k = i THEN x ELSE n[k]
    OBVIOUS
  <2>2. t \in Seq(V \cup Separators) /\ "-" \in V \cup Separators
    <3>1. \A k \in DOMAIN n : t[k] \in V \cup Separators
      BY <1>4, <2>1
    <3>2. t = [k \in DOMAIN n |-> t[k]]
      OBVIOUS
    <3> DEFINE m == Len(n)
               W == V \cup Separators
    <3> HIDE DEF t, m, W
    <3>3. t \in [1..m -> W] /\ m \in Nat
      BY <1>6, <3>1, <3>2 DEF m, W
    <3>4. t \in Seq(W)
      BY <3>3
    <3> QED BY <1>2, <3>4 DEF W
  <2> HIDE DEF t
  <2>3. "-" \in Separators
    BY DEF Separators
  <2>4. \A k \in DOMAIN n : t[k] \in Separators <=> n[k] \in Separators
    BY <1>9, <2>1, <2>3
  <2>5. \A k \in DOMAIN t : t[k] \in Separators \/ Lowercase(t[k]) = t[k]
    BY <1>5, <2>1, <2>4
  <2>6. \A k, l \in DOMAIN t : l = k + 1 => ~(t[k] \in Separators /\ t[l] \in Separators)
    BY <1>4, <2>1, <2>4
  <2>7. DashForRuns(t) = [k \in DOMAIN t |-> IF t[k] \in Separators THEN "-" ELSE t[k]]
    BY <2>2, <2>5, <2>6, SingleDashesStay
  <2>8. [k \in DOMAIN t |-> IF t[k] \in Separators THEN "-" ELSE t[k]] = [k \in DOMAIN n |-> n[k]]
    <3>1. \A k \in DOMAIN n : (IF t[k] \in Separators THEN "-" ELSE t[k]) = n[k]
      BY <1>5, <1>9, <2>1, <2>4
    <3> QED BY <2>1, <3>1
  <2>9. DashForRuns(t) = n
    BY <1>6, <2>7, <2>8
  <2> QED BY <2>9 DEF t
<1> QED BY <1>3, <1>7, <1>8, <1>9 DEF NormalNameIsStable, n, s

(* Every form that parse_gh_repo reads stands for the same repository when *)
(* it was made a URL that git can clone.                                   *)
LEMMA ClonedRepoIsNamed == NameInit => ClonedIsTheNamedRepo
<1> SUFFICES ASSUME NameInit, named.kind = "url", parse_gh_repo(named.of) # NoRepo
             PROVE  parse_gh_repo(url2git_repo(named.of)) = parse_gh_repo(named.of)
  BY DEF ClonedIsTheNamedRepo
<1>1. named.of \in Urls
  BY DEF NameInit, Named
<1>2. PICK u \in [scheme : STRING, user : STRING, host : STRING, sep : {"/", ":"}, path : Seq(STRING)] :
          u = named.of
  BY <1>1, NamesAssumption
<1> QED BY <1>2 DEF parse_gh_repo, url2git_repo, Http, NoRepo

(* One thing has one name, by whichever way its name was normalised        *)
(* (MavenCoordinates, normalize_package_name, parse_gh_repo and            *)
(* url2git_repo of utils.py).                                              *)
THEOREM NamesAlwaysAgree == NameInit => NamesAgree
BY CoordinatesAreStable, NormalNamesStay, ClonedRepoIsNamed DEF NamesAgree
-----------------------------------------------------------------------------
(* What parse_maven_dependency_tree returns is needed by a line of the     *)
(* tree, and is not one of the modules.                                    *)
LEMMA NeededIsNoModule ==
    ASSUME NEW r \in Repos, Manifest(r) = "pom.xml", NEW d \in parse_maven_dependency_tree(r.entries)
    PROVE  \E a \in {l[2] : l \in {x \in r.entries : Len(x) = 2}} :
               d = MavenEpv(WithoutScope(a)) /\ a \notin {l[1] : l \in {x \in r.entries : Len(x) = 1}}
<1> DEFINE E == r.entries
           epv(a) == MavenEpv(WithoutScope(a))
<1>1. /\ E \subseteq Seq(Seq(STRING))
      /\ \A l \in E : Len(l) = 2 => \E k \in E : k = <<l[1]>> \/ (Len(k) = 2 /\ k[2] = l[1])
  BY RepoAssumption
<1>2. d \in TreeNames({l \in E : Len(l) = 2}) /\ d \notin TreeNames({l \in E : Len(l) = 1})
  BY DEF parse_maven_dependency_tree
<1>3. \A L : TreeNames(L) = UNION {{epv(l[i]) : i \in DOMAIN l} : l \in L}
  BY DEF TreeNames
<1> HIDE DEF E, epv
<1>4. PICK l \in E : Len(l) = 2 /\ \E i \in DOMAIN l : d = epv(l[i])
  <2>1. d \in UNION {{epv(l[i]) : i \in DOMAIN l} : l \in {x \in E : Len(x) = 2}}
    BY <1>2, <1>3
  <2> QED BY <2>1
<1>5. PICK i \in DOMAIN l : d = epv(l[i])
  BY <1>4
<1>6. \A k \in E : Len(k) = 1 => epv(k[1]) # d
  <2> SUFFICES ASSUME NEW k \in E, Len(k) = 1
               PROVE  epv(k[1]) # d
    OBVIOUS
  <2>1. 1 \in DOMAIN k
    BY <1>1
  <2>2. epv(k[1]) \in UNION {{epv(x[j]) : j \in DOMAIN x} : x \in {y \in E : Len(y) = 1}}
    BY <2>1
  <2> QED BY <1>2, <1>3, <2>2
<1>7. DOMAIN l = {1, 2}
  BY <1>1, <1>4
<1>8. \E k \in E : Len(k) = 2 /\ d = epv(k[2])
  <2>1. CASE i = 2
    BY <1>4, <1>5, <2>1
  <2>2. CASE i = 1
    <3>1. PICK k \in E : k = <<l[1]>> \/ (Len(k) = 2 /\ k[2] = l[1])
      BY <1>1, <1>4
    <3>2. k # <<l[1]>>
      <4> SUFFICES ASSUME k = <<l[1]>>
                   PROVE  FALSE
        OBVIOUS
      <4>1. Len(k) = 1 /\ k[1] = l[1]
        OBVIOUS
      <4> QED BY <1>5, <1>6, <2>2, <4>1
    <3> QED BY <1>5, <2>2, <3>1, <3>2
  <2> QED BY <1>7, <2>1, <2>2
<1>9. PICK k \in E : Len(k) = 2 /\ d = epv(k[2])
  BY <1>8
<1>10. k[2] \notin {x[1] : x \in {y \in E : Len(y) = 1}}
  BY <1>6, <1>9
<1> QED BY <1>9, <1>10 DEF E, epv

(* The strings that are read from a manifest are split at their colons.    *)
LEMMA DependenciesAreSplit ==
    ASSUME NEW r \in Repos, NEW d \in extract_dependencies(r).deps
    PROVE  /\ DOMAIN d = 1..Len(d)
           /\ Len(d) = 3 => d = <<d[1], d[2], d[3]>>
<1>1. ASSUME NEW e, e.version \in Seq(STRING)
      PROVE  \E V : NpmEpv(e) \in Seq(V)
  <2> DEFINE V == STRING \cup {"npm", e.name}
             v == e.version
  <2>1. <<"npm", e.name>> \in Seq(V)
    OBVIOUS
  <2>2. v \in [1..Len(v) -> STRING] /\ Len(v) \in Nat
    BY <1>1
  <2>3. STRING \subseteq V
    OBVIOUS
  <2> HIDE DEF V, v
  <2>4. v \in [1..Len(v) -> V]
    BY <2>2, <2>3
  <2>5. v \in Seq(V)
    BY <2>2, <2>4
  <2>6. <<"npm", e.name>> \o v \in Seq(V)
    BY <2>1, <2>5
  <2> QED BY <2>6 DEF NpmEpv, v
<1>2. CASE Manifest(r) = "pom.xml"
  <2>1. d \in parse_maven_dependency_tree(r.entries)
    BY <1>2 DEF extract_dependencies, Found
  <2>2. \E a : d = MavenEpv(a)
    BY <2>1 DEF parse_maven_dependency_tree, TreeNames
  <2> QED BY <2>2 DEF MavenEpv
<1>3. CASE Manifest(r) = "npm-shrinkwrap.json"
  <2>1. d \in Locked(r.entries)
    BY <1>3 DEF extract_dependencies, Found
  <2>2. \E e : e.version \in Seq(STRING) /\ d = NpmEpv(e)
    BY <1>3, <2>1, RepoAssumption DEF Locked
  <2>3. PICK V : d \in Seq(V)
    BY <1>1, <2>2
  <2>4. DOMAIN d = 1..Len(d) /\ Len(d) \in Nat
    BY <2>3
  <2>5. Len(d) = 3 => d = <<d[1], d[2], d[3]>>
    BY <2>3
  <2> QED BY <2>4, <2>5
<1>4. CASE Manifest(r) \in {"package.json", "requirements.txt"}
  <2>1. \E eco : d \in Pinned(eco, r.entries).deps
    BY <1>4 DEF extract_dependencies
  <2>2. \E x, y, z : d = <<x, y, z>>
    BY <2>1 DEF Pinned, Found
  <2> QED BY <2>2
<1>5. CASE Manifest(r) \in {"glide.lock", "Gopkg.lock"}
  <2>1. d \in GoPackages(r.entries)
    BY <1>5 DEF extract_dependencies, Found
  <2>2. \E x, y, z : d = <<x, y, z>>
    BY <2>1 DEF GoPackages
  <2> QED BY <2>2
<1>6. CASE Manifest(r) \notin {"pom.xml", "npm-shrinkwrap.json", "package.json", "requirements.txt",
                              "glide.lock", "Gopkg.lock"}
  BY <1>6 DEF extract_dependencies, Found
<1> QED BY <1>2, <1>3, <1>4, <1>5, <1>6

(* What bayesianApiFlow is started for is the version that the graph was   *)
(* asked for, unless the version has a colon.                              *)
LEMMA StartedIsAskedFor ==
    ASSUME NEW r \in Repos, NEW d \in extract_dependencies(r).deps,
           Len(d) = IF d[1] = "maven" THEN 4 ELSE 3
    PROVE  Arguments(d) = Key(d)
<1>1. CASE d[1] = "maven"
  BY <1>1 DEF Arguments
<1>2. CASE d[1] # "maven"
  <2>1. Len(d) = 3 /\ d = <<d[1], d[2], d[3]>>
    BY <1>2, DependenciesAreSplit
  <2>2. Key(d) = d
    <3>1. Len(d) # 4
      BY <2>1
    <3> QED BY <2>1, <3>1, Zenon DEF Key
  <2>3. Arguments(d) = <<d[1], d[2], d[3]>>
    BY <1>2 DEF Arguments
  <2> QED BY <2>1, <2>2, <2>3
<1> QED BY <1>1, <1>2

(* No dependency is forgotten: it is in the graph, or was not answered, or *)
(* the task raised, or its own flow was started; and what was started is   *)
(* in the graph or failed.                                                 *)
Accounted ==
    /\ \A d \in scanFound.deps : \/ Key(d) \in scanGraph
                                 \/ d \in scanUnasked
                                 \/ scanLost = TRUE
                                 \/ Arguments(d) \in scanStarted
    /\ \A k \in scanStarted : k \in scanGraph \/ k \in scanFailed

ScanInv ==
    /\ scanRepo \in Repos
    /\ scanFound = extract_dependencies(scanRepo) \/ (scanFound.is # "deps" /\ scanFound.deps = {})
    /\ scanPc \in {"extract", "fetch"} => scanStarted = {}
    /\ scanPc \in {"report", "done"} => Accounted

(* A scan starts with a repository, and nothing found or started.          *)
LEMMA ScanInvInit == ScanInit => ScanInv
BY DEF ScanInit, ScanInv, Found

(* What is found is what extract_dependencies reads from the repository, or *)
(* nothing.                                                                *)
LEMMA ExtractKeepsScanInv == ScanInv /\ Extract => ScanInv'
<1> SUFFICES ASSUME ScanInv, Extract
             PROVE  ScanInv'
  OBVIOUS
<1>1. scanRepo' = scanRepo /\ scanRepo \in Repos
  BY DEF ScanInv, Extract
<1>2. scanPc' \in {"failed", "fetch"} /\ scanStarted' = {}
  BY DEF ScanInv, Extract
<1>3. scanFound' = extract_dependencies(scanRepo) \/ (scanFound'.is # "deps" /\ scanFound'.deps = {})
  BY DEF Extract, Found
<1> QED BY <1>1, <1>2, <1>3 DEF ScanInv

(* After the fetch every dependency that was found is accounted for.       *)
LEMMA FetchKeepsScanInv == ScanInv /\ FetchAndStart => ScanInv'
<1> SUFFICES ASSUME ScanInv, FetchAndStart
             PROVE  ScanInv'
  OBVIOUS
<1>1. scanRepo' = scanRepo /\ scanFound' = scanFound /\ scanPc' = "report" /\ scanStarted = {}
  BY DEF ScanInv, FetchAndStart
<1>2. Accounted'
  <2>1. CASE scanLost' = TRUE /\ UNCHANGED <<scanUnasked, scanStarted, scanFailed, scanGraph>>
    BY <1>1, <2>1 DEF Accounted
  <2>2. ASSUME NEW bad \in SUBSET scanFound.deps, scanUnasked' = bad,
               scanStarted' = {Arguments(d) : d \in Unknown(scanFound.deps, bad)},
               NEW fail \in SUBSET scanStarted', scanFailed' = fail,
               scanGraph' = scanGraph \cup (scanStarted' \ fail)
        PROVE  Accounted'
    <3>1. ASSUME NEW d \in scanFound.deps
          PROVE  Key(d) \in scanGraph' \/ d \in scanUnasked' \/ Arguments(d) \in scanStarted'
      <4>1. CASE d \in bad \/ Key(d) \in scanGraph
        BY <2>2, <4>1
      <4>2. CASE d \notin bad /\ Key(d) \notin scanGraph
        <5>1. d \in Unknown(scanFound.deps, bad)
          BY <4>2 DEF Unknown
        <5> QED BY <2>2, <5>1
      <4> QED BY <4>1, <4>2
    <3>2. \A k \in scanStarted' : k \in scanGraph' \/ k \in scanFailed'
      BY <2>2
    <3> QED BY <1>1, <3>1, <3>2 DEF Accounted
  <2> QED BY <2>1, <2>2 DEF FetchAndStart
<1> QED BY <1>1, <1>2 DEF ScanInv

(* A report changes nothing that the flow started.                         *)
LEMMA ReportKeepsScanInv == ScanInv /\ Report => ScanInv'
<1> SUFFICES ASSUME ScanInv, Report
             PROVE  ScanInv'
  OBVIOUS
<1>1. /\ scanPc = "report" /\ scanPc' \in {"done", "failed"}
      /\ UNCHANGED <<scanRepo, scanFound, scanGraph, scanUnasked, scanLost, scanStarted, scanFailed>>
  BY DEF Report
<1>2. Accounted'
  BY <1>1 DEF ScanInv, Accounted
<1> QED BY <1>1, <1>2 DEF ScanInv

(* At every step of a repository scan (dependency_parser.py,               *)
(* unknown_dep_fetcher.py) every dependency found is accounted for.        *)
THEOREM ScanInvariant == ScanSpec => []ScanInv
<1>1. ScanInit => ScanInv
  BY ScanInvInit
<1>2. ScanInv /\ [ScanNext]_scanVars => ScanInv'
  <2> SUFFICES ASSUME ScanInv, [ScanNext]_scanVars
               PROVE  ScanInv'
    OBVIOUS
  <2>1. CASE Extract
    BY <2>1, ExtractKeepsScanInv
  <2>2. CASE FetchAndStart
    BY <2>2, FetchKeepsScanInv
  <2>3. CASE Report
    BY <2>3, ReportKeepsScanInv
  <2>4. CASE UNCHANGED scanVars
    BY <2>4 DEF ScanInv, Accounted, scanVars
  <2> QED BY <2>1, <2>2, <2>3, <2>4 DEF ScanNext
<1> QED BY <1>1, <1>2, PTL DEF ScanSpec

(* What a repository needs is found, nothing else is, and it is ingested   *)
(* or there is a reason in the log (dependency_parser.py,                  *)
(* unknown_dep_fetcher.py and foreach.py).                                 *)
THEOREM ScanAlwaysComplete == ScanSpec => []ScanIsComplete
<1>1. ScanInv => ScanIsComplete
  <2> SUFFICES ASSUME ScanInv
               PROVE  ScanIsComplete
    OBVIOUS
  <2>1. scanRepo \in Repos
    BY DEF ScanInv
  <2>2. scanFound.is = "deps" => scanFound = extract_dependencies(scanRepo)
    BY DEF ScanInv
  <2>3. NoModuleIsADependency
    <3> SUFFICES ASSUME scanFound.is = "deps", Manifest(scanRepo) = "pom.xml", NEW d \in scanFound.deps
                 PROVE  \E a \in {l[2] : l \in {x \in scanRepo.entries : Len(x) = 2}} :
                            /\ d = MavenEpv(WithoutScope(a))
                            /\ a \notin {l[1] : l \in {x \in scanRepo.entries : Len(x) = 1}}
      BY DEF NoModuleIsADependency
    <3>1. d \in parse_maven_dependency_tree(scanRepo.entries)
      BY <2>2 DEF extract_dependencies, Found
    <3> QED BY <2>1, <3>1, NeededIsNoModule
  <2>4. ProductionOnly
    <3> SUFFICES ASSUME scanFound.is = "deps", Manifest(scanRepo) = "npm-shrinkwrap.json",
                        NEW e \in scanRepo.entries
                 PROVE  LET under == {NpmEpv(e)} \cup {NpmEpv(b) : b \in e.below}
                            others == UNION {{NpmEpv(o)} \cup {NpmEpv(b) : b \in o.below} :
                                               o \in {x \in scanRepo.entries : ~x.dev}}
                        IN  IF e.dev THEN under \cap scanFound.deps \subseteq others
                            ELSE under \subseteq scanFound.deps
      BY DEF ProductionOnly
    <3>1. scanFound.deps = Locked(scanRepo.entries)
      BY <2>2 DEF extract_dependencies, Found
    <3> QED BY <3>1 DEF Locked
  <2>5. UnknownIsIngested
    <3> SUFFICES ASSUME scanPc = "done", NEW d \in scanFound.deps,
                        Len(d) = (IF d[1] = "maven" THEN 4 ELSE 3)
                 PROVE  \/ Key(d) \in scanGraph
                        \/ d \in scanUnasked \/ scanLost
                        \/ Key(d) \in scanStarted \cap scanFailed
      BY DEF UnknownIsIngested
    <3>1. d \in extract_dependencies(scanRepo).deps
      BY DEF ScanInv
    <3>2. Arguments(d) = Key(d)
      BY <2>1, <3>1, StartedIsAskedFor
    <3>3. Accounted
      BY DEF ScanInv
    <3>4. \/ Key(d) \in scanGraph
          \/ d \in scanUnasked
          \/ scanLost = TRUE
          \/ Key(d) \in scanStarted
      BY <3>2, <3>3 DEF Accounted
    <3>5. Key(d) \in scanStarted => Key(d) \in scanGraph \/ Key(d) \in scanFailed
      BY <3>3 DEF Accounted
    <3>6. Key(d) \in scanGraph \/ d \in scanUnasked \/ scanLost = TRUE \/ Key(d) \in scanStarted \cap scanFailed
      BY <3>4, <3>5
    <3>7. scanLost = TRUE => scanLost
      BY Zenon
    <3> QED BY <3>6, <3>7, Zenon
  <2> QED BY <2>3, <2>4, <2>5 DEF ScanIsComplete
<1> QED BY <1>1, ScanInvariant, PTL
-----------------------------------------------------------------------------
(* The value of a new name with one key is what that key holds.            *)
LEMMA OnlyKeyCounts ==
    ASSUME NEW raw, NEW k
    PROVE  FirstThere(raw, <<k>>) = ValueOf(raw, k)
<1> DEFINE there == {i \in DOMAIN <<k>> : ValueOf(raw, <<k>>[i]) # "None"}
<1>1. /\ FirstThere(raw, <<k>>) = IF there = {} THEN "None" ELSE ValueOf(raw, <<k>>[FirstOf(there)])
      /\ there \subseteq {1} /\ there \subseteq Nat
      /\ 1 \in there <=> ValueOf(raw, k) # "None"
      /\ <<k>>[1] = k
  BY DEF FirstThere
<1> HIDE DEF there
<1>2. there # {} => FirstOf(there) = 1
  BY <1>1, FirstIsLeast
<1> QED BY <1>1, <1>2

(* Of two keys the second counts if the first is not there.                *)
LEMMA FirstKeyCounts ==
    ASSUME NEW raw, NEW k, NEW l
    PROVE  FirstThere(raw, <<k, l>>) = IF ValueOf(raw, k) # "None" THEN ValueOf(raw, k) ELSE ValueOf(raw, l)
<1> DEFINE s == <<k, l>>
           there == {i \in DOMAIN s : ValueOf(raw, s[i]) # "None"}
<1>1. /\ FirstThere(raw, s) = IF there = {} THEN "None" ELSE ValueOf(raw, s[FirstOf(there)])
      /\ there \subseteq {1, 2} /\ there \subseteq Nat
      /\ 1 \in there <=> ValueOf(raw, k) # "None"
      /\ 2 \in there <=> ValueOf(raw, l) # "None"
      /\ s[1] = k /\ s[2] = l
  BY DEF FirstThere
<1> HIDE DEF s, there
<1>2. there # {} => FirstOf(there) \in there /\ \A j \in there : FirstOf(there) <= j
  BY <1>1, FirstIsLeast
<1>3. 1 \in there => FirstOf(there) = 1
  <2>1. 1 \in there => FirstOf(there) \in {1, 2} /\ FirstOf(there) <= 1
    BY <1>1, <1>2
  <2> QED BY <2>1
<1>4. 1 \notin there /\ 2 \in there => FirstOf(there) = 2
  BY <1>1, <1>2
<1>5. FirstThere(raw, s) = IF ValueOf(raw, k) # "None" THEN ValueOf(raw, k) ELSE ValueOf(raw, l)
  BY <1>1, <1>3, <1>4
<1> QED BY <1>5 DEF s

(* NpmDataNormalizer: a documented package.json fits the schema.           *)
LEMMA PackageJsonFits ==
    ASSUME NEW raw, \A k \in DOMAIN raw : raw[k] \in Documented("npm", k)
    PROVE  FitsSchema(normalize("npm", raw))
<1> DEFINE data == _transform_keys(KeyMap["npm"], raw)
           v(k) == ValueOf(raw, k)
           result == NpmNormalize(data)
<1>1. DOMAIN data = {"declared_licenses", "_dependency_tree_lock", "homepage", "version", "description",
                     "dependencies", "devel_dependencies", "bug_reporting", "author", "contributors",
                     "maintainers", "code_repository", "name", "engines", "git_head",
                     "readme", "scripts", "files", "keywords"}
  BY DEF _transform_keys, KeyMap
<1>2. \A k : v(k) = "None" \/ v(k) \in Documented("npm", k)
  BY DEF ValueOf, GetOr
<1>3. \A k \in {"_dependency_tree_lock_file", "engine", "engines", "scripts"} : v(k) \in {"None", "dict"}
  <2>1. \A k \in {"_dependency_tree_lock_file", "engine", "engines", "scripts"} : Documented("npm", k) = {"dict"}
    BY DEF Documented, Documents
  <2> QED BY <1>2, <2>1
<1>4. \A k \in {"author", "bugs", "license", "repository"} : v(k) \in {"None", "str", "dict"}
  <2>1. \A k \in {"author", "bugs", "license", "repository"} : Documented("npm", k) = {"str", "dict"}
    BY DEF Documented, Documents
  <2> QED BY <1>2, <2>1
<1>5. \A k \in {"contributors", "maintainers"} : v(k) \in {"None", "list", "dicts"}
  <2>1. \A k \in {"contributors", "maintainers"} : Documented("npm", k) = {"list", "dicts"}
    BY DEF Documented, Documents
  <2> QED BY <1>2, <2>1
<1>6. \A k \in {"dependencies", "devDependencies"} : v(k) \in {"None", "dict", "{}"}
  <2>1. /\ Documented("npm", "dependencies") = Dictish
        /\ Documented("npm", "devDependencies") = Dictish
    BY DEF Documented, Documents
  <2> QED BY <1>2, <2>1 DEF Dictish
<1>7. \A k \in {"description", "gitHead", "homepage", "name", "readme", "version"} : v(k) \in {"None", "str"}
  <2>1. \A k \in {"description", "gitHead", "homepage", "name", "readme", "version"} : Documented("npm", k) = {"str"}
    BY DEF Documented, Documents
  <2> QED BY <1>2, <2>1
<1>8. \A k \in {"files", "keywords"} : v(k) \in {"None", "list"}
  <2>1. \A k \in {"files", "keywords"} : Documented("npm", k) = {"list"}
    BY DEF Documented, Documents
  <2> QED BY <1>2, <2>1
<1>9. \A k \in {"licenses"} : v(k) \in {"None", "dicts"}
  <2>1. \A k \in {"licenses"} : Documented("npm", k) = {"dicts"}
    BY DEF Documented, Documents
  <2> QED BY <1>2, <2>1
<1> HIDE DEF v
<1>10. /\ data["declared_licenses"] \in {"None", "str", "dict", "dicts"}
  <2>1. data["declared_licenses"] = FirstThere(raw, <<"license", "licenses">>)
    BY DEF _transform_keys, KeyMap
  <2> HIDE DEF data
  <2> QED BY <2>1, <1>4, <1>9, FirstKeyCounts DEF v
<1>11. /\ data["_dependency_tree_lock"] \in {"None", "dict"}
       /\ data["engines"] \in {"None", "dict"}
       /\ data["scripts"] \in {"None", "dict"}
  <2>1. data["_dependency_tree_lock"] = FirstThere(raw, <<"_dependency_tree_lock_file">>)
    BY DEF _transform_keys, KeyMap
  <2>2. data["engines"] = FirstThere(raw, <<"engine", "engines">>)
    BY DEF _transform_keys, KeyMap
  <2>3. data["scripts"] = FirstThere(raw, <<"scripts">>)
    BY DEF _transform_keys, KeyMap
  <2> HIDE DEF data
  <2> QED BY <2>1, <2>2, <2>3, <1>3, OnlyKeyCounts, FirstKeyCounts DEF v
<1>12. /\ data["homepage"] \in {"None", "str"}
       /\ data["version"] \in {"None", "str"}
       /\ data["description"] \in {"None", "str"}
       /\ data["name"] \in {"None", "str"}
       /\ data["git_head"] \in {"None", "str"}
       /\ data["readme"] \in {"None", "str"}
  <2>1. data["homepage"] = FirstThere(raw, <<"homepage">>)
    BY DEF _transform_keys, KeyMap
  <2>2. data["version"] = FirstThere(raw, <<"version">>)
    BY DEF _transform_keys, KeyMap
  <2>3. data["description"] = FirstThere(raw, <<"description">>)
    BY DEF _transform_keys, KeyMap
  <2>4. data["name"] = FirstThere(raw, <<"name">>)
    BY DEF _transform_keys, KeyMap
  <2>5. data["git_head"] = FirstThere(raw, <<"gitHead">>)
    BY DEF _transform_keys, KeyMap
  <2>6. data["readme"] = FirstThere(raw, <<"readme">>)
    BY DEF _transform_keys, KeyMap
  <2> HIDE DEF data
  <2> QED BY <2>1, <2>2, <2>3, <2>4, <2>5, <2>6, <1>7, OnlyKeyCounts DEF v
<1>13. /\ data["dependencies"] \in {"None", "dict", "{}"}
       /\ data["devel_dependencies"] \in {"None", "dict", "{}"}
  <2>1. data["dependencies"] = FirstThere(raw, <<"dependencies">>)
    BY DEF _transform_keys, KeyMap
  <2>2. data["devel_dependencies"] = FirstThere(raw, <<"devDependencies">>)
    BY DEF _transform_keys, KeyMap
  <2> HIDE DEF data
  <2> QED BY <2>1, <2>2, <1>6, OnlyKeyCounts DEF v
<1>14. /\ data["bug_reporting"] \in {"None", "str", "dict"}
       /\ data["author"] \in {"None", "str", "dict"}
       /\ data["code_repository"] \in {"None", "str", "dict"}
  <2>1. data["bug_reporting"] = FirstThere(raw, <<"bugs">>)
    BY DEF _transform_keys, KeyMap
  <2>2. data["author"] = FirstThere(raw, <<"author">>)
    BY DEF _transform_keys, KeyMap
  <2>3. data["code_repository"] = FirstThere(raw, <<"repository">>)
    BY DEF _transform_keys, KeyMap
  <2> HIDE DEF data
  <2> QED BY <2>1, <2>2, <2>3, <1>4, OnlyKeyCounts DEF v
<1>15. /\ data["contributors"] \in {"None", "list", "dicts"}
       /\ data["maintainers"] \in {"None", "list", "dicts"}
  <2>1. data["contributors"] = FirstThere(raw, <<"contributors">>)
    BY DEF _transform_keys, KeyMap
  <2>2. data["maintainers"] = FirstThere(raw, <<"maintainers">>)
    BY DEF _transform_keys, KeyMap
  <2> HIDE DEF data
  <2> QED BY <2>1, <2>2, <1>5, OnlyKeyCounts DEF v
<1>16. /\ data["files"] \in {"None", "list"}
       /\ data["keywords"] \in {"None", "list"}
  <2>1. data["files"] = FirstThere(raw, <<"files">>)
    BY DEF _transform_keys, KeyMap
  <2>2. data["keywords"] = FirstThere(raw, <<"keywords">>)
    BY DEF _transform_keys, KeyMap
  <2> HIDE DEF data
  <2> QED BY <2>1, <2>2, <1>8, OnlyKeyCounts DEF v
<1> HIDE DEF data
<1>20. DOMAIN result = DOMAIN data \cup {"_tests_implemented"} /\ result["_tests_implemented"] = "bool"
  <2> HIDE DEF result
  <2>1. result = NpmNormalize(data)
    BY DEF result
  <2> QED BY <2>1 DEF NpmNormalize
<1>21. \A k \in DOMAIN data \ {"dependencies", "devel_dependencies"} : result[k] = NpmValue(k, data[k])
  <2>1. "_tests_implemented" \notin DOMAIN data
    BY <1>1
  <2>2. DOMAIN NpmSections(data) = {"dependencies", "devel_dependencies"}
    BY DEF NpmSections
  <2> QED BY <2>1, <2>2 DEF NpmNormalize
<1>22. result["dependencies"] = "list" /\ result["devel_dependencies"] = "list"
  <2>1. /\ "dependencies" \in DOMAIN data /\ "devel_dependencies" \in DOMAIN data
        /\ data["dependencies"] \notin Listish
    BY <1>1, <1>13 DEF Listish
  <2>2. /\ DOMAIN NpmSections(data) = {"dependencies", "devel_dependencies"}
        /\ NpmSections(data)["dependencies"] = "list"
        /\ NpmSections(data)["devel_dependencies"] = "list"
    BY <2>1 DEF NpmSections
  <2> QED BY <2>1, <2>2 DEF NpmNormalize
<1> HIDE DEF result
<1>23. result["declared_licenses"] \in {"None", "list"}
  BY <1>1, <1>10, <1>21 DEF NpmValue, Truthy
<1>24. /\ result["_dependency_tree_lock"] \in {"None", "dict"}
       /\ result["engines"] \in {"None", "dict"}
       /\ result["scripts"] \in {"None", "dict"}
  <2>1. result["_dependency_tree_lock"] \in {"None", "dict"}
    BY <1>1, <1>11, <1>21 DEF NpmValue, Dictish
  <2>2. result["engines"] \in {"None", "dict"}
    BY <1>1, <1>11, <1>21 DEF NpmValue, Dictish
  <2>3. result["scripts"] \in {"None", "dict"}
    BY <1>1, <1>11, <1>21 DEF NpmValue, Dictish
  <2> QED BY <2>1, <2>2, <2>3
<1>25. /\ result["homepage"] \in {"None", "str"}
       /\ result["version"] \in {"None", "str"}
       /\ result["description"] \in {"None", "str"}
       /\ result["name"] \in {"None", "str"}
       /\ result["git_head"] \in {"None", "str"}
       /\ result["readme"] \in {"None", "str"}
  <2>1. result["homepage"] \in {"None", "str"}
    BY <1>1, <1>12, <1>21 DEF NpmValue, Dictish
  <2>2. result["version"] \in {"None", "str"}
    BY <1>1, <1>12, <1>21 DEF NpmValue, Dictish
  <2>3. result["description"] \in {"None", "str"}
    BY <1>1, <1>12, <1>21 DEF NpmValue, Dictish
  <2>4. result["name"] \in {"None", "str"}
    BY <1>1, <1>12, <1>21 DEF NpmValue, Dictish
  <2>5. result["git_head"] \in {"None", "str"}
    BY <1>1, <1>12, <1>21 DEF NpmValue, Dictish
  <2>6. result["readme"] \in {"None", "str"}
    BY <1>1, <1>12, <1>21 DEF NpmValue, Dictish
  <2> QED BY <2>1, <2>2, <2>3, <2>4, <2>5, <2>6
<1>26. /\ result["bug_reporting"] \in {"None", "str"} /\ result["author"] \in {"None", "str"}
       /\ result["code_repository"] \in {"None", "dict"}
  BY <1>1, <1>14, <1>21 DEF NpmValue, RepositoryOf, Truthy
<1>27. /\ result["contributors"] \in {"None", "list"}
       /\ result["maintainers"] \in {"None", "list"}
  <2>1. result["contributors"] \in {"None", "list"}
    BY <1>1, <1>15, <1>21 DEF NpmValue, Listish, Dictish
  <2>2. result["maintainers"] \in {"None", "list"}
    BY <1>1, <1>15, <1>21 DEF NpmValue, Listish, Dictish
  <2> QED BY <2>1, <2>2
<1>28. /\ result["files"] \in {"None", "list"}
       /\ result["keywords"] \in {"None", "list"}
  <2>1. result["files"] \in {"None", "list"}
    BY <1>1, <1>16, <1>21 DEF NpmValue
  <2>2. result["keywords"] \in {"None", "list"}
    BY <1>1, <1>16, <1>21 DEF NpmValue
  <2> QED BY <2>1, <2>2
<1>29. FitsSchema(result)
  <2> SUFFICES ASSUME NEW k \in DOMAIN result
               PROVE  FitsKey(k, result[k])
    BY DEF FitsSchema
  <2>1. CASE k \in {"homepage", "version", "description", "name", "git_head", "readme", "bug_reporting", "author"}
    <3>1. result[k] \in {"None", "str"}
      BY <1>25, <1>26, <2>1
    <3>2. k \in Strings
      BY <2>1 DEF Strings
    <3> QED BY <3>1, <3>2 DEF FitsKey
  <2>2. CASE k \in {"declared_licenses", "dependencies", "devel_dependencies", "contributors", "maintainers",
                   "files", "keywords"}
    <3>1. result[k] \in {"None", "list"}
      BY <1>22, <1>23, <1>27, <1>28, <2>2
    <3>2. k \in Lists
      BY <2>2 DEF Lists
    <3> QED BY <3>1, <3>2 DEF FitsKey
  <2>3. CASE k \in {"_dependency_tree_lock", "engines", "scripts", "code_repository"}
    <3>1. result[k] \in {"None", "dict"}
      BY <1>24, <1>26, <2>3
    <3>2. k \in Objects
      BY <2>3 DEF Objects
    <3> QED BY <3>1, <3>2 DEF FitsKey, Dictish
  <2>4. CASE k = "_tests_implemented"
    BY <1>20, <2>4 DEF FitsKey
  <2> QED BY <1>1, <1>20, <2>1, <2>2, <2>3, <2>4
<1>30. normalize("npm", raw) = result
  BY DEF normalize, result, data
<1> QED BY <1>29, <1>30
-----------------------------------------------------------------------------
(* Keys that fit, set on top of keys that fit.                             *)
LEMMA UpdatedFits ==
    ASSUME NEW data, NEW more, FitsSchema(data), FitsSchema(more)
    PROVE  FitsSchema(Updated(data, more))
BY DEF FitsSchema, Updated

(* What a key of a documented manifest holds.                              *)
LEMMA ValueIsDocumented ==
    ASSUME NEW n, NEW raw, \A k \in DOMAIN raw : raw[k] \in Documented(n, k), NEW k
    PROVE  /\ ValueOf(raw, k) = "None" \/ ValueOf(raw, k) \in Documented(n, k)
           /\ \A default : GetOr(raw, k, default) = default \/ GetOr(raw, k, default) \in Documented(n, k)
BY DEF ValueOf, GetOr

(* MavenDataNormalizer: a documented pom.xml fits the schema.              *)
LEMMA PomFits ==
    ASSUME NEW raw, \A k \in DOMAIN raw : raw[k] \in Documented("maven", k)
    PROVE  FitsSchema(normalize("maven", raw))
<1> DEFINE data == _transform_keys(KeyMap["maven"], raw)
           more == MavenAdded(raw)
<1>1. normalize("maven", raw) = IF DOMAIN raw = {} THEN << >> ELSE Updated(data, more)
  BY DEF normalize, Added
<1>2. FitsSchema(<< >>)
  BY DEF FitsSchema
<1>3. FitsSchema(data)
  <2>1. \A k \in {"name", "version", "description", "url"} : Documented("maven", k) = {"str"}
    BY DEF Documented, Documents
  <2>2. Documented("maven", "licenses") = {"list", "[]"}
    BY DEF Documented, Documents
  <2>3. /\ DOMAIN data = {"name", "version", "description", "homepage", "declared_licenses"}
        /\ data["name"] = ValueOf(raw, "name")
        /\ data["version"] = ValueOf(raw, "version")
        /\ data["description"] = ValueOf(raw, "description")
        /\ data["homepage"] = ValueOf(raw, "url")
        /\ data["declared_licenses"] = ValueOf(raw, "licenses")
    BY OnlyKeyCounts DEF _transform_keys, KeyMap
  <2> HIDE DEF data
  <2>4. /\ \A k \in {"name", "version", "description", "homepage"} : data[k] \in {"None", "str"}
        /\ data["declared_licenses"] \in {"None", "list", "[]"}
    BY <2>1, <2>2, <2>3, ValueIsDocumented
  <2> QED BY <2>3, <2>4 DEF FitsSchema, FitsKey, Strings, Lists
<1>4. FitsSchema(more)
  <2>1. Documented("maven", "name") = {"str"} /\ Documented("maven", "scm_url") = {"str"}
    BY DEF Documented, Documents
  <2>2. Documented("maven", "dependencies") = Dictish
    BY DEF Documented, Documents
  <2>3. /\ ValueOf(raw, "name") \in {"None", "str"}
        /\ GetOr(raw, "dependencies", "{}") \in Dictish
        /\ GetOr(raw, "scm_url", "absent") \in {"absent", "str"}
    BY <2>1, <2>2, ValueIsDocumented DEF Dictish
  <2>4. /\ DOMAIN more = {"name", "dependencies", "devel_dependencies", "code_repository"}
        /\ more["name"] \in {"None", "str"}
        /\ more["dependencies"] = "list" /\ more["devel_dependencies"] = "list"
        /\ more["code_repository"] \in {"None", "dict"}
    BY <2>3 DEF MavenAdded
  <2> HIDE DEF more
  <2> QED BY <2>4 DEF FitsSchema, FitsKey, Strings, Lists, Objects, Dictish
<1> QED BY <1>1, <1>2, <1>3, <1>4, UpdatedFits

(* NugetDataNormalizer: a documented .nuspec fits the schema.              *)
LEMMA NuspecFits ==
    ASSUME NEW raw, \A k \in DOMAIN raw : raw[k] \in Documented("nuget", k)
    PROVE  FitsSchema(normalize("nuget", raw))
<1> DEFINE data == _transform_keys(KeyMap["nuget"], raw)
           more == NugetAdded(raw)
<1>1. normalize("nuget", raw) = IF DOMAIN raw = {} THEN << >> ELSE Updated(data, more)
  BY DEF normalize, Added
<1>2. FitsSchema(<< >>)
  BY DEF FitsSchema
<1>3. \A k \in {"Id", "Description", "ProjectUrl", "LicenseUrl", "Tags"} : ValueOf(raw, k) \in {"None", "str"}
  <2>1. \A k \in {"Id", "Description", "ProjectUrl", "LicenseUrl", "Tags"} : Documented("nuget", k) = {"str"}
    BY DEF Documented, Documents
  <2> QED BY <2>1, ValueIsDocumented
<1>4. FitsSchema(data)
  <2>1. /\ DOMAIN data = {"name", "description", "homepage"}
        /\ data["name"] = ValueOf(raw, "Id")
        /\ data["description"] = ValueOf(raw, "Description")
        /\ data["homepage"] = ValueOf(raw, "ProjectUrl")
    BY OnlyKeyCounts DEF _transform_keys, KeyMap
  <2> HIDE DEF data
  <2>2. \A k \in DOMAIN data : data[k] \in {"None", "str"}
    BY <1>3, <2>1
  <2> QED BY <2>1, <2>2 DEF FitsSchema, FitsKey, Strings
<1>5. FitsSchema(more)
  <2>1. /\ Documented("nuget", "Authors") = {"str", "list", "[]"}
        /\ Documented("nuget", "DependencyGroups") = {"dicts", "[]"}
    BY DEF Documented, Documents
  <2>2. /\ ValueOf(raw, "Authors") \in {"None", "str", "list", "[]"}
        /\ GetOr(raw, "DependencyGroups", "[]") \in {"dicts", "[]"}
    BY <2>1, ValueIsDocumented
  <2>3. DOMAIN more = {"author", "declared_licenses", "dependencies", "code_repository", "version", "keywords"}
    BY DEF NugetAdded
  <2>4. more["author"] \in {"None", "str"} /\ more["version"] \in {"None", "str"}
    BY <2>2 DEF NugetAdded, Truthy
  <2>5. more["declared_licenses"] \in {"None", "list"}
    BY <1>3 DEF NugetAdded, ListOf, Truthy
  <2>6. more["dependencies"] \in {"None", "list"}
    BY <2>2 DEF NugetAdded, GroupedDependencies, Objs
  <2>7. more["keywords"] \in {"None", "list"}
    BY <1>3 DEF NugetAdded, _split_keywords, Truthy, Listish
  <2>8. more["code_repository"] \in {"None", "dict"}
    BY <1>3 DEF NugetAdded, GithubRepo, Truthy
  <2> HIDE DEF more
  <2> QED BY <2>3, <2>4, <2>5, <2>6, <2>7, <2>8 DEF FitsSchema, FitsKey, Strings, Lists, Objects, Dictish
<1> QED BY <1>1, <1>2, <1>4, <1>5, UpdatedFits

(* PythonDistDataNormalizer: a documented PKG-INFO or metadata.json fits   *)
(* the schema.                                                             *)
LEMMA PkgInfoFits ==
    ASSUME NEW raw, \A k \in DOMAIN raw : raw[k] \in Documented("pypi", k)
    PROVE  FitsSchema(normalize("pypi", raw))
<1> DEFINE wheel == FromDetails(raw)
           sdist == FromPkgInfo(raw)
           more == PypiAdded(raw)
           S == {"summary", "name", "home-page", "version", "platform", "author", "license", "download-url"}
<1>1. normalize("pypi", raw) = Updated(IF HasDetails(raw) THEN wheel ELSE sdist, more)
  BY DEF normalize, Added
<1>2. \A k \in S : ValueOf(raw, k) \in {"None", "str"}
  <2>1. \A k \in S : Documented("pypi", k) = {"str"}
    BY DEF Documented, Documents
  <2> QED BY <2>1, ValueIsDocumented
<1>3. _split_keywords(ValueOf(raw, "license")) \in {"list", "[]"}
  BY <1>2 DEF _split_keywords, Listish
<1>4. FitsSchema(wheel)
  <2>1. \A k \in {"contacts", "run_requires", "meta_requires"} : Documented("pypi", k) = {"dicts", "[]"}
    BY DEF Documented, Documents
  <2>2. Documented("pypi", "project_urls") = Dictish
    BY DEF Documented, Documents
  <2>3. /\ \A k \in {"contacts", "run_requires", "meta_requires"} : GetOr(raw, k, "[]") \in {"dicts", "[]"}
        /\ GetOr(raw, "project_urls", "{}") \in Dictish
    BY <2>1, <2>2, ValueIsDocumented DEF Dictish
  <2>4. DOMAIN wheel = {"author", "homepage", "description", "dependencies", "name", "version", "declared_licenses"}
    BY DEF FromDetails
  <2>5. wheel["author"] \in {"None", "str"}
    BY <2>3 DEF FromDetails, Objs
  <2>6. wheel["homepage"] \in {"None", "str"}
    BY <2>3 DEF FromDetails, Dictish
  <2>7. wheel["dependencies"] = "list"
    BY <2>3 DEF FromDetails
  <2>8. /\ wheel["description"] \in {"None", "str"}
        /\ wheel["name"] \in {"None", "str"}
        /\ wheel["version"] \in {"None", "str"}
        /\ wheel["declared_licenses"] \in {"list", "[]"}
    BY <1>2, <1>3 DEF FromDetails
  <2> HIDE DEF wheel
  <2> QED BY <2>4, <2>5, <2>6, <2>7, <2>8 DEF FitsSchema, FitsKey, Strings, Lists
<1>5. FitsSchema(sdist)
  <2> DEFINE data == _transform_keys(KeyMap["pypi"], raw)
             both == [author |-> AuthorOf(raw), declared_licenses |-> _split_keywords(ValueOf(raw, "license"))]
  <2>1. Documented("pypi", "requires_dist") = {"list", "[]"}
    BY DEF Documented, Documents
  <2>2. ValueOf(raw, "requires_dist") \in {"None", "list", "[]"}
    BY <2>1, ValueIsDocumented
  <2>3. /\ DOMAIN data = {"description", "dependencies", "name", "homepage", "version", "platform"}
        /\ data["description"] = ValueOf(raw, "summary")
        /\ data["dependencies"] = ValueOf(raw, "requires_dist")
        /\ data["name"] = ValueOf(raw, "name")
        /\ data["homepage"] = ValueOf(raw, "home-page")
        /\ data["version"] = ValueOf(raw, "version")
        /\ data["platform"] = ValueOf(raw, "platform")
    BY OnlyKeyCounts DEF _transform_keys, KeyMap
  <2>4. FitsSchema(data)
    <3> HIDE DEF data
    <3>1. /\ \A k \in {"description", "name", "homepage", "version", "platform"} : data[k] \in {"None", "str"}
          /\ data["dependencies"] \in {"None", "list", "[]"}
      BY <1>2, <2>2, <2>3
    <3> QED BY <2>3, <3>1 DEF FitsSchema, FitsKey, Strings, Lists
  <2>5. FitsSchema(both)
    <3>1. AuthorOf(raw) \in {"None", "str"}
      BY <1>2 DEF AuthorOf
    <3> QED BY <1>3, <3>1 DEF FitsSchema, FitsKey, Strings, Lists
  <2>6. sdist = Updated(data, both)
    BY DEF FromPkgInfo
  <2> QED BY <2>4, <2>5, <2>6, UpdatedFits
<1>6. FitsSchema(more)
  <2>1. /\ Documented("pypi", "extensions") = Dictish
        /\ Documented("pypi", "keywords") = {"str", "list", "[]"}
    BY DEF Documented, Documents
  <2>2. GetOr(raw, "extensions", "{}") \in Dictish
    BY <2>1, ValueIsDocumented DEF Dictish
  <2>3. ValueOf(raw, "keywords") \in {"None", "str", "list", "[]"}
    BY <2>1, ValueIsDocumented
  <2>4. DOMAIN more = {"code_repository", "keywords"}
    BY DEF PypiAdded
  <2>5. more["keywords"] \in {"list", "[]"}
    BY <2>3 DEF PypiAdded, _split_keywords, Listish
  <2>6. more["code_repository"] \in {"None", "dict"}
    BY <1>2, <2>2 DEF PypiAdded, GithubRepo, Truthy
  <2> HIDE DEF more
  <2> QED BY <2>4, <2>5, <2>6 DEF FitsSchema, FitsKey, Lists, Objects, Dictish
<1> HIDE DEF wheel, sdist, more
<1> QED BY <1>1, <1>4, <1>5, <1>6, UpdatedFits

(* PythonRequirementsTxtDataNormalizer: so does a requirements.txt.        *)
LEMMA RequirementsFit ==
    ASSUME NEW raw, \A k \in DOMAIN raw : raw[k] \in Documented("requirements", k)
    PROVE  FitsSchema(normalize("requirements", raw))
<1> DEFINE data == _transform_keys(KeyMap["requirements"], raw)
           more == [dependencies |-> GetOr(raw, "dependencies", "[]")]
<1>1. normalize("requirements", raw) = Updated(data, more)
  BY DEF normalize, Added
<1>2. FitsSchema(data)
  <2>1. DOMAIN data = {}
    BY DEF _transform_keys, KeyMap
  <2> QED BY <2>1 DEF FitsSchema
<1>3. FitsSchema(more)
  <2>1. Documented("requirements", "dependencies") = {"list", "[]"}
    BY DEF Documented, Documents
  <2>2. GetOr(raw, "dependencies", "[]") \in {"list", "[]"}
    BY <2>1, ValueIsDocumented
  <2> QED BY <2>2 DEF FitsSchema, FitsKey, Lists
<1> QED BY <1>1, <1>2, <1>3, UpdatedFits

(* GoGlideDataNormalizer: a glide.yaml with a lock file fits the schema.   *)
LEMMA GlideFits ==
    ASSUME NEW raw, \A k \in DOMAIN raw : raw[k] \in Documented("glide", k), "_dependency_tree_lock_file" \in DOMAIN raw
    PROVE  FitsSchema(normalize("glide", raw))
<1> DEFINE data == _transform_keys(KeyMap["glide"], raw)
           more == GlideAdded(raw)
           lock == ValueOf(raw, "_dependency_tree_lock_file")
<1>1. normalize("glide", raw) = Updated(data, more)
  BY DEF normalize, Added
<1>2. \A k \in {"package", "homepage", "license"} : ValueOf(raw, k) \in {"None", "str"}
  <2>1. \A k \in {"package", "homepage", "license"} : Documented("glide", k) = {"str"}
    BY DEF Documented, Documents
  <2> QED BY <2>1, ValueIsDocumented
<1>3. lock \in Dictish
  <2>1. Documented("glide", "_dependency_tree_lock_file") = Dictish
    BY DEF Documented, Documents
  <2> QED BY <2>1 DEF ValueOf, GetOr
<1>4. FitsSchema(data)
  <2>1. /\ DOMAIN data = {"name", "homepage", "_dependency_tree_lock"}
        /\ data["name"] = ValueOf(raw, "package")
        /\ data["homepage"] = ValueOf(raw, "homepage")
        /\ data["_dependency_tree_lock"] = lock
    BY OnlyKeyCounts DEF _transform_keys, KeyMap
  <2> HIDE DEF data, lock
  <2> QED BY <1>2, <1>3, <2>1 DEF FitsSchema, FitsKey, Strings, Objects
<1>5. FitsSchema(more)
  <2>1. \A k \in {"owners", "import", "testImport"} : Documented("glide", k) = {"dicts", "[]"}
    BY DEF Documented, Documents
  <2>2. /\ ValueOf(raw, "owners") \in {"None", "dicts", "[]"}
        /\ \A k \in {"import", "testImport"} : GetOr(raw, k, "[]") \in {"dicts", "[]"}
    BY <2>1, ValueIsDocumented
  <2>3. DOMAIN more = {"author", "declared_licenses", "dependencies", "devel_dependencies", "_dependency_tree_lock"}
    BY DEF GlideAdded
  <2>4. more["author"] \in {"None", "str"}
    BY <2>2 DEF GlideAdded, Truthy
  <2>5. more["declared_licenses"] \in {"None", "list"}
    BY <1>2 DEF GlideAdded, ListOf, Truthy
  <2>6. more["dependencies"] = "list" /\ more["devel_dependencies"] = "list"
    BY <2>2 DEF GlideAdded, Objs
  <2>7. more["_dependency_tree_lock"] \in Dictish
    BY <1>3 DEF GlideAdded, Dictish
  <2> HIDE DEF more
  <2> QED BY <2>3, <2>4, <2>5, <2>6, <2>7 DEF FitsSchema, FitsKey, Strings, Lists, Objects
<1> QED BY <1>1, <1>4, <1>5, UpdatedFits

(* A glide.yaml without lock file raises.                                  *)
LEMMA UnlockedGlideRaises ==
    ASSUME NEW raw, "_dependency_tree_lock_file" \notin DOMAIN raw
    PROVE  ~FitsSchema(normalize("glide", raw))
<1> DEFINE data == _transform_keys(KeyMap["glide"], raw)
           more == GlideAdded(raw)
           k == "_dependency_tree_lock"
<1>1. normalize("glide", raw) = Updated(data, more)
  BY DEF normalize, Added
<1>2. k \in DOMAIN more /\ more[k] = "raises"
  BY DEF GlideAdded, ValueOf, GetOr
<1> HIDE DEF data, more
<1>3. k \in DOMAIN Updated(data, more) /\ Updated(data, more)[k] = "raises"
  BY <1>2 DEF Updated
<1>4. ~FitsKey(k, "raises")
  BY DEF FitsKey, Dictish
<1> QED BY <1>1, <1>3, <1>4 DEF FitsSchema

(* GodepsDataNormalizer and GoFedlibDataNormalizer: what they read fits.   *)
LEMMA GoFits ==
    ASSUME NEW n \in {"godeps", "gofedlib"}, NEW raw, \A k \in DOMAIN raw : raw[k] \in Documented(n, k)
    PROVE  FitsSchema(normalize(n, raw))
<1> DEFINE data == _transform_keys(KeyMap[n], raw)
           more == Added(n, raw)
<1>1. normalize(n, raw) = Updated(data, more)
  BY DEF normalize
<1>2. FitsSchema(data)
  <2>1. /\ Documented(n, "version") = {"str"} /\ Documented(n, "name") = {"str"}
        /\ Documented(n, "code_repository") = {"dict"}
    <3>1. CASE n = "godeps"
      BY <3>1 DEF Documented, Documents
    <3>2. CASE n = "gofedlib"
      BY <3>2 DEF Documented, Documents
    <3> QED BY <3>1, <3>2
  <2>2. /\ DOMAIN data = {"version", "name", "code_repository"}
        /\ data["version"] = ValueOf(raw, "version")
        /\ data["name"] = ValueOf(raw, "name")
        /\ data["code_repository"] = ValueOf(raw, "code_repository")
    BY OnlyKeyCounts DEF _transform_keys, KeyMap
  <2> HIDE DEF data
  <2>3. /\ data["version"] \in {"None", "str"} /\ data["name"] \in {"None", "str"}
        /\ data["code_repository"] \in {"None", "dict"}
    BY <2>1, <2>2, ValueIsDocumented
  <2> QED BY <2>2, <2>3 DEF FitsSchema, FitsKey, Strings, Objects, Dictish
<1>3. DOMAIN more = {"dependencies"} /\ more["dependencies"] = "list"
  <2>1. CASE n = "godeps"
    <3>1. Documented("godeps", "Deps") = {"dicts", "[]"}
      BY DEF Documented, Documents
    <3>2. GetOr(raw, "Deps", "[]") \in Objs
      BY <2>1, <3>1, ValueIsDocumented DEF Objs
    <3> QED BY <2>1, <3>2 DEF Added, GodepsAdded
  <2>2. CASE n = "gofedlib"
    <3>1. \A k \in {"deps-main", "deps-packages"} : Documented("gofedlib", k) = {"list", "[]"}
      BY DEF Documented, Documents
    <3>2. \A k \in {"deps-main", "deps-packages"} : GetOr(raw, k, "[]") \in {"list", "[]"}
      BY <2>2, <3>1, ValueIsDocumented
    <3> QED BY <2>2, <3>2 DEF Added, GofedlibAdded
  <2> QED BY <2>1, <2>2
<1> HIDE DEF data, more
<1>4. FitsSchema(more)
  BY <1>3 DEF FitsSchema, FitsKey, Lists
<1> QED BY <1>1, <1>2, <1>4, UpdatedFits

(* The task of a package with a documented manifest does not fail.         *)
LEMMA DocumentedFits == MetadataInit => DocumentedManifestFits
<1> SUFFICES ASSUME MetadataInit, mercatorInput.is = "manifest"
             PROVE  DocumentedManifestFits
  BY DEF DocumentedManifestFits
<1> DEFINE n == mercatorInput.of.normalizer
           raw == mercatorInput.of.raw
<1>1. n \in {"npm", "maven", "nuget", "pypi", "requirements", "glide", "godeps", "gofedlib"}
  <2>1. mercatorInput.of \in RawManifests
    BY DEF MetadataInit, Input
  <2> QED BY <2>1, MetadataAssumption
<1>2. DocumentedManifestFits <=>
          IF n = "glide" /\ "_dependency_tree_lock_file" \notin DOMAIN raw
          THEN ~FitsSchema(normalize(n, raw))
          ELSE (\A k \in DOMAIN raw : raw[k] \in Documented(n, k)) => FitsSchema(normalize(n, raw))
  BY DEF DocumentedManifestFits, AsDocumented
<1> HIDE DEF n, raw
<1>3. CASE n \in {"godeps", "gofedlib"}
  BY <1>2, <1>3, GoFits
<1>4. CASE n = "glide" /\ "_dependency_tree_lock_file" \notin DOMAIN raw
  BY <1>2, <1>4, UnlockedGlideRaises
<1>5. CASE n = "glide" /\ "_dependency_tree_lock_file" \in DOMAIN raw
  BY <1>2, <1>5, GlideFits
<1>6. CASE n = "npm"
  BY <1>2, <1>6, PackageJsonFits
<1>7. CASE n = "maven"
  BY <1>2, <1>7, PomFits
<1>8. CASE n = "nuget"
  BY <1>2, <1>8, NuspecFits
<1>9. CASE n = "pypi"
  BY <1>2, <1>9, PkgInfoFits
<1>10. CASE n = "requirements"
  BY <1>2, <1>10, RequirementsFit
<1> QED BY <1>1, <1>3, <1>4, <1>5, <1>6, <1>7, <1>8, <1>9, <1>10

(* A license under either key is found.                                    *)
LEMMA LicenseIsFound == LicenseIsNotLost
<1> SUFFICES ASSUME mercatorInput.is = "manifest", mercatorInput.of.normalizer = "npm"
             PROVE  LicenseIsNotLost
  BY DEF LicenseIsNotLost
<1> DEFINE raw == mercatorInput.of.raw
           forms == {"str", "dict", "dicts"}
           data == _transform_keys(KeyMap["npm"], raw)
           a == ValueOf(raw, "license")
           b == ValueOf(raw, "licenses")
           o == "declared_licenses"
<1>1. LicenseIsNotLost <=>
          ((a \in forms \/ b \in forms) /\ a \in forms \cup {"None"} /\ b \in forms \cup {"None"}
           => normalize("npm", raw)[o] = "list")
  BY DEF LicenseIsNotLost
<1>2. o \in DOMAIN data /\ data[o] = FirstThere(raw, <<"license", "licenses">>)
  BY DEF _transform_keys, KeyMap
<1>3. data[o] = IF a # "None" THEN a ELSE b
  BY <1>2, FirstKeyCounts
<1>4. normalize("npm", raw) = NpmNormalize(data)
  BY DEF normalize
<1> HIDE DEF data, raw
<1>5. NpmNormalize(data)[o] = NpmValue(o, data[o])
  <2>1. o # "_tests_implemented" /\ o \notin DOMAIN NpmSections(data)
    BY DEF NpmSections
  <2> QED BY <1>2, <2>1 DEF NpmNormalize
<1>6. \A v \in forms : NpmValue(o, v) = "list"
  BY DEF NpmValue, Truthy
<1> HIDE DEF a, b
<1>7. (a \in forms \/ b \in forms) /\ a \in forms \cup {"None"} /\ b \in forms \cup {"None"} => data[o] \in forms
  BY <1>3
<1> QED BY <1>1, <1>4, <1>5, <1>6, <1>7
-----------------------------------------------------------------------------
(* The loop of _merge_python_items, one item at a time.                    *)
PassedBy(C, s, eco, i) ==
    IF i = 0 THEN Nothing ELSE IF Takes(eco, C[i - 1], s[i]) THEN s[i] ELSE C[i - 1]

Loop(s, eco, n) == CHOOSE C : C = [i \in 0..n |-> PassedBy(C, s, eco, i)]

(* Its course over any number of items is determined.                      *)
LEMMA LoopIsDefined ==
    ASSUME NEW s, NEW eco, NEW n \in Nat
    PROVE  Loop(s, eco, n) = [i \in 0..n |-> PassedBy(Loop(s, eco, n), s, eco, i)]
<1> DEFINE Runs(m) == \E C : C = [i \in 0..m |-> PassedBy(C, s, eco, i)]
           T == {m \in Nat : ~Runs(m)}
<1>1. Runs(0)
  <2> DEFINE C == [i \in 0..0 |-> Nothing]
  <2>1. C = [i \in 0..0 |-> PassedBy(C, s, eco, i)]
    BY DEF PassedBy
  <2> QED BY <2>1
<1>2. ASSUME NEW m \in Nat, Runs(m)
      PROVE  Runs(m + 1)
  <2>1. PICK C : C = [i \in 0..m |-> PassedBy(C, s, eco, i)]
    BY <1>2
  <2> DEFINE last == IF Takes(eco, C[m], s[m + 1]) THEN s[m + 1] ELSE C[m]
             D == [i \in 0..(m + 1) |-> IF i = m + 1 THEN last ELSE C[i]]
  <2>2. ASSUME NEW i \in 0..(m + 1)
        PROVE  D[i] = PassedBy(D, s, eco, i)
    <3>1. CASE i = m + 1
      <4>1. D[i] = last /\ i # 0 /\ i - 1 = m /\ m \in 0..(m + 1) /\ m # m + 1
        BY <3>1
      <4>2. D[i - 1] = C[m]
        BY <4>1
      <4> HIDE DEF D
      <4> QED BY <3>1, <4>1, <4>2 DEF PassedBy
    <3>2. CASE i = 0
      <4>1. i \in 0..m /\ i # m + 1
        BY <3>2
      <4>2. D[i] = C[i]
        BY <4>1
      <4>3. C[i] = PassedBy(C, s, eco, i)
        BY <2>1, <4>1
      <4> QED BY <3>2, <4>2, <4>3 DEF PassedBy
    <3>3. CASE i # 0 /\ i # m + 1
      <4>1. i \in 0..m /\ i - 1 \in 0..(m + 1) /\ i - 1 # m + 1
        BY <3>3
      <4>2. D[i] = C[i] /\ D[i - 1] = C[i - 1]
        BY <3>3, <4>1
      <4>3. C[i] = PassedBy(C, s, eco, i)
        BY <2>1, <4>1
      <4> HIDE DEF D
      <4> QED BY <3>3, <4>2, <4>3 DEF PassedBy
    <3> QED BY <3>1, <3>2, <3>3
  <2>3. D = [i \in 0..(m + 1) |-> D[i]]
    OBVIOUS
  <2> HIDE DEF D
  <2>4. D = [i \in 0..(m + 1) |-> PassedBy(D, s, eco, i)]
    BY <2>2, <2>3
  <2> QED BY <2>4
<1>3. T = {}
  <2> SUFFICES ASSUME T # {}
               PROVE  FALSE
    OBVIOUS
  <2>1. PICK m \in T : \A k \in T : m <= k
    <3> HIDE DEF T
    <3>1. T \subseteq Nat
      BY DEF T
    <3> QED BY <3>1, LeastNatural
  <2>2. m \in Nat /\ ~Runs(m)
    OBVIOUS
  <2> HIDE DEF Runs
  <2>3. m # 0
    BY <1>1, <2>2
  <2>4. m - 1 \in Nat /\ (m - 1) + 1 = m /\ ~(m <= m - 1)
    BY <2>2, <2>3
  <2>5. Runs(m - 1)
    BY <2>1, <2>4
  <2> QED BY <1>2, <2>2, <2>4, <2>5
<1>4. Runs(n)
  <2> HIDE DEF Runs
  <2> QED BY <1>3
<1> QED BY <1>4 DEF Loop

Item == [eco : STRING, depth : Nat, egg : BOOLEAN]

Better(eco, a, b) == IF eco = "sdist" THEN PreferPkgInfo(b, a) ELSE Nearer(b, a)

(* Which of two files counts is a strict order of their places.            *)
LEMMA BetterIsAnOrder ==
    ASSUME NEW eco, NEW a \in Item, NEW b \in Item, NEW c \in Item
    PROVE  /\ ~Better(eco, a, a)
           /\ Better(eco, a, b) /\ Better(eco, b, c) => Better(eco, a, c)
           /\ ~Better(eco, a, b) /\ ~Better(eco, b, a) =>
                  a.depth = b.depth /\ (eco = "sdist" => a.egg = b.egg)
<1>1. a.depth \in Nat /\ b.depth \in Nat /\ c.depth \in Nat
  BY DEF Item
<1>2. a.egg \in BOOLEAN /\ b.egg \in BOOLEAN /\ c.egg \in BOOLEAN
  BY DEF Item
<1>3. CASE eco # "sdist"
  BY <1>1, <1>3 DEF Better, Nearer
<1>4. CASE eco = "sdist"
  <2> DEFINE In(x) == x.egg = TRUE
  <2>1. ASSUME NEW x, NEW y, x.egg \in BOOLEAN, y.egg \in BOOLEAN
        PROVE  Better(eco, x, y) <=> IF In(x) <=> In(y) THEN y.depth > x.depth ELSE In(x)
    <3>1. Better(eco, x, y) <=> IF y.egg = x.egg THEN y.depth > x.depth ELSE x.egg
      BY <1>4, Zenon DEF Better, PreferPkgInfo
    <3>2. (y.egg = x.egg) <=> (In(x) <=> In(y))
      BY <2>1, Zenon
    <3>3. x.egg <=> In(x)
      BY <2>1, Zenon
    <3> HIDE DEF In
    <3>4. CASE In(x) <=> In(y)
      BY <3>1, <3>2, <3>4, Zenon
    <3>5. CASE ~(In(x) <=> In(y))
      BY <3>1, <3>2, <3>3, <3>5, Zenon
    <3> QED BY <3>4, <3>5
  <2>2. a.egg = b.egg <=> (In(a) <=> In(b))
    BY <1>2, Zenon
  <2> HIDE DEF In
  <2>3. ~Better(eco, a, a)
    BY <1>1, <1>2, <2>1
  <2>4. Better(eco, a, b) /\ Better(eco, b, c) => Better(eco, a, c)
    BY <1>1, <1>2, <2>1
  <2>5. ~Better(eco, a, b) /\ ~Better(eco, b, a) => a.depth = b.depth /\ (In(a) <=> In(b))
    BY <1>1, <1>2, <2>1
  <2> QED BY <2>2, <2>3, <2>4, <2>5
<1> QED BY <1>3, <1>4
-----------------------------------------------------------------------------
Kinds == {"wheel", "sdist", "requirements"}

Own(s, eco) == {i \in DOMAIN s : s[i].eco = eco}

(* The loop ends with a file of the kind that no other one is better than. *)
LEMMA ChosenIsBest ==
    ASSUME NEW eco \in Kinds, NEW s \in Seq(Item)
    PROVE  \/ Own(s, eco) = {} /\ Chosen(s, eco) = Nothing
           \/ \E i \in Own(s, eco) : /\ Chosen(s, eco) = s[i]
                                     /\ \A k \in Own(s, eco) : ~Better(eco, s[k], s[i])
<1> DEFINE n == Len(s)
           C == Loop(s, eco, n)
           O == Own(s, eco)
<1>1. n \in Nat /\ DOMAIN s = 1..n /\ \A i \in 1..n : s[i] \in Item
  OBVIOUS
<1>2. C = [i \in 0..n |-> PassedBy(C, s, eco, i)]
  BY <1>1, LoopIsDefined
<1>3. Chosen(s, eco) = C[n]
  BY DEF Chosen, Loop, PassedBy
<1>4. O \subseteq 1..n /\ \A i \in 1..n : i \in O <=> s[i].eco = eco
  BY <1>1 DEF Own
<1>5. \A i \in O : s[i] # Nothing
  BY <1>4 DEF Nothing, Kinds
<1> HIDE DEF C, O, n
<1>6. C[0] = Nothing
  BY <1>1, <1>2 DEF PassedBy
<1>7. \A i \in 1..n : C[i] = IF Takes(eco, C[i - 1], s[i]) THEN s[i] ELSE C[i - 1]
  <2> SUFFICES ASSUME NEW i \in 1..n
               PROVE  C[i] = IF Takes(eco, C[i - 1], s[i]) THEN s[i] ELSE C[i - 1]
    OBVIOUS
  <2>1. i \in 0..n /\ i # 0
    BY <1>1
  <2>2. C[i] = PassedBy(C, s, eco, i)
    BY <1>2, <2>1
  <2> QED BY <2>1, <2>2 DEF PassedBy
<1>8. \A old, i : Takes(eco, old, s[i]) <=> s[i].eco = eco /\ (old = Nothing \/ Better(eco, s[i], old))
  BY DEF Takes, Better
<1> DEFINE None(i) == C[i] = Nothing /\ \A k \in O : ~(k <= i)
           Best(i, j) == C[i] = s[j] /\ j <= i /\ \A k \in O : k <= i => ~Better(eco, s[k], s[j])
           Fine(i) == None(i) \/ \E j \in O : Best(i, j)
           T == {i \in 0..n : ~Fine(i)}
<1>9. Fine(0)
  BY <1>1, <1>4, <1>6
<1>10. ASSUME NEW i \in 1..n, Fine(i - 1)
       PROVE  Fine(i)
  <2>0. i \in Nat /\ i - 1 \in Nat /\ i - 1 <= i /\ i <= i /\ \A k \in O : k <= i <=> k <= i - 1 \/ k = i
    BY <1>1, <1>4
  <2>1. CASE i \notin O
    <3>1. C[i] = C[i - 1]
      BY <1>4, <1>7, <1>8, <2>1
    <3>2. None(i - 1) => None(i)
      BY <2>0, <2>1, <3>1
    <3>3. ASSUME NEW j \in O, Best(i - 1, j)
          PROVE  Best(i, j)
      BY <1>1, <1>4, <2>0, <2>1, <3>1, <3>3
    <3> QED BY <1>10, <3>2, <3>3
  <2>2. CASE i \in O
    <3>0. s[i].eco = eco /\ s[i] \in Item /\ ~Better(eco, s[i], s[i])
      BY <1>1, <1>4, <2>2, BetterIsAnOrder
    <3>1. CASE None(i - 1)
      <4>1. C[i] = s[i]
        BY <1>7, <1>8, <3>0, <3>1
      <4>2. Best(i, i)
        BY <2>0, <3>0, <3>1, <4>1
      <4> QED BY <2>2, <4>2
    <3>2. CASE \E j \in O : Best(i - 1, j)
      <4>1. PICK j \in O : Best(i - 1, j)
        BY <3>2
      <4>2. C[i - 1] = s[j] /\ s[j] # Nothing /\ s[j] \in Item /\ j <= i
        BY <1>1, <1>4, <1>5, <2>0, <4>1
      <4>3. CASE Better(eco, s[i], s[j])
        <5>1. C[i] = s[i]
          BY <1>7, <1>8, <3>0, <4>2, <4>3
        <5>2. ASSUME NEW k \in O, k <= i
              PROVE  ~Better(eco, s[k], s[i])
          <6>1. CASE k = i
            BY <3>0, <6>1
          <6>2. CASE k # i
            <7>1. ~Better(eco, s[k], s[j]) /\ s[k] \in Item
              BY <1>1, <1>4, <2>0, <4>1, <5>2, <6>2
            <7> QED BY <3>0, <4>2, <4>3, <7>1, BetterIsAnOrder
          <6> QED BY <6>1, <6>2
        <5>3. Best(i, i)
          BY <2>0, <5>1, <5>2
        <5> QED BY <2>2, <5>3
      <4>4. CASE ~Better(eco, s[i], s[j])
        <5>1. C[i] = s[j]
          BY <1>7, <1>8, <4>2, <4>4
        <5>2. Best(i, j)
          BY <2>0, <4>1, <4>2, <4>4, <5>1
        <5> QED BY <5>2
      <4> QED BY <4>3, <4>4
    <3> QED BY <1>10, <3>1, <3>2
  <2> QED BY <2>1, <2>2
<1>11. T = {}
  <2> SUFFICES ASSUME T # {}
               PROVE  FALSE
    OBVIOUS
  <2>1. PICK m \in T : \A k \in T : m <= k
    <3> HIDE DEF T
    <3>1. T \subseteq Nat
      BY <1>1 DEF T
    <3> QED BY <3>1, LeastNatural
  <2>2. m \in 0..n /\ ~Fine(m)
    OBVIOUS
  <2> HIDE DEF Fine
  <2>3. m # 0
    BY <1>9, <2>2
  <2>4. m - 1 \in 0..n /\ m \in 1..n /\ ~(m <= m - 1)
    BY <1>1, <2>2, <2>3
  <2>5. Fine(m - 1)
    BY <2>1, <2>4
  <2> QED BY <1>10, <2>2, <2>4, <2>5
<1>12. Fine(n)
  <2> HIDE DEF Fine
  <2> QED BY <1>1, <1>11
<1>13. \A k \in O : k <= n
  BY <1>1, <1>4
<1>14. CASE None(n)
  BY <1>3, <1>13, <1>14 DEF O
<1>15. CASE \E j \in O : Best(n, j)
  BY <1>3, <1>13, <1>15 DEF O
<1> QED BY <1>12, <1>14, <1>15

(* Two lists of the same files give the same one, whatever their order.    *)
LEMMA ChosenWhateverTheOrder ==
    ASSUME NEW eco \in Kinds, NEW s \in Seq(Item), NEW t \in Seq(Item),
           \A i \in DOMAIN s : s[i].egg => s[i].eco = "sdist",
           \A i \in DOMAIN s : \E j \in DOMAIN t : s[i] = t[j],
           \A j \in DOMAIN t : \E i \in DOMAIN s : s[i] = t[j]
    PROVE  Chosen(s, eco) = Chosen(t, eco)
<1>1. \A i \in Own(s, eco) : \E j \in Own(t, eco) : s[i] = t[j]
  BY DEF Own
<1>2. \A j \in Own(t, eco) : \E i \in Own(s, eco) : s[i] = t[j]
  BY DEF Own
<1>3. CASE Own(s, eco) = {}
  BY <1>2, <1>3, ChosenIsBest
<1>4. CASE Own(s, eco) # {}
  <2>1. PICK i \in Own(s, eco) : Chosen(s, eco) = s[i] /\ \A k \in Own(s, eco) : ~Better(eco, s[k], s[i])
    BY <1>4, ChosenIsBest
  <2>2. PICK j \in Own(t, eco) : Chosen(t, eco) = t[j] /\ \A k \in Own(t, eco) : ~Better(eco, t[k], t[j])
    BY <1>1, <1>4, ChosenIsBest
  <2> DEFINE a == s[i]
             b == t[j]
  <2>3. a \in Item /\ b \in Item /\ a.eco = eco /\ b.eco = eco
    BY DEF Own
  <2>4. PICK k \in DOMAIN s : b = s[k]
    BY DEF Own
  <2>9. (a.egg => a.eco = "sdist") /\ (s[k].egg => s[k].eco = "sdist")
    BY Zenon DEF Own
  <2>10. (a.egg => eco = "sdist") /\ (b.egg => eco = "sdist")
    BY <2>3, <2>4, <2>9, Zenon
  <2>5. ~Better(eco, a, b) /\ ~Better(eco, b, a)
    BY <1>1, <1>2, <2>1, <2>2
  <2> HIDE DEF a, b
  <2>6. a.depth = b.depth /\ (eco = "sdist" => a.egg = b.egg)
    BY <2>3, <2>5, BetterIsAnOrder
  <2>7. a.egg = b.egg
    <3>1. a.egg \in BOOLEAN /\ b.egg \in BOOLEAN
      BY <2>3 DEF Item
    <3> QED BY <2>10, <2>6, <3>1, Zenon
  <2>8. a = b
    <3>1. \A x \in Item : x = [eco |-> x.eco, depth |-> x.depth, egg |-> x.egg]
      BY DEF Item
    <3>2. a = [eco |-> a.eco, depth |-> a.depth, egg |-> a.egg] /\ b = [eco |-> b.eco, depth |-> b.depth, egg |-> b.egg]
      BY <2>3, <3>1, Zenon
    <3> QED BY <2>3, <2>6, <2>7, <3>2, Zenon
  <2> QED BY <2>1, <2>2, <2>8 DEF a, b
<1> QED BY <1>3, <1>4
-----------------------------------------------------------------------------
(* The manifest of a Python package is that of its files, in any order.    *)
LEMMA MergedInAnyOrder ==
    ASSUME NEW s \in Seq(Item),
           \A i \in DOMAIN s : s[i].egg => s[i].eco = "sdist"
    PROVE  _merge_python_items(s) = _merge_python_items([i \in DOMAIN s |-> s[Len(s) + 1 - i]])
<1> DEFINE n == Len(s)
           t == [i \in DOMAIN s |-> s[Len(s) + 1 - i]]
<1>1. n \in Nat /\ DOMAIN s = 1..n /\ \A i \in 1..n : s[i] \in Item
  OBVIOUS
<1>2. DOMAIN t = 1..n /\ \A i \in 1..n : n + 1 - i \in 1..n /\ t[i] = s[n + 1 - i] /\ n + 1 - (n + 1 - i) = i
  BY <1>1
<1>3. t \in [1..n -> Item]
  <2>1. t = [i \in 1..n |-> t[i]]
    BY <1>1
  <2> HIDE DEF t, n
  <2> QED BY <1>1, <1>2, <2>1
<1>4. t \in Seq(Item)
  <2> HIDE DEF t, n
  <2> QED BY <1>1, <1>3
<1> HIDE DEF t, n
<1>5. \A i \in DOMAIN s : \E j \in DOMAIN t : s[i] = t[j]
  BY <1>1, <1>2
<1>6. \A j \in DOMAIN t : \E i \in DOMAIN s : s[i] = t[j]
  BY <1>1, <1>2
<1>7. \A eco \in Kinds : Chosen(s, eco) = Chosen(t, eco)
  BY <1>4, <1>5, <1>6, ChosenWhateverTheOrder, Zenon
<1>8. Chosen(s, "wheel") = Chosen(t, "wheel") /\ Chosen(s, "sdist") = Chosen(t, "sdist")
      /\ Chosen(s, "requirements") = Chosen(t, "requirements")
  BY <1>7 DEF Kinds
<1> QED BY <1>8, Zenon DEF _merge_python_items, t

(* An outermost manifest is no deeper than any other in the tree.          *)
LEMMA OutermostIsNearest ==
    ASSUME NEW s \in Seq(Item), NEW i \in DOMAIN get_outermost_items(s), NEW j \in DOMAIN s
    PROVE  /\ get_outermost_items(s)[i].depth <= s[j].depth
           /\ \E m \in Nat : DOMAIN get_outermost_items(s) = 1..m
<1> DEFINE n == Len(s)
           O == {k \in DOMAIN s : \A l \in DOMAIN s : s[k].depth <= s[l].depth}
           outer == get_outermost_items(s)
<1>1. n \in Nat /\ DOMAIN s = 1..n /\ O \subseteq 1..n
  OBVIOUS
<1>2. outer = Picked(s, O)
  BY DEF get_outermost_items
<1>3. \A l \in O : s[l].depth <= s[j].depth
  OBVIOUS
<1> HIDE DEF n, O, outer
<1>4. /\ Cardinality(O) \in Nat /\ DOMAIN Picked(s, O) = 1..Cardinality(O)
      /\ \A k \in 1..Cardinality(O) : \E l \in O : Picked(s, O)[k] = s[l]
  <2>1. O \in SUBSET (1..n)
    BY <1>1
  <2> QED BY <1>1, <2>1, PickedIsThere
<1>5. i \in 1..Cardinality(O)
  BY <1>2, <1>4 DEF outer
<1>6. PICK l \in O : outer[i] = s[l]
  BY <1>2, <1>4, <1>5
<1> QED BY <1>2, <1>3, <1>4, <1>6 DEF outer

(* Nor is one of a given ecosystem.                                        *)
LEMMA OutermostIsPicked ==
    ASSUME NEW s \in Seq(Item), NEW eco, NEW i \in DOMAIN OfEcosystem(eco, get_outermost_items(s)),
           NEW j \in DOMAIN s
    PROVE  OfEcosystem(eco, get_outermost_items(s))[i].depth <= s[j].depth
<1> DEFINE outer == get_outermost_items(s)
           T == {k \in DOMAIN outer : outer[k].eco = eco}
<1>1. OfEcosystem(eco, outer) = Picked(outer, T)
  BY DEF OfEcosystem
<1>2. \A k \in DOMAIN outer : outer[k].depth <= s[j].depth /\ \E m \in Nat : DOMAIN outer = 1..m
  BY OutermostIsNearest
<1>3. PICK m \in Nat : DOMAIN outer = 1..m
  <2>1. CASE DOMAIN outer = {}
    <3>1. DOMAIN outer = 1..0
      BY <2>1
    <3> QED BY <3>1
  <2> QED BY <1>2, <2>1
<1> HIDE DEF outer
<1>4. T \in SUBSET (1..m) /\ i \in DOMAIN Picked(outer, T)
  BY <1>1, <1>3 DEF outer
<1>5. PICK k \in T : Picked(outer, T)[i] = outer[k]
  <2> HIDE DEF T
  <2>1. /\ DOMAIN Picked(outer, T) = 1..Cardinality(T)
        /\ \A k \in 1..Cardinality(T) : \E l \in T : Picked(outer, T)[k] = outer[l]
    BY <1>3, <1>4, PickedIsThere
  <2> QED BY <1>4, <2>1
<1> QED BY <1>1, <1>2, <1>5 DEF outer

(* A manifest that is read is no deeper than any other in the tree.        *)
LEMMA ReadIsOutermost ==
    ASSUME NEW s \in Seq(Item), NEW eco, eco # "pypi",
           NEW i \in DOMAIN Selected(eco, s), NEW j \in DOMAIN s
    PROVE  Selected(eco, s)[i].depth <= s[j].depth
<1> DEFINE outer == get_outermost_items(s)
<1>1. s[j].depth \in Nat
  <2>1. s[j] \in Item
    OBVIOUS
  <2> QED BY <2>1 DEF Item
<1>2. CASE eco = "go" /\ outer = << >>
  <2>1. Selected(eco, s) = <<[eco |-> "gofedlib", depth |-> 0, egg |-> FALSE]>>
    BY <1>2 DEF Selected
  <2> QED BY <1>1, <2>1
<1>3. CASE ~(eco = "go" /\ outer = << >>)
  <2>1. Selected(eco, s) = OfEcosystem(eco, outer) \/ Selected(eco, s) = outer
    BY <1>3 DEF Selected
  <2> QED BY <2>1, OutermostIsPicked, OutermostIsNearest
<1> QED BY <1>2, <1>3

(* The metadata are those of the package.                                  *)
THEOREM MetadataAlwaysOfPackage == MetadataInit => MetadataIsOfPackage
<1> SUFFICES ASSUME MetadataInit
             PROVE  MetadataIsOfPackage
  OBVIOUS
<1>1. mercatorInput.is = "tree" => /\ mercatorInput.of.items \in Seq(Item)
                                   /\ \A i \in DOMAIN mercatorInput.of.items :
                                          mercatorInput.of.items[i].egg => mercatorInput.of.items[i].eco = "sdist"
  <2>1. mercatorInput.is = "tree" => mercatorInput.of \in Trees
    BY DEF MetadataInit, Input
  <2> QED BY <2>1, MetadataAssumption, Zenon DEF Item
<1>2. MergedWhateverTheOrder
  BY <1>1, MergedInAnyOrder, Zenon DEF MergedWhateverTheOrder
<1>3. NothingFromBelow
  BY <1>1, ReadIsOutermost, Zenon DEF NothingFromBelow
<1> QED BY <1>2, <1>3, DocumentedFits, LicenseIsFound DEF MetadataIsOfPackage
-----------------------------------------------------------------------------
(***************************************************************************)
(* RepoNotice: notifications about a repository.                           *)
(***************************************************************************)
(* What lies between two positions of a sequence, picked.                  *)
LEMMA PickedBetween ==
    ASSUME NEW V, NEW s \in Seq(V), NEW a \in Nat \ {0}, NEW b \in Nat, a <= b, b <= Len(s)
    PROVE  Picked(s, a..b) = SubSeq(s, a, b)
<1> DEFINE n == b - a + 1
<1>1. n \in Nat /\ Cardinality(a..b) = n
  <2>1. a \in Int /\ b \in Int /\ (IF a > b THEN 0 ELSE b - a + 1) = n
    OBVIOUS
  <2> QED BY <2>1, FS_Interval
<1>2. \A i \in a..b : Cardinality({j \in a..b : j <= i}) = i - a + 1
  <2> SUFFICES ASSUME NEW i \in a..b
               PROVE  Cardinality({j \in a..b : j <= i}) = i - a + 1
    OBVIOUS
  <2>1. a \in Int /\ i \in Int /\ (IF a > i THEN 0 ELSE i - a + 1) = i - a + 1
    OBVIOUS
  <2>2. {j \in a..b : j <= i} = a..i
    OBVIOUS
  <2> QED BY <2>1, <2>2, FS_Interval
<1>3. \A k \in 1..n : Nth(a..b, k) = k + a - 1
  BY <1>2 DEF Nth
<1>4. Picked(s, a..b) = [k \in 1..n |-> s[k + a - 1]]
  BY <1>1, <1>3 DEF Picked
<1>5. SubSeq(s, a, b) = [k \in 1..n |-> s[k + a - 1]]
  OBVIOUS
<1> QED BY <1>4, <1>5

(* The texts that mvn prints.                                              *)
Texts == UNION {res.direct \cup res.all : res \in Resolutions}

(* A text without an ambiguity is read as the version that it names.       *)
LEMMA ClearIsMeant ==
    ASSUME NEW d \in Texts, ~Ambiguous(d)
    PROVE  VertexOf(d) = Meant(d)
<1> DEFINE n == Len(d)
           s == SubSeq(d, 3, n)
<1>1. /\ d \in Seq(STRING) /\ n \in Nat /\ n >= 5 /\ DOMAIN d = 1..n
      /\ d[1] # ":" /\ d[2] = ":" /\ d[n - 1] = ":" /\ d[n] # ":"
  BY NoticeAssumption DEF Texts
<1>2. /\ \A i \in 3..(n - 1) : ~(d[i] = d[1] /\ d[i + 1] = ":")
      /\ \A i \in 3..(n - 2) : ~(d[i] = ":" /\ d[i + 1] = d[n])
  BY DEF Ambiguous
<1> HIDE DEF n
<1>3. Removed(d, d[1], ":") = s
  <2> DEFINE T == {i \in DOMAIN d : ~BeginsAt(d, d[1], ":", i) /\ ~BeginsAt(d, d[1], ":", i - 1)}
  <2>1. \A i \in 0..n : BeginsAt(d, d[1], ":", i) <=> i = 1
    BY <1>1, <1>2 DEF BeginsAt, n
  <2>2. T = 3..n
    <3>1. T \subseteq 1..n /\ 3..n \subseteq 1..n
      BY <1>1
    <3>2. \A i \in 1..n : i \in T <=> i # 1 /\ i - 1 # 1
      BY <1>1, <2>1
    <3>3. \A i \in 1..n : i \in 3..n <=> i # 1 /\ i - 1 # 1
      BY <1>1
    <3> HIDE DEF T
    <3> QED BY <3>1, <3>2, <3>3
  <2>3. Removed(d, d[1], ":") = Picked(d, T)
    BY DEF Removed
  <2>4. Picked(d, 3..n) = SubSeq(d, 3, n)
    BY <1>1, PickedBetween DEF n
  <2> QED BY <2>2, <2>3, <2>4
<1>4. /\ s \in Seq(STRING) /\ Len(s) = n - 2 /\ DOMAIN s = 1..(n - 2)
      /\ \A i \in 1..(n - 2) : s[i] = d[i + 2]
  <2>1. s \in Seq(STRING) /\ Len(s) = n - 2
    BY <1>1 DEF n
  <2>2. \A i \in 1..(n - 2) : s[i] = d[i + 2]
    BY <1>1
  <2> QED BY <2>1, <2>2
<1> HIDE DEF s
<1>5. Removed(s, ":", d[n]) = SubSeq(s, 1, n - 4)
  <2> DEFINE T == {i \in DOMAIN s : ~BeginsAt(s, ":", d[n], i) /\ ~BeginsAt(s, ":", d[n], i - 1)}
  <2>1. \A i \in 0..(n - 2) : BeginsAt(s, ":", d[n], i) <=> i = n - 3
    <3> SUFFICES ASSUME NEW i \in 0..(n - 2)
                 PROVE  BeginsAt(s, ":", d[n], i) <=> i = n - 3
      OBVIOUS
    <3>1. CASE i = n - 3
      <4>1. s[i] = d[n - 1] /\ s[i + 1] = d[n] /\ i \in 1..(Len(s) - 1)
        BY <1>1, <1>4, <3>1
      <4> QED BY <1>1, <3>1, <4>1 DEF BeginsAt
    <3>2. CASE i \in 1..(n - 4)
      <4>1. s[i] = d[i + 2] /\ s[i + 1] = d[i + 3] /\ i + 2 \in 3..(n - 2) /\ (i + 2) + 1 = i + 3
        BY <1>1, <1>4, <3>2
      <4>2. ~(d[i + 2] = ":" /\ d[(i + 2) + 1] = d[n])
        BY <1>2, <4>1
      <4>3. i # n - 3
        BY <1>1, <3>2
      <4> QED BY <4>1, <4>2, <4>3 DEF BeginsAt
    <3>3. CASE i \notin 1..(n - 3)
      BY <1>1, <1>4, <3>3 DEF BeginsAt
    <3> QED BY <1>1, <3>1, <3>2, <3>3
  <2>2. T = 1..(n - 4)
    <3>1. T \subseteq 1..(n - 2) /\ 1..(n - 4) \subseteq 1..(n - 2)
      BY <1>1, <1>4
    <3>2. \A i \in 1..(n - 2) : i \in T <=> i # n - 3 /\ i - 1 # n - 3
      BY <1>1, <1>4, <2>1
    <3>3. \A i \in 1..(n - 2) : i \in 1..(n - 4) <=> i # n - 3 /\ i - 1 # n - 3
      BY <1>1
    <3> HIDE DEF T
    <3> QED BY <3>1, <3>2, <3>3
  <2>3. Removed(s, ":", d[n]) = Picked(s, T)
    BY DEF Removed
  <2>4. Picked(s, 1..(n - 4)) = SubSeq(s, 1, n - 4)
    <3>1. n - 4 \in Nat /\ 1 <= n - 4 /\ n - 4 <= Len(s) /\ 1 \in Nat \ {0}
      BY <1>1, <1>4
    <3> QED BY <1>4, <3>1, PickedBetween
  <2> QED BY <2>2, <2>3, <2>4
<1>6. SubSeq(s, 1, n - 4) = SubSeq(d, 3, n - 2)
  <2>1. SubSeq(s, 1, n - 4) = [k \in 1..(n - 4) |-> s[k]]
    BY <1>1, <1>4
  <2>2. SubSeq(d, 3, n - 2) = [k \in 1..(n - 4) |-> d[k + 2]]
    BY <1>1
  <2>3. \A k \in 1..(n - 4) : s[k] = d[k + 2]
    BY <1>1, <1>4
  <2> QED BY <2>1, <2>2, <2>3
<1>7. NameOfText(d) = SubSeq(d, 3, n - 2)
  BY <1>3, <1>5, <1>6 DEF NameOfText, n
<1> QED BY <1>7 DEF VertexOf, Meant, n

(* The build before the first one, and what is known of every build.       *)
NoBuild == [direct |-> {}, all |-> {}]

SoundBuild(deps) == \E res \in Resolutions \cup {NoBuild} : deps = Resolve(res)

TextsOf(deps) == deps.direct \cup deps.transitive

LEMMA BuildIsSound ==
    ASSUME NEW deps, SoundBuild(deps)
    PROVE  /\ deps.direct \cap deps.transitive = {}
           /\ IsFiniteSet(TextsOf(deps)) /\ TextsOf(deps) \subseteq Texts
           /\ \A d \in TextsOf(deps) : ~Ambiguous(d) => VertexOf(d) = Meant(d)
<1>1. PICK res \in Resolutions \cup {NoBuild} : deps = Resolve(res)
  BY DEF SoundBuild
<1>2. deps.direct = res.direct /\ deps.transitive = res.all \ res.direct
  BY <1>1 DEF Resolve
<1>3. IsFiniteSet(res.direct \cup res.all) /\ res.direct \cup res.all \subseteq Texts
  <2>1. CASE res \in Resolutions
    BY <2>1, NoticeAssumption, FS_Union DEF Texts
  <2>2. CASE res = NoBuild
    BY <2>2, FS_EmptySet DEF NoBuild
  <2> QED BY <2>1, <2>2
<1>4. TextsOf(deps) = res.direct \cup res.all
  BY <1>2 DEF TextsOf
<1> QED BY <1>2, <1>3, <1>4, ClearIsMeant

VulnerableOf(edges) == {e \in edges : CveIds[e.to] # {}}

(* The CVEs of the versions that texts are read as.                        *)
CvesRead(S) == UNION {{<<d, c>> : c \in CveIds[VertexOf(d)]} : d \in S}

Builds == [direct : SUBSET Texts, transitive : SUBSET Texts]

Notices == [repo : NoticeRepos, resolved : Builds, count : Nat]

(* The versions of a finite build have finitely many CVEs.                 *)
LEMMA CvesAreFinite ==
    ASSUME NEW S, IsFiniteSet(S), \A d \in S : VertexOf(d) \in InGraph
    PROVE  IsFiniteSet(CvesRead(S))
<1> DEFINE Sets == {CveIds[VertexOf(d)] : d \in S}
           f == [d \in S |-> CveIds[VertexOf(d)]]
<1>1. f \in Surjection(S, Sets)
  BY DEF Surjection
<1>2. IsFiniteSet(Sets)
  BY <1>1, FS_Surjection DEF ExistsSurjection
<1>3. \A X \in Sets : IsFiniteSet(X)
  BY NoticeAssumption DEF InGraph
<1>4. IsFiniteSet(UNION Sets)
  <2> HIDE DEF Sets
  <2> QED BY <1>2, <1>3, FS_UNION
<1>5. IsFiniteSet(S \X UNION Sets)
  <2> HIDE DEF Sets
  <2> QED BY <1>4, FS_Product
<1>6. CvesRead(S) \subseteq S \X UNION Sets
  BY DEF CvesRead
<1> HIDE DEF Sets
<1> QED BY <1>5, <1>6, FS_Subset

(* The edges with CVEs list those of the versions, each dependency once:   *)
(* none has both labels.                                                   *)
LEMMA CvesOfEdges ==
    ASSUME NEW deps, SoundBuild(deps)
    PROVE  LET S == CvesRead(Drawn(TextsOf(deps)))
           IN  /\ Cardinality(CvesOf(VulnerableOf(EdgesTo(deps)))) = Cardinality(S)
               /\ IsFiniteSet(S)
<1> DEFINE U == Drawn(TextsOf(deps))
           S == CvesRead(U)
           T == CvesOf(VulnerableOf(EdgesTo(deps)))
           EdgeOf(d) == IF d \in deps.direct THEN Edge(d, "has_dependency")
                        ELSE Edge(d, "has_transitive_dependency")
           h == [p \in S |-> <<EdgeOf(p[1]), p[2]>>]
<1>0. deps.direct \cap deps.transitive = {} /\ IsFiniteSet(TextsOf(deps))
  BY BuildIsSound
<1>1. \A d \in U : EdgeOf(d) \in EdgesTo(deps) /\ EdgeOf(d).of = d /\ EdgeOf(d).to = VertexOf(d)
  BY DEF Drawn, TextsOf, EdgesTo, Edge
<1>2. \A e \in EdgesTo(deps) : e.of \in U /\ e = EdgeOf(e.of) /\ e.to = VertexOf(e.of)
  BY <1>0 DEF Drawn, TextsOf, EdgesTo, Edge
<1>3. \A p : p \in S <=> \E d \in U : \E c \in CveIds[VertexOf(d)] : p = <<d, c>>
  BY DEF CvesRead
<1>4. \A p : p \in T <=> \E e \in EdgesTo(deps) : \E c \in CveIds[e.to] : p = <<e, c>>
  BY DEF CvesOf, VulnerableOf
<1>9. IsFiniteSet(S)
  <2>1. U \subseteq TextsOf(deps) /\ \A d \in U : VertexOf(d) \in InGraph
    BY DEF Drawn
  <2> HIDE DEF U
  <2> QED BY <1>0, <2>1, FS_Subset, CvesAreFinite
<1> HIDE DEF U, S, T, EdgeOf
<1>5. h \in [S -> T]
  <2> SUFFICES ASSUME NEW p \in S
               PROVE  <<EdgeOf(p[1]), p[2]>> \in T
    OBVIOUS
  <2>1. PICK d, c : d \in U /\ c \in CveIds[VertexOf(d)] /\ p = <<d, c>>
    BY <1>3
  <2>2. EdgeOf(d) \in EdgesTo(deps) /\ c \in CveIds[EdgeOf(d).to]
    BY <1>1, <2>1
  <2> QED BY <1>4, <2>1, <2>2
<1>6. ASSUME NEW p \in S, NEW q \in S, h[p] = h[q]
      PROVE  p = q
  <2>1. PICK d, c : d \in U /\ c \in CveIds[VertexOf(d)] /\ p = <<d, c>>
    BY <1>3
  <2>2. PICK g, b : g \in U /\ b \in CveIds[VertexOf(g)] /\ q = <<g, b>>
    BY <1>3
  <2>3. h[p] = <<EdgeOf(d), c>> /\ h[q] = <<EdgeOf(g), b>>
    BY <2>1, <2>2
  <2> HIDE DEF h
  <2>4. <<EdgeOf(d), c>> = <<EdgeOf(g), b>>
    BY <1>6, <2>3, Zenon
  <2>5. EdgeOf(d) = EdgeOf(g) /\ c = b
    BY <2>4
  <2> QED BY <1>1, <2>1, <2>2, <2>5
<1>7. ASSUME NEW t \in T
      PROVE  \E p \in S : h[p] = t
  <2>1. PICK e, c : e \in EdgesTo(deps) /\ c \in CveIds[e.to] /\ t = <<e, c>>
    BY <1>4
  <2>2. e.of \in U /\ e = EdgeOf(e.of) /\ <<e.of, c>> \in S
    BY <1>2, <1>3, <2>1
  <2>3. h[<<e.of, c>>] = t
    BY <2>1, <2>2
  <2> QED BY <2>2, <2>3
<1>8. h \in Bijection(S, T)
  <2> HIDE DEF h
  <2>1. h \in Injection(S, T)
    BY <1>5, <1>6 DEF Injection, IsInjective
  <2>2. h \in Surjection(S, T)
    BY <1>5, <1>7 DEF Surjection
  <2> QED BY <2>1, <2>2 DEF Bijection
<1> QED BY <1>8, <1>9, FS_Bijection DEF ExistsBijection, S, T, U

(* The number n counts the CVEs of the build deps.                         *)
Counts(n, deps) ==
    /\ n >= Cardinality(OwnCves(Clear(deps)))
    /\ (\A d \in TextsOf(deps) : ~Ambiguous(d)) => n = Cardinality(OwnCves(KnownOf(deps)))

(* The edges of a build count its CVEs.                                    *)
LEMMA EdgesCount ==
    ASSUME NEW deps, SoundBuild(deps)
    PROVE  LET n == Cardinality(CvesOf(VulnerableOf(EdgesTo(deps)))) IN n \in Nat /\ Counts(n, deps)
<1> DEFINE S == CvesRead(Drawn(TextsOf(deps)))
           n == Cardinality(CvesOf(VulnerableOf(EdgesTo(deps))))
<1>1. n = Cardinality(S) /\ IsFiniteSet(S)
  BY CvesOfEdges
<1>2. \A d \in TextsOf(deps) : ~Ambiguous(d) => VertexOf(d) = Meant(d)
  BY BuildIsSound
<1>3. OwnCves(Clear(deps)) \subseteq S
  <2>1. \A d \in Clear(deps) : d \in Drawn(TextsOf(deps)) /\ VertexOf(d) = Meant(d)
    BY <1>2 DEF Clear, KnownOf, Drawn, TextsOf
  <2> QED BY <2>1 DEF OwnCves, CvesRead
<1>4. ASSUME \A d \in TextsOf(deps) : ~Ambiguous(d)
      PROVE  OwnCves(KnownOf(deps)) = S
  <2>1. KnownOf(deps) = Drawn(TextsOf(deps)) /\ \A d \in KnownOf(deps) : VertexOf(d) = Meant(d)
    BY <1>2, <1>4 DEF KnownOf, Drawn, TextsOf
  <2> QED BY <2>1 DEF OwnCves, CvesRead
<1> HIDE DEF S, n
<1>5. n \in Nat
  BY <1>1, FS_CardinalityType
<1>6. n >= Cardinality(OwnCves(Clear(deps)))
  <2>1. Cardinality(OwnCves(Clear(deps))) <= Cardinality(S) /\ IsFiniteSet(OwnCves(Clear(deps)))
    BY <1>1, <1>3, FS_Subset
  <2>2. Cardinality(OwnCves(Clear(deps))) \in Nat
    BY <2>1, FS_CardinalityType
  <2> QED BY <1>1, <1>5, <2>1, <2>2
<1> QED BY <1>1, <1>4, <1>5, <1>6 DEF Counts, n

(* The edges of a repository are those of one resolved build.              *)
OneScan(edges) ==
    /\ \E res \in Resolutions \cup {NoBuild} :
          LET deps == Resolve(res)
          IN  /\ {e.of : e \in edges} \subseteq TextsOf(deps)
              /\ Clear(deps) \subseteq {e.of : e \in edges}
    /\ \A e, f \in edges : e.of = f.of => e = f
    /\ \A e \in edges : ~Ambiguous(e.of) => e.to = Meant(e.of)

(* The entries that wait are of the build that was drawn, so they count    *)
(* its CVEs; what is not being sent is empty.                              *)
NoticeInv ==
    /\ ntEdges \in [NoticeRepos -> {ntEdges[r] : r \in NoticeRepos}]
    /\ ntRepo \in NoticeRepos
    /\ ntSent \in Seq(Notices)
    /\ SoundBuild(ntDeps)
    /\ \A r \in ntReport : r.repo \in NoticeRepos /\ r.vulnerable = VulnerableOf(EdgesTo(ntDeps))
    /\ ntPc # "notify" => ntReport = {}
    /\ \A r \in NoticeRepos : OneScan(ntEdges[r])
    /\ \A i \in DOMAIN ntSent : Counts(ntSent[i].count, ntSent[i].resolved)

(* The invariant says what a notification and the graph promise.           *)
LEMMA NoticeInvIsEnough == NoticeInv => NoticeIsOfTheBuild
<1>1. NoticeInv => CountIsOfTheBuild
  BY DEF NoticeInv, CountIsOfTheBuild, Counts, TextsOf
<1>2. NoticeInv => EdgesOfOneScan
  BY DEF NoticeInv, EdgesOfOneScan, OneScan, TextsOf, NoBuild
<1> QED BY <1>1, <1>2 DEF NoticeIsOfTheBuild

(* Edges are drawn to the versions that the texts of the build are read as. *)
LEMMA EdgesAreOfOneScan ==
    ASSUME NEW deps, SoundBuild(deps)
    PROVE  OneScan(EdgesTo(deps))
<1>1. PICK res \in Resolutions \cup {NoBuild} : deps = Resolve(res)
  BY DEF SoundBuild
<1>2. /\ deps.direct \cap deps.transitive = {}
      /\ \A d \in TextsOf(deps) : ~Ambiguous(d) => VertexOf(d) = Meant(d)
  BY BuildIsSound
<1>3. \A e \in EdgesTo(deps) : e.of \in TextsOf(deps) /\ e.to = VertexOf(e.of)
  BY DEF EdgesTo, Drawn, Edge, TextsOf
<1>4. \A d \in Clear(deps) : \E e \in EdgesTo(deps) : e.of = d
  <2> SUFFICES ASSUME NEW d \in Clear(deps)
               PROVE  \E e \in EdgesTo(deps) : e.of = d
    OBVIOUS
  <2>1. Edge(d, "has_dependency").of = d /\ Edge(d, "has_transitive_dependency").of = d
    BY DEF Edge
  <2>2. d \in deps.direct \cup deps.transitive /\ VertexOf(d) \in InGraph
    BY <1>2 DEF Clear, KnownOf, TextsOf
  <2>3. Edge(d, "has_dependency") \in EdgesTo(deps) \/ Edge(d, "has_transitive_dependency") \in EdgesTo(deps)
    BY <2>2 DEF EdgesTo, Drawn
  <2> QED BY <2>1, <2>3
<1>5. \A e, f \in EdgesTo(deps) : e.of = f.of => e = f
  BY <1>2 DEF EdgesTo, Drawn, Edge
<1>6. \A e \in EdgesTo(deps) : ~Ambiguous(e.of) => e.to = Meant(e.of)
  BY <1>2, <1>3
<1>7. /\ {e.of : e \in EdgesTo(deps)} \subseteq TextsOf(Resolve(res))
      /\ Clear(Resolve(res)) \subseteq {e.of : e \in EdgesTo(deps)}
  BY <1>1, <1>3, <1>4
<1> QED BY <1>5, <1>6, <1>7 DEF OneScan

(* What mvn resolves is a build.                                           *)
LEMMA SoundIsBuild ==
    ASSUME NEW deps, SoundBuild(deps)
    PROVE  deps \in Builds
<1>1. PICK res \in Resolutions \cup {NoBuild} : deps = Resolve(res)
  BY DEF SoundBuild
<1>2. TextsOf(deps) \subseteq Texts
  BY BuildIsSound
<1> QED BY <1>1, <1>2 DEF Resolve, Builds, TextsOf

(* At first there is no edge, no report and nothing sent.                  *)
LEMMA NoticeInvInit == NoticeInit => NoticeInv
<1> SUFFICES ASSUME NoticeInit
             PROVE  NoticeInv
  OBVIOUS
<1>1. Resolve(NoBuild) = [direct |-> {}, transitive |-> {}]
  BY DEF Resolve, NoBuild
<1>2. SoundBuild(ntDeps)
  BY <1>1 DEF SoundBuild, NoticeInit
<1>3. OneScan({})
  <2>1. Clear(Resolve(NoBuild)) = {}
    BY <1>1 DEF Clear, KnownOf
  <2> QED BY <2>1 DEF OneScan
<1>4. ntReport = {} /\ ntSent = << >> /\ ntRepo \in NoticeRepos
      /\ ntEdges = [r \in NoticeRepos |-> {}]
  BY DEF NoticeInit
<1>5. \A r \in NoticeRepos : OneScan(ntEdges[r])
  BY <1>3, <1>4
<1> QED BY <1>2, <1>4, <1>5 DEF NoticeInv

(* A new build is resolved only when no entry of the last one waits.       *)
LEMMA ResolveRepoKeepsNoticeInv == NoticeInv /\ ResolveRepo => NoticeInv'
<1> SUFFICES ASSUME NoticeInv, ResolveRepo
             PROVE  NoticeInv'
  OBVIOUS
<1>1. PICK repo \in NoticeRepos, res \in Resolutions : ntRepo' = repo /\ ntDeps' = Resolve(res)
  BY DEF ResolveRepo
<1>2. ntReport = {}
  BY DEF NoticeInv, ResolveRepo
<1>3. SoundBuild(ntDeps)'
  BY <1>1 DEF SoundBuild
<1>4. ntEdges' = ntEdges /\ ntReport' = {} /\ ntSent' = ntSent
  BY <1>2 DEF ResolveRepo
<1> QED BY <1>1, <1>3, <1>4, Zenon DEF NoticeInv, OneScan, Counts

(* The edges that are drawn and the report are of the resolved build,      *)
(* whether or not the answer of the graph arrives.                         *)
LEMMA DrawAndReportKeepsNoticeInv == NoticeInv /\ DrawAndReport => NoticeInv'
<1> SUFFICES ASSUME NoticeInv, DrawAndReport
             PROVE  NoticeInv'
  OBVIOUS
<1> DEFINE drawn == [ntEdges EXCEPT ![ntRepo] = EdgesTo(ntDeps)]
<1>1. ntRepo' = ntRepo /\ ntDeps' = ntDeps /\ ntSent' = ntSent /\ ntEdges' \in {ntEdges, drawn}
  BY Zenon DEF DrawAndReport, Redraw
<1>2. ntReport = {} /\ DOMAIN ntEdges = NoticeRepos /\ ntRepo \in NoticeRepos
  BY DEF NoticeInv, DrawAndReport
<1>3. DOMAIN ntEdges' = NoticeRepos /\ ntEdges' = [r \in NoticeRepos |-> ntEdges'[r]]
  BY <1>1, <1>2 DEF NoticeInv
<1>4. \A r \in NoticeRepos : OneScan(ntEdges'[r])
  <2>1. OneScan(EdgesTo(ntDeps))
    BY EdgesAreOfOneScan DEF NoticeInv
  <2>2. \A r \in NoticeRepos : OneScan(ntEdges[r])
    BY DEF NoticeInv
  <2>3. \A r \in NoticeRepos : drawn[r] = EdgesTo(ntDeps) \/ drawn[r] = ntEdges[r]
    BY <1>2
  <2> HIDE DEF drawn
  <2> QED BY <1>1, <2>1, <2>2, <2>3, Zenon
<1>5. \A r \in ntReport' : r.repo \in NoticeRepos /\ r.vulnerable = VulnerableOf(EdgesTo(ntDeps))
  <2>1. CASE ntReport' = generate_report(ntRepo, ntEdges'[ntRepo]) /\ ntEdges' = drawn
    <3>1. ntEdges'[ntRepo] = EdgesTo(ntDeps)
      BY <1>2, <2>1
    <3> QED BY <1>2, <2>1, <3>1 DEF generate_report, VulnerableOf
  <2>2. CASE ntReport' = ntReport
    BY <1>2, <2>2
  <2> QED BY <2>1, <2>2, Zenon DEF DrawAndReport, Redraw
<1>6. ntPc' # "notify" => ntReport' = {}
  BY <1>2 DEF DrawAndReport
<1> HIDE DEF drawn
<1> QED BY <1>1, <1>2, <1>3, <1>4, <1>5, <1>6, Zenon
        DEF NoticeInv, OneScan, Counts, SoundBuild, VulnerableOf, EdgesTo

(* Asking for versions leaves the graph and the report alone.              *)
LEMMA AskForVersionsKeepsNoticeInv == NoticeInv /\ AskForVersions => NoticeInv'
<1> SUFFICES ASSUME NoticeInv, AskForVersions
             PROVE  NoticeInv'
  OBVIOUS
<1>1. ntReport = {} /\ UNCHANGED <<ntEdges, ntRepo, ntDeps, ntReport, ntSent>>
  BY DEF NoticeInv, AskForVersions
<1> QED BY <1>1, Zenon DEF NoticeInv, OneScan, Counts, SoundBuild, VulnerableOf, EdgesTo

(* A notification counts the CVEs of the build that was resolved.          *)
LEMMA NotifyKeepsNoticeInv == NoticeInv /\ Notify => NoticeInv'
<1> SUFFICES ASSUME NoticeInv, Notify
             PROVE  NoticeInv'
  OBVIOUS
<1>1. CASE ntReport = {}
  <2>1. UNCHANGED <<ntEdges, ntRepo, ntDeps, ntReport, ntSent>>
    BY <1>1 DEF Notify
  <2> QED BY <1>1, <2>1, Zenon DEF NoticeInv, OneScan, Counts, SoundBuild, VulnerableOf, EdgesTo
<1>2. CASE ntReport # {}
  <2> DEFINE n(r) == [repo |-> r.repo, resolved |-> ntDeps, count |-> Cardinality(CvesOf(r.vulnerable))]
  <2>1. PICK r \in ntReport : ntSent' = Append(ntSent, n(r)) /\ ntReport' = ntReport \ {r} /\ ntPc' = ntPc
    BY <1>2 DEF Notify
  <2>2. ntEdges' = ntEdges /\ ntRepo' = ntRepo /\ ntDeps' = ntDeps /\ ntPc = "notify"
    BY DEF Notify
  <2>3. n(r).count \in Nat /\ Counts(n(r).count, n(r).resolved)
    <3>1. n(r).count = Cardinality(CvesOf(VulnerableOf(EdgesTo(ntDeps)))) /\ n(r).resolved = ntDeps
      BY DEF NoticeInv
    <3>2. SoundBuild(ntDeps)
      BY DEF NoticeInv
    <3> QED BY <3>1, <3>2, EdgesCount
  <2>4. n(r) \in Notices
    <3>1. r.repo \in NoticeRepos /\ ntDeps \in Builds
      BY SoundIsBuild DEF NoticeInv
    <3> QED BY <2>3, <3>1 DEF Notices
  <2> HIDE DEF n
  <2>5. ntSent' \in Seq(Notices) /\ \A i \in DOMAIN ntSent' : Counts(ntSent'[i].count, ntSent'[i].resolved)
    <3>1. ntSent \in Seq(Notices) /\ \A i \in DOMAIN ntSent : Counts(ntSent[i].count, ntSent[i].resolved)
      BY DEF NoticeInv
    <3> QED BY <2>1, <2>3, <2>4, <3>1
  <2>6. \A x \in ntReport' : x.repo \in NoticeRepos /\ x.vulnerable = VulnerableOf(EdgesTo(ntDeps))
    BY <2>1 DEF NoticeInv
  <2>7. ntPc' = "notify"
    BY <2>1, <2>2
  <2> QED BY <2>2, <2>5, <2>6, <2>7, Zenon
          DEF NoticeInv, OneScan, Counts, SoundBuild, VulnerableOf, EdgesTo
<1> QED BY <1>1, <1>2

(* What waits to be sent is of the build that was drawn.                   *)
THEOREM NoticeInvariant == NoticeSpec => []NoticeInv
<1>1. NoticeInv /\ UNCHANGED ntVars => NoticeInv'
  BY Zenon DEF ntVars, NoticeInv, OneScan, Counts, SoundBuild, VulnerableOf, EdgesTo
<1>2. NoticeInv /\ [NoticeNext]_ntVars => NoticeInv'
  BY <1>1, ResolveRepoKeepsNoticeInv, DrawAndReportKeepsNoticeInv, AskForVersionsKeepsNoticeInv,
     NotifyKeepsNoticeInv, Zenon DEF NoticeNext
<1> QED BY <1>2, NoticeInvInit, PTL DEF NoticeSpec

(* A notification and the graph speak of one and the same build.           *)
THEOREM NoticeAlwaysOfTheBuild == NoticeSpec => []NoticeIsOfTheBuild
BY NoticeInvariant, NoticeInvIsEnough, PTL
-----------------------------------------------------------------------------
(***************************************************************************)
(* StackManifests: the walk of _flatten over the tree of a lock.           *)
(***************************************************************************)

(* The package that lists a package of a lock, and the one that lists that *)
(* one, are packages of the lock.                                          *)
LEMMA AncestorsAreThere ==
    ASSUME NEW lock, IsLock(lock), NEW p \in DOMAIN lock, NEW n \in 1..Len(p)
    PROVE  SubSeq(p, 1, n) \in DOMAIN lock
<1>1. p \in Seq(Nat \ {0}) /\ Len(p) \in Nat
  BY DEF IsLock
<1> DEFINE T == {k \in n..Len(p) : SubSeq(p, 1, k) \in DOMAIN lock}
<1>2. SubSeq(p, 1, Len(p)) = p
  BY <1>1
<1>3. Len(p) \in n..Len(p) /\ T \subseteq Nat
  BY <1>1
<1>4a. Len(p) \in T
  BY <1>2, <1>3
<1>4. PICK x \in T : \A y \in T : x <= y
  BY <1>3, <1>4a, LeastNatural
<1>5. ASSUME x # n PROVE FALSE
  <2> DEFINE q == SubSeq(p, 1, x)
  <2>1. x \in Nat /\ x > 1 /\ x - 1 \in n..Len(p) /\ x <= Len(p) /\ q \in DOMAIN lock
    BY <1>1, <1>5
  <2>2. Len(q) = x /\ SubSeq(q, 1, x - 1) = SubSeq(p, 1, x - 1)
    <3>1. q \in Seq(Nat \ {0}) /\ Len(q) = x /\ \A i \in 1..x : q[i] = p[i]
      BY <1>1, <2>1
    <3>2. SubSeq(q, 1, x - 1) = [i \in 1..(x - 1) |-> q[i]]
      BY <2>1, <3>1
    <3>3. SubSeq(p, 1, x - 1) = [i \in 1..(x - 1) |-> p[i]]
      BY <1>1, <2>1
    <3> QED BY <2>1, <3>1, <3>2, <3>3
  <2>3. Above(q) \in DOMAIN lock
    BY <2>1, <2>2 DEF IsLock
  <2>4. x - 1 \in T
    BY <2>1, <2>2, <2>3 DEF Above
  <2> QED BY <1>4, <2>1, <2>4
<1> QED BY <1>5

(* What stands before a package in its list is there.                      *)
LEMMA PredecessorsAreThere ==
    ASSUME NEW lock, IsLock(lock), NEW p \in DOMAIN lock, NEW m \in 1..p[Len(p)]
    PROVE  [p EXCEPT ![Len(p)] = m] \in DOMAIN lock
<1>1. p \in Seq(Nat \ {0}) /\ p # << >> /\ Len(p) \in Nat /\ Len(p) \in DOMAIN p /\ p[Len(p)] \in Nat
  BY DEF IsLock
<1> DEFINE At(k) == [p EXCEPT ![Len(p)] = k]
           T == {k \in m..p[Len(p)] : At(k) \in DOMAIN lock}
<1>2. At(p[Len(p)]) = p
  BY <1>1
<1>3. p[Len(p)] \in T /\ T \subseteq Nat
  BY <1>1, <1>2
<1>4. PICK x \in T : \A y \in T : x <= y
  BY <1>3, LeastNatural
<1>5. ASSUME x # m PROVE FALSE
  <2>1. x \in Nat /\ x > 1 /\ x - 1 \in m..p[Len(p)] /\ At(x) \in DOMAIN lock
    BY <1>1, <1>5
  <2>2. Len(At(x)) = Len(p) /\ At(x)[Len(p)] = x /\ [At(x) EXCEPT ![Len(p)] = x - 1] = At(x - 1)
    BY <1>1, <2>1
  <2>3. Beside(At(x)) = At(x - 1)
    BY <2>2 DEF Beside
  <2>4. At(x - 1) \in DOMAIN lock
    BY <2>1, <2>2, <2>3 DEF IsLock
  <2> QED BY <1>4, <2>1, <2>4
<1> QED BY <1>5

(* The packages that the calls have still to come to: a place further on   *)
(* in the list of some call, or below it.                                  *)
Pending(p, calls) ==
    \E k \in 1..Len(calls) : /\ k <= Len(p)
                             /\ \A i \in 1..(k - 1) : p[i] = calls[i]
                             /\ p[k] > calls[k]

Done(lock, calls) == {p \in DOMAIN lock : ~Pending(p, calls)}

Onward(calls) == [calls EXCEPT ![Len(calls)] = @ + 1]

(* A place further on in the innermost list means that there is a next     *)
(* one.                                                                    *)
LEMMA NextIsThere ==
    ASSUME NEW lock, IsLock(lock), NEW c \in Seq(Nat), c # << >>, NEW p \in DOMAIN lock,
           Len(c) <= Len(p), \A i \in 1..(Len(c) - 1) : p[i] = c[i], p[Len(c)] > c[Len(c)]
    PROVE  Onward(c) \in DOMAIN lock
<1>1. p \in Seq(Nat \ {0}) /\ Len(p) \in Nat /\ Len(c) \in Nat \ {0} /\ Len(c) \in 1..Len(p)
  BY DEF IsLock
<1> DEFINE r == SubSeq(p, 1, Len(c))
<1>2. r \in DOMAIN lock
  BY <1>1, AncestorsAreThere
<1>3. Len(r) = Len(c) /\ r \in Seq(Nat \ {0}) /\ \A i \in 1..Len(c) : r[i] = p[i]
  BY <1>1
<1>4. c[Len(c)] + 1 \in 1..r[Len(r)]
  BY <1>1, <1>3
<1>5. [r EXCEPT ![Len(r)] = c[Len(c)] + 1] \in DOMAIN lock
  BY <1>2, <1>4, PredecessorsAreThere
<1>6. [r EXCEPT ![Len(r)] = c[Len(c)] + 1] = Onward(c)
  <2>1. DOMAIN r = 1..Len(c) /\ DOMAIN c = 1..Len(c) /\ Len(c) \in 1..Len(c)
    BY <1>1, <1>3
  <2>2. \A i \in 1..Len(c) : i # Len(c) => i \in 1..(Len(c) - 1)
    BY <1>1
  <2> QED BY <1>3, <2>1, <2>2 DEF Onward
<1> QED BY <1>5, <1>6

(* To come to the next package and call for its list leaves all but this   *)
(* one pending.                                                            *)
LEMMA CollectLeavesTheRest ==
    ASSUME NEW lock, IsLock(lock), NEW c \in Seq(Nat), c # << >>, Onward(c) \in DOMAIN lock
    PROVE  /\ Pending(Onward(c), c) /\ ~Pending(Onward(c), Append(Onward(c), 0))
           /\ \A p \in DOMAIN lock : p # Onward(c) => (Pending(p, Append(Onward(c), 0)) <=> Pending(p, c))
<1> DEFINE n == Len(c)  x == Onward(c)  d == Append(x, 0)
<1>1. /\ n \in Nat \ {0} /\ x \in Seq(Nat) /\ Len(x) = n /\ x[n] = c[n] + 1 /\ c[n] \in Nat
      /\ \A i \in 1..(n - 1) : x[i] = c[i] /\ c[i] \in Nat
  BY DEF Onward
<1>2. d \in Seq(Nat) /\ Len(d) = n + 1 /\ d[n + 1] = 0 /\ \A i \in 1..n : d[i] = x[i]
  BY <1>1
<1> HIDE DEF n, x, d
<1>3. Pending(x, c)
  <2>1. n \in 1..n /\ n <= Len(x) /\ x[n] > c[n]
    BY <1>1
  <2> QED BY <1>1, <2>1 DEF Pending, n
<1>4. ~Pending(x, d)
  <2> SUFFICES ASSUME NEW k \in 1..(n + 1), k <= Len(x), x[k] > d[k]
               PROVE  FALSE
    BY <1>2 DEF Pending
  <2>1. k \in 1..n
    BY <1>1
  <2>2. x[k] = d[k] /\ x[k] \in Nat
    BY <1>1, <1>2, <2>1
  <2> QED BY <2>2
<1>5. ASSUME NEW p \in DOMAIN lock, p # x, Pending(p, d) PROVE Pending(p, c)
  <2>0. p \in Seq(Nat \ {0}) /\ Len(p) \in Nat /\ \A i \in 1..Len(p) : p[i] \in Nat \ {0}
    BY DEF IsLock
  <2>1. PICK k \in 1..(n + 1) : k <= Len(p) /\ (\A i \in 1..(k - 1) : p[i] = d[i]) /\ p[k] > d[k]
    BY <1>2, <1>5 DEF Pending
  <2>2. CASE k \in 1..(n - 1)
    <3>1. \A i \in 1..(k - 1) : i \in 1..(n - 1) /\ i \in 1..n
      BY <1>1, <2>2
    <3>2. (\A i \in 1..(k - 1) : p[i] = c[i]) /\ k \in 1..n
      BY <1>1, <1>2, <2>1, <2>2, <3>1
    <3>3. d[k] = c[k]
      BY <1>1, <1>2, <2>2, <3>2
    <3> QED BY <2>1, <3>2, <3>3 DEF Pending, n
  <2>3. CASE k = n
    <3>1. \A i \in 1..(k - 1) : i \in 1..(n - 1) /\ i \in 1..n
      BY <1>1, <2>3
    <3>2. (\A i \in 1..(k - 1) : p[i] = c[i]) /\ k \in 1..n /\ k \in 1..Len(p)
      BY <1>1, <1>2, <2>0, <2>1, <2>3, <3>1
    <3>3. p[k] > c[k]
      BY <1>1, <1>2, <2>0, <2>1, <2>3, <3>2
    <3> QED BY <2>1, <3>2, <3>3 DEF Pending, n
  <2>4. CASE k = n + 1
    <3>1. \A i \in 1..(n - 1) : i \in 1..(k - 1) /\ i \in 1..n
      BY <1>1, <2>4
    <3>2. \A i \in 1..(n - 1) : p[i] = c[i]
      BY <1>1, <1>2, <2>1, <3>1
    <3>3. n \in 1..(k - 1) /\ n \in 1..n /\ n <= Len(p)
      BY <1>1, <2>0, <2>1, <2>4
    <3>4. p[n] = c[n] + 1
      BY <1>1, <1>2, <2>1, <3>3
    <3>5. p[n] > c[n]
      BY <1>1, <3>4
    <3> QED BY <3>2, <3>3, <3>5 DEF Pending, n
  <2> QED BY <1>1, <2>1, <2>2, <2>3, <2>4
<1>6. ASSUME NEW p \in DOMAIN lock, p # x, Pending(p, c) PROVE Pending(p, d)
  <2>0. p \in Seq(Nat \ {0}) /\ Len(p) \in Nat /\ \A i \in 1..Len(p) : p[i] \in Nat \ {0}
    BY DEF IsLock
  <2>1. PICK k \in 1..n : k <= Len(p) /\ (\A i \in 1..(k - 1) : p[i] = c[i]) /\ p[k] > c[k]
    BY <1>6 DEF Pending, n
  <2>2. \A i \in 1..(k - 1) : i \in 1..(n - 1) /\ i \in 1..n
    BY <1>1, <2>1
  <2>3. \A i \in 1..(k - 1) : p[i] = d[i]
    BY <1>1, <1>2, <2>1, <2>2
  <2>4. k \in 1..Len(d) /\ k \in 1..Len(p) /\ p[k] \in Nat
    BY <1>1, <1>2, <2>0, <2>1
  <2>5. CASE k # n \/ p[k] # x[k]
    <3>1. CASE k # n
      <4>1. k \in 1..(n - 1) /\ k \in 1..n
        BY <1>1, <2>1, <3>1
      <4>2. d[k] = c[k]
        BY <1>1, <1>2, <4>1
      <4> QED BY <2>1, <2>3, <2>4, <4>2 DEF Pending
    <3>2. CASE k = n /\ p[k] # x[k]
      <4>1. d[k] = c[k] + 1 /\ p[k] > d[k]
        BY <1>1, <1>2, <2>1, <2>4, <3>2
      <4> QED BY <2>1, <2>3, <2>4, <4>1 DEF Pending
    <3> QED BY <2>5, <3>1, <3>2
  <2>6. CASE k = n /\ p[k] = x[k]
    <3>1. \A i \in 1..n : i = n \/ i \in 1..(k - 1)
      BY <1>1, <2>6
    <3>2. \A i \in 1..n : p[i] = x[i] /\ p[i] = d[i]
      BY <1>1, <1>2, <2>3, <2>6, <3>1
    <3>3. Len(p) # n
      <4> SUFFICES ASSUME Len(p) = n PROVE FALSE
        OBVIOUS
      <4>1. p = x
        BY <1>1, <2>0, <3>2
      <4> QED BY <4>1, <1>6
    <3>4. n + 1 \in 1..Len(d) /\ n + 1 <= Len(p) /\ n + 1 \in 1..Len(p)
      BY <1>1, <1>2, <2>0, <2>1, <2>6, <3>3
    <3>5. p[n + 1] > d[n + 1]
      BY <1>2, <2>0, <3>4
    <3>6. \A i \in 1..((n + 1) - 1) : p[i] = d[i]
      BY <1>1, <3>2
    <3> QED BY <3>4, <3>5, <3>6 DEF Pending
  <2> QED BY <2>5, <2>6
<1> QED BY <1>3, <1>4, <1>5, <1>6 DEF x, d
(* When there is no next package in a list, the call that walks it has     *)
(* none pending.                                                           *)
LEMMA ReturnLeavesTheRest ==
    ASSUME NEW lock, IsLock(lock), NEW c \in Seq(Nat), c # << >>, Onward(c) \notin DOMAIN lock
    PROVE  /\ Above(c) \in Seq(Nat) /\ Len(Above(c)) = Len(c) - 1
           /\ \A p \in DOMAIN lock : Pending(p, Above(c)) <=> Pending(p, c)
<1> DEFINE n == Len(c)  d == Above(c)
<1>1. n \in Nat \ {0} /\ \A i \in 1..n : c[i] \in Nat
  OBVIOUS
<1>2. d \in Seq(Nat) /\ Len(d) = n - 1 /\ \A i \in 1..(n - 1) : d[i] = c[i]
  <2>1. 1 \in Int /\ n - 1 \in Int /\ \A i \in 1..(n - 1) : c[i] \in Nat
    BY <1>1
  <2>2. d \in Seq(Nat) /\ Len(d) = (IF 1 <= n - 1 THEN (n - 1) - 1 + 1 ELSE 0)
    BY <2>1, SubSeqProperties DEF Above
  <2>3. \A m \in Nat \ {0} : (IF 1 <= m - 1 THEN (m - 1) - 1 + 1 ELSE 0) = m - 1
    OBVIOUS
  <2>4. \A i \in 1..(n - 1) : d[i] = c[i]
    BY <1>1, <2>1 DEF Above
  <2> HIDE DEF n, d
  <2> QED BY <1>1, <2>2, <2>3, <2>4
<1> HIDE DEF n, d
<1>3. ASSUME NEW p \in DOMAIN lock, Pending(p, c) PROVE Pending(p, d)
  <2>1. PICK k \in 1..n : k <= Len(p) /\ (\A i \in 1..(k - 1) : p[i] = c[i]) /\ p[k] > c[k]
    BY <1>3 DEF Pending, n
  <2>2. k # n
    BY <1>1, <2>1, NextIsThere DEF n
  <2>3. k \in 1..Len(d) /\ k \in 1..(n - 1) /\ \A i \in 1..(k - 1) : i \in 1..(n - 1)
    BY <1>1, <1>2, <2>1, <2>2
  <2>4. d[k] = c[k] /\ \A i \in 1..(k - 1) : p[i] = d[i]
    BY <1>2, <2>1, <2>3
  <2> QED BY <2>1, <2>3, <2>4 DEF Pending
<1>4. ASSUME NEW p \in DOMAIN lock, Pending(p, d) PROVE Pending(p, c)
  <2>1. PICK k \in 1..(n - 1) : k <= Len(p) /\ (\A i \in 1..(k - 1) : p[i] = d[i]) /\ p[k] > d[k]
    BY <1>2, <1>4 DEF Pending
  <2>2. k \in 1..n /\ \A i \in 1..(k - 1) : i \in 1..(n - 1)
    BY <1>1, <2>1
  <2>3. d[k] = c[k] /\ \A i \in 1..(k - 1) : p[i] = c[i]
    BY <1>2, <2>1, <2>2
  <2> QED BY <2>1, <2>2, <2>3 DEF Pending, n
<1> QED BY <1>2, <1>3, <1>4 DEF n, d

(* At the start nothing is done, at the end everything is.                 *)
LEMMA WalkStartsAndEnds ==
    ASSUME NEW lock, IsLock(lock)
    PROVE  Done(lock, <<0>>) = {} /\ Done(lock, << >>) = DOMAIN lock
<1>1. ASSUME NEW p \in DOMAIN lock PROVE Pending(p, <<0>>)
  <2>1. p \in Seq(Nat \ {0}) /\ p # << >> /\ Len(p) \in Nat
    BY DEF IsLock
  <2>2. 1 <= Len(p) /\ p[1] \in Nat \ {0} /\ p[1] > 0
    BY <2>1
  <2>3. Len(<<0>>) = 1 /\ <<0>>[1] = 0 /\ 1 \in 1..1 /\ \A i \in 1..(1 - 1) : FALSE
    OBVIOUS
  <2> QED BY <2>2, <2>3 DEF Pending
<1>2. ASSUME NEW p PROVE ~Pending(p, << >>)
  BY DEF Pending
<1> QED BY <1>1, <1>2 DEF Done

(* A list has one entry for each package that is done, under its name.     *)
Counted(list, lock, done) ==
    /\ IsSequence(list) /\ IsFiniteSet(done) /\ done \subseteq DOMAIN lock
    /\ Len(list) = Cardinality(done)
    /\ \A p \in DOMAIN lock :
          Cardinality(EntriesOf(list, lock[p].name)) = Cardinality({q \in done : lock[q].name = lock[p].name})

(* An empty list is one of no package.                                     *)
LEMMA NothingIsCounted ==
    ASSUME NEW lock
    PROVE  Counted(<< >>, lock, {})
<1>1. IsSequence(<< >>) /\ Len(<< >>) = 0 /\ DOMAIN << >> = {}
  <2>1. << >> \in Seq({})
    OBVIOUS
  <2> QED BY <2>1 DEF IsSequence
<1>2. \A n : EntriesOf(<< >>, n) = {}
  BY <1>1 DEF EntriesOf
<1>3. \A p \in DOMAIN lock : {q \in {} : lock[q].name = lock[p].name} = {}
  OBVIOUS
<1>4. IsFiniteSet({}) /\ Cardinality({}) = 0
  BY FS_EmptySet
<1> QED BY <1>1, <1>2, <1>3, <1>4 DEF Counted

(* An entry more, and a package more that is done.                         *)
LEMMA CollectCounts ==
    ASSUME NEW lock, NEW list, NEW done, Counted(list, lock, done), NEW x \in (DOMAIN lock) \ done
    PROVE  Counted(Append(list, lock[x].name), lock, done \cup {x})
<1> DEFINE name == lock[x].name  longer == Append(list, name)
<1>1. /\ IsSequence(longer) /\ Len(list) \in Nat /\ DOMAIN list = 1..Len(list)
      /\ Len(longer) = Len(list) + 1
      /\ \A i \in DOMAIN list : i \in DOMAIN longer /\ longer[i] = list[i]
      /\ longer[Len(list) + 1] = name /\ DOMAIN longer = 1..(Len(list) + 1)
      /\ \A i \in DOMAIN longer : i \in DOMAIN list \/ i = Len(list) + 1
  BY AppendGrows DEF Counted
<1>2. Len(list) + 1 \notin DOMAIN list /\ Len(list) + 1 \in DOMAIN longer
  BY <1>1
<1> HIDE DEF longer, name
<1>3. IsFiniteSet(done) /\ done \subseteq DOMAIN lock /\ Len(list) = Cardinality(done)
  BY DEF Counted
<1>4. IsFiniteSet(done \cup {x}) /\ Cardinality(done \cup {x}) = Len(list) + 1
  BY <1>3, FS_AddElement
<1>5. ASSUME NEW p \in DOMAIN lock
      PROVE  Cardinality(EntriesOf(longer, lock[p].name))
                = Cardinality({q \in done \cup {x} : lock[q].name = lock[p].name})
  <2> DEFINE E == EntriesOf(list, lock[p].name)  Q == {q \in done : lock[q].name = lock[p].name}
  <2>1. Cardinality(E) = Cardinality(Q)
    BY DEF Counted
  <2>2. IsFiniteSet(E) /\ IsFiniteSet(Q)
    <3>1. E \subseteq 1..Len(list) /\ IsFiniteSet(1..Len(list))
      BY <1>1, FS_Interval DEF EntriesOf
    <3> QED BY <1>3, <3>1, FS_Subset
  <2>3. CASE lock[p].name = name
    <3>1. EntriesOf(longer, lock[p].name) = E \cup {Len(list) + 1}
      BY <1>1, <1>2, <2>3 DEF EntriesOf
    <3>2. {q \in done \cup {x} : lock[q].name = lock[p].name} = Q \cup {x}
      BY <2>3 DEF name
    <3>3. Len(list) + 1 \notin E /\ x \notin Q
      BY <1>2 DEF EntriesOf
    <3> HIDE DEF E, Q
    <3>4. Cardinality(E \cup {Len(list) + 1}) = Cardinality(E) + 1
      BY <2>2, <3>3, FS_AddElement
    <3>5. Cardinality(Q \cup {x}) = Cardinality(Q) + 1
      BY <2>2, <3>3, FS_AddElement
    <3> QED BY <2>1, <3>1, <3>2, <3>4, <3>5
  <2>4. CASE lock[p].name # name
    <3>1. EntriesOf(longer, lock[p].name) = E
      BY <1>1, <1>2, <2>4 DEF EntriesOf
    <3>2. {q \in done \cup {x} : lock[q].name = lock[p].name} = Q
      BY <2>4 DEF name
    <3> QED BY <2>1, <3>1, <3>2
  <2> QED BY <2>3, <2>4
<1>6. done \cup {x} \subseteq DOMAIN lock /\ Len(longer) = Cardinality(done \cup {x}) /\ IsSequence(longer)
  BY <1>1, <1>3, <1>4
<1>7. Counted(longer, lock, done \cup {x})
  BY <1>4, <1>5, <1>6 DEF Counted
<1> QED BY <1>7 DEF longer, name
-----------------------------------------------------------------------------
(* What is in the result was there, and of the Go files only what is empty.*)
TakenIsKnown ==
    \A i \in DOMAIN smResult :
        /\ smStack[i].found /\ smStack[i].filename \in DOMAIN Descriptors
        /\ smStack[i].filename \in {"glide.lock", "Godeps.json"} => smResult[i] = << >>

(* While _flatten runs the entries are those of the packages it is done    *)
(* with; without a key "dependencies" it never comes to a second call.     *)
Walking ==
    Flattening =>
        /\ Len(smResult) < Len(smStack) /\ Known /\ Exact /\ Nested
        /\ Counted(smCollect, Tree, Done(Tree, smCalls))
        /\ (\A p \in DOMAIN Tree : ~Tree[p].lists) => Len(smCalls) = 1 /\ smCollect = << >>

StackInv ==
    /\ smStack \in Stacks /\ IsSequence(smResult) /\ smCalls \in Seq(Nat)
    /\ Len(smResult) <= Len(smStack)
    /\ TakenIsKnown /\ EveryNodeIsResolved /\ Walking
    /\ smState = "stored" => Len(smResult) = Len(smStack)

(* The invariant is all that the property says.                            *)
LEMMA StackInvIsEnough == StackInv => StackIsWhole
<1> SUFFICES ASSUME StackInv PROVE StackIsWhole
  OBVIOUS
<1>1. smStack \in Stacks /\ DOMAIN smStack = 1..Len(smStack)
  BY StackAssumption DEF StackInv
<1>2. DOMAIN smResult = 1..Len(smResult)
  BY DEF StackInv, IsSequence
<1>3. StoredIsWhole
  BY <1>1, <1>2 DEF StackInv, StoredIsWhole, TakenIsKnown
<1> QED BY <1>3 DEF StackInv, StackIsWhole

(* An empty result of the first manifest.                                  *)
LEMMA StackInvInit == StackInit => StackInv
<1> SUFFICES ASSUME StackInit PROVE StackInv
  OBVIOUS
<1>1. smStack \in Stacks /\ Len(smStack) \in Nat
  BY StackAssumption DEF StackInit
<1>2. IsSequence(<< >>) /\ Len(<< >>) = 0 /\ DOMAIN << >> = {} /\ << >> \in Seq(Nat)
  <2>1. << >> \in Seq({})
    OBVIOUS
  <2> QED BY <2>1 DEF IsSequence
<1>3. smResult = << >> /\ smCalls = << >> /\ smState = "running"
  BY DEF StackInit
<1>4. TakenIsKnown /\ EveryNodeIsResolved
  BY <1>2, <1>3 DEF TakenIsKnown, EveryNodeIsResolved
<1>5. Walking
  BY <1>3 DEF Walking, Flattening
<1> QED BY <1>1, <1>2, <1>3, <1>4, <1>5 DEF StackInv

(* The result of one manifest more keeps what the others have.             *)
LEMMA AnotherResult ==
    ASSUME StackInv, NEW r, smResult' = Append(smResult, r), UNCHANGED smStack,
           Len(smResult) < Len(smStack), Known,
           Current.filename \in {"glide.lock", "Godeps.json"} => r = << >>,
           Current.key = "yes" /\ Exact =>
               /\ Len(r) = Cardinality(DOMAIN Current.lock)
               /\ \A p \in DOMAIN Current.lock :
                     Cardinality(EntriesOf(r, Current.lock[p].name))
                        = Cardinality(PlacesOf(Current.lock, Current.lock[p].name))
    PROVE  TakenIsKnown' /\ EveryNodeIsResolved' /\ IsSequence(smResult') /\ Len(smResult') <= Len(smStack')
<1>1. /\ IsSequence(smResult') /\ Len(smResult) \in Nat /\ DOMAIN smResult = 1..Len(smResult)
      /\ Len(smResult') = Len(smResult) + 1
      /\ \A i \in DOMAIN smResult : smResult'[i] = smResult[i]
      /\ smResult'[Len(smResult) + 1] = r
      /\ \A i \in DOMAIN smResult' : i \in DOMAIN smResult \/ i = Len(smResult) + 1
  BY AppendGrows DEF StackInv
<1>2. Len(smStack) \in Nat
  BY StackAssumption DEF StackInv
<1>3. Current = smStack[Len(smResult) + 1]
  BY DEF Current
<1>4. ASSUME NEW i \in DOMAIN smResult'
      PROVE  /\ smStack[i].found /\ smStack[i].filename \in DOMAIN Descriptors
             /\ smStack[i].filename \in {"glide.lock", "Godeps.json"} => smResult'[i] = << >>
  <2>1. CASE i \in DOMAIN smResult
    BY <1>1, <2>1 DEF StackInv, TakenIsKnown
  <2>2. CASE i = Len(smResult) + 1
    BY <1>1, <1>3, <2>2 DEF Known
  <2> QED BY <1>1, <2>1, <2>2
<1>5. TakenIsKnown'
  BY <1>4 DEF TakenIsKnown
<1>6. ASSUME NEW i \in DOMAIN smResult', smStack[i].key = "yes", Descriptors[smStack[i].filename].has_resolved_deps
      PROVE  /\ Len(smResult'[i]) = Cardinality(DOMAIN smStack[i].lock)
             /\ \A p \in DOMAIN smStack[i].lock :
                   Cardinality(EntriesOf(smResult'[i], smStack[i].lock[p].name))
                      = Cardinality(PlacesOf(smStack[i].lock, smStack[i].lock[p].name))
  <2>1. CASE i \in DOMAIN smResult
    BY <1>1, <1>6, <2>1 DEF StackInv, EveryNodeIsResolved
  <2>2. CASE i = Len(smResult) + 1
    BY <1>1, <1>3, <1>6, <2>2 DEF Exact
  <2> QED BY <1>1, <2>1, <2>2
<1>7. EveryNodeIsResolved'
  BY <1>6 DEF EveryNodeIsResolved
<1> QED BY <1>1, <1>2, <1>5, <1>7

(* The lock that is walked is a tree, and without levels for the Go files. *)
LEMMA TreeIsLock ==
    ASSUME StackInv, Len(smResult) < Len(smStack)
    PROVE  /\ IsLock(Current.lock) /\ IsLock(Tree)
           /\ Current.filename \in {"glide.lock", "Godeps.json"} => \A p \in DOMAIN Tree : ~Tree[p].lists
<1>1. Len(smResult) \in Nat /\ Len(smStack) \in Nat /\ smStack \in Stacks /\ DOMAIN smStack = 1..Len(smStack)
  BY StackAssumption DEF StackInv, IsSequence
<1>2. Len(smResult) + 1 \in DOMAIN smStack
  BY <1>1
<1>3. /\ IsLock(Current.lock)
      /\ Current.filename = "glide.lock" => \A p \in DOMAIN Current.lock : ~Current.lock[p].lists
      /\ Current.filename = "Godeps.json" => Current.key = "no"
  BY <1>1, <1>2, StackAssumption DEF Current
<1>4. DOMAIN << >> = {} /\ IsLock(<< >>)
  BY FS_EmptySet DEF IsLock
<1>5. CASE Current.key = "yes"
  BY <1>3, <1>5 DEF Tree
<1>6. CASE Current.key # "yes"
  BY <1>3, <1>4, <1>6 DEF Tree
<1> QED BY <1>5, <1>6

(* A manifest that is not walked keeps the invariant.                      *)
LEMMA TakeKeepsStackInv == StackInv /\ (TakeResolved \/ SolveExternal) => StackInv'
<1> SUFFICES ASSUME StackInv, TakeResolved \/ SolveExternal PROVE StackInv'
  OBVIOUS
<1>1. /\ UNCHANGED <<smStack, smState, smCalls, smCollect>> /\ Left /\ Known
  BY DEF TakeResolved, SolveExternal
<1>2. smState = "running" /\ smCalls = << >> /\ Len(smResult) < Len(smStack)
  BY <1>1 DEF Left
<1>3. Walking' /\ smStack' \in Stacks /\ smCalls' \in Seq(Nat) /\ smState' # "stored"
  BY <1>1, <1>2 DEF StackInv, Walking, Flattening
<1>4. CASE TakeResolved
  <2> DEFINE r == IF Current.key = "yes" THEN << >> ELSE Current.deps[1]
  <2>1. smResult' = Append(smResult, r) /\ ~Nested /\ Readable
    BY <1>4 DEF TakeResolved
  <2>2. Current.filename \notin {"glide.lock", "Godeps.json"}
    <3>1. Current.filename \in DOMAIN Descriptors
      BY <1>1 DEF Known
    <3>2. ~Descriptors[Current.filename].has_recursive_deps
      BY <2>1 DEF Nested
    <3> QED BY <3>1, <3>2 DEF Descriptors
  <2>3. ASSUME Current.key = "yes"
        PROVE  r = << >> /\ DOMAIN Current.lock = {}
    BY <2>1, <2>3 DEF Readable
  <2>4. Len(<< >>) = 0 /\ Cardinality({}) = 0
    BY FS_EmptySet
  <2> HIDE DEF r
  <2>5. TakenIsKnown' /\ EveryNodeIsResolved' /\ IsSequence(smResult') /\ Len(smResult') <= Len(smStack')
    BY <1>1, <1>2, <2>1, <2>2, <2>3, <2>4, AnotherResult
  <2> QED BY <1>3, <2>5 DEF StackInv
<1>5. CASE SolveExternal
  <2> DEFINE r == Current.deps[1]
  <2>1. smResult' = Append(smResult, r) /\ ~Exact
    BY <1>5 DEF SolveExternal
  <2>2. Current.filename \notin {"glide.lock", "Godeps.json"}
    <3>1. Current.filename \in DOMAIN Descriptors
      BY <1>1 DEF Known
    <3>2. ~Descriptors[Current.filename].has_resolved_deps
      BY <2>1 DEF Exact
    <3> QED BY <3>1, <3>2 DEF Descriptors
  <2> HIDE DEF r
  <2>5. TakenIsKnown' /\ EveryNodeIsResolved' /\ IsSequence(smResult') /\ Len(smResult') <= Len(smStack')
    BY <1>1, <1>2, <2>1, <2>2, AnotherResult
  <2> QED BY <1>3, <2>5 DEF StackInv
<1> QED BY <1>4, <1>5

(* The walk begins with nothing collected and nothing done.                *)
LEMMA BeginKeepsStackInv == StackInv /\ BeginFlatten => StackInv'
<1> SUFFICES ASSUME StackInv, BeginFlatten PROVE StackInv'
  OBVIOUS
<1>1. /\ UNCHANGED <<smStack, smResult, smState>> /\ smCalls' = <<0>> /\ smCollect' = << >>
      /\ Left /\ Known /\ Exact /\ Nested
  BY DEF BeginFlatten
<1>2. smState = "running" /\ Len(smResult) < Len(smStack)
  BY <1>1 DEF Left
<1>3. Current' = Current /\ Tree' = Tree /\ Known' /\ Exact' /\ Nested'
  BY <1>1 DEF Current, Tree, Known, Exact, Nested
<1>4. IsLock(Tree)
  BY <1>2, TreeIsLock
<1>5. Counted(<< >>, Tree, Done(Tree, <<0>>))
  BY <1>4, WalkStartsAndEnds, NothingIsCounted
<1>6. Len(<<0>>) = 1 /\ <<0>> \in Seq(Nat)
  OBVIOUS
<1>7. Walking'
  BY <1>1, <1>2, <1>3, <1>5, <1>6 DEF Walking
<1>8. TakenIsKnown' /\ EveryNodeIsResolved'
  BY <1>1 DEF StackInv, TakenIsKnown, EveryNodeIsResolved
<1> QED BY <1>1, <1>2, <1>6, <1>7, <1>8 DEF StackInv

(* One package more is collected, and is the one that is done now.         *)
LEMMA CollectKeepsStackInv == StackInv /\ CollectDep => StackInv'
<1> SUFFICES ASSUME StackInv, CollectDep PROVE StackInv'
  OBVIOUS
<1>1. /\ UNCHANGED <<smStack, smResult>> /\ Flattening /\ NextDep \in DOMAIN Tree
      /\ smCollect' = Append(smCollect, Tree[NextDep].name)
  BY DEF CollectDep
<1>2. /\ Len(smResult) < Len(smStack) /\ Known /\ Exact /\ Nested
      /\ Counted(smCollect, Tree, Done(Tree, smCalls))
  BY <1>1 DEF StackInv, Walking
<1>3. smCalls \in Seq(Nat) /\ smCalls # << >> /\ smState = "running" /\ NextDep = Onward(smCalls)
  BY <1>1 DEF StackInv, Flattening, NextDep, Onward
<1>4. IsLock(Tree)
  BY <1>2, TreeIsLock
<1>5. Current' = Current /\ Tree' = Tree /\ Known' /\ Exact' /\ Nested'
  BY <1>1, <1>2 DEF Current, Tree, Known, Exact, Nested
<1>6. TakenIsKnown' /\ EveryNodeIsResolved'
  BY <1>1 DEF StackInv, TakenIsKnown, EveryNodeIsResolved
<1>7. NextDep \in Seq(Nat) /\ Append(NextDep, 0) \in Seq(Nat)
  <2>1. smCalls[Len(smCalls)] + 1 \in Nat
    BY <1>3
  <2> QED BY <1>3, <2>1 DEF Onward
<1>8. CASE Tree[NextDep].lists
  <2>1. smCalls' = Append(NextDep, 0) /\ smState' = smState
    BY <1>8 DEF CollectDep
  <2>2. Done(Tree, smCalls') = Done(Tree, smCalls) \cup {NextDep} /\ NextDep \notin Done(Tree, smCalls)
    <3>1. /\ Pending(NextDep, smCalls) /\ ~Pending(NextDep, smCalls')
          /\ \A p \in DOMAIN Tree : p # NextDep => (Pending(p, smCalls') <=> Pending(p, smCalls))
      BY <1>1, <1>3, <1>4, <2>1, CollectLeavesTheRest
    <3> QED BY <1>1, <3>1 DEF Done
  <2>3. Counted(smCollect', Tree, Done(Tree, smCalls'))
    BY <1>1, <1>2, <2>2, CollectCounts
  <2>4. Walking'
    BY <1>1, <1>2, <1>5, <1>8, <2>3 DEF Walking
  <2> QED BY <1>1, <1>3, <1>6, <1>7, <2>1, <2>4 DEF StackInv
<1>9. CASE ~Tree[NextDep].lists
  <2>1. smCalls' = smCalls /\ smState' = "failed"
    BY <1>9 DEF CollectDep
  <2>2. Walking'
    BY <2>1 DEF Walking, Flattening
  <2> QED BY <1>1, <1>3, <1>6, <2>1, <2>2 DEF StackInv
<1> QED BY <1>8, <1>9

(* A call that returns leaves the rest to the others; the outermost one    *)
(* leaves a list of all packages.                                          *)
LEMMA ReturnKeepsStackInv == StackInv /\ FlattenReturns => StackInv'
<1> SUFFICES ASSUME StackInv, FlattenReturns PROVE StackInv'
  OBVIOUS
<1>1. /\ UNCHANGED <<smStack, smCollect, smState>> /\ Flattening /\ NextDep \notin DOMAIN Tree
      /\ smCalls' = Above(smCalls)
      /\ smResult' = IF Len(smCalls) = 1 THEN Append(smResult, smCollect) ELSE smResult
  BY DEF FlattenReturns
<1>2. /\ Len(smResult) < Len(smStack) /\ Known /\ Exact /\ Nested
      /\ Counted(smCollect, Tree, Done(Tree, smCalls))
      /\ (\A p \in DOMAIN Tree : ~Tree[p].lists) => Len(smCalls) = 1 /\ smCollect = << >>
  BY <1>1 DEF StackInv, Walking
<1>3. smCalls \in Seq(Nat) /\ smCalls # << >> /\ smState = "running" /\ NextDep = Onward(smCalls)
  BY <1>1 DEF StackInv, Flattening, NextDep, Onward
<1>4. /\ IsLock(Tree) /\ IsLock(Current.lock)
      /\ Current.filename \in {"glide.lock", "Godeps.json"} => \A p \in DOMAIN Tree : ~Tree[p].lists
  BY <1>2, TreeIsLock
<1>5. /\ smCalls' \in Seq(Nat) /\ Len(smCalls') = Len(smCalls) - 1
      /\ \A p \in DOMAIN Tree : Pending(p, smCalls') <=> Pending(p, smCalls)
  BY <1>1, <1>3, <1>4, ReturnLeavesTheRest
<1>6. Done(Tree, smCalls') = Done(Tree, smCalls)
  BY <1>5 DEF Done
<1>7. CASE Len(smCalls) = 1
  <2>1. smResult' = Append(smResult, smCollect) /\ smCalls' = << >>
    BY <1>1, <1>5, <1>7
  <2>2. Done(Tree, smCalls) = DOMAIN Tree
    BY <1>4, <1>6, <2>1, WalkStartsAndEnds
  <2>3. /\ Len(smCollect) = Cardinality(DOMAIN Tree)
        /\ \A p \in DOMAIN Tree : Cardinality(EntriesOf(smCollect, Tree[p].name))
                                     = Cardinality({q \in DOMAIN Tree : Tree[q].name = Tree[p].name})
    BY <1>2, <2>2 DEF Counted
  <2>4. Current.key = "yes" =>
            /\ Len(smCollect) = Cardinality(DOMAIN Current.lock)
            /\ \A p \in DOMAIN Current.lock : Cardinality(EntriesOf(smCollect, Current.lock[p].name))
                                                 = Cardinality(PlacesOf(Current.lock, Current.lock[p].name))
    BY <2>3 DEF Tree, PlacesOf
  <2>5. TakenIsKnown' /\ EveryNodeIsResolved' /\ IsSequence(smResult') /\ Len(smResult') <= Len(smStack')
    BY <1>1, <1>2, <1>4, <2>1, <2>4, AnotherResult
  <2>6. Walking'
    BY <2>1 DEF Walking, Flattening
  <2> QED BY <1>1, <1>3, <1>5, <2>5, <2>6 DEF StackInv
<1>8. CASE Len(smCalls) # 1
  <2>1. smResult' = smResult
    BY <1>1, <1>8
  <2>2. Current' = Current /\ Tree' = Tree /\ Known' /\ Exact' /\ Nested'
    BY <1>1, <1>2, <2>1 DEF Current, Tree, Known, Exact, Nested
  <2>3. ~(\A p \in DOMAIN Tree : ~Tree[p].lists)
    BY <1>2, <1>8
  <2>4. Walking'
    BY <1>1, <1>2, <1>6, <2>1, <2>2, <2>3 DEF Walking
  <2>5. TakenIsKnown' /\ EveryNodeIsResolved'
    BY <1>1, <2>1 DEF StackInv, TakenIsKnown, EveryNodeIsResolved
  <2> QED BY <1>1, <1>3, <1>5, <2>1, <2>4, <2>5 DEF StackInv
<1> QED BY <1>7, <1>8

(* The other steps end the task.                                           *)
LEMMA EndKeepsStackInv == StackInv /\ (NoMetadata \/ Breaks \/ SolverRaises \/ StoreStack) => StackInv'
<1> SUFFICES ASSUME StackInv, NoMetadata \/ Breaks \/ SolverRaises \/ StoreStack PROVE StackInv'
  OBVIOUS
<1>1. UNCHANGED <<smStack, smResult, smCalls, smCollect>> /\ smState' \in {"fatal", "failed", "stored"}
      /\ (smState' = "stored" => Len(smResult) = Len(smStack))
  BY DEF NoMetadata, Breaks, SolverRaises, StoreStack
<1>2. Walking'
  BY <1>1 DEF Walking, Flattening
<1>3. TakenIsKnown' /\ EveryNodeIsResolved'
  BY <1>1 DEF StackInv, TakenIsKnown, EveryNodeIsResolved
<1> QED BY <1>1, <1>2, <1>3 DEF StackInv

(* The aggregator's invariant.                                             *)
THEOREM StackInvariant == StackSpec => []StackInv
<1>1. StackInv /\ UNCHANGED stackVars => StackInv'
  <2> SUFFICES ASSUME StackInv, UNCHANGED stackVars PROVE StackInv'
    OBVIOUS
  <2>1. UNCHANGED <<smStack, smResult, smCalls, smCollect, smState>>
    BY DEF stackVars
  <2>2. Walking'
    BY <2>1 DEF StackInv, Walking, Flattening, Current, Tree, Known, Exact, Nested
  <2>3. TakenIsKnown' /\ EveryNodeIsResolved'
    BY <2>1 DEF StackInv, TakenIsKnown, EveryNodeIsResolved
  <2> QED BY <2>1, <2>2, <2>3 DEF StackInv
<1>2. StackInv /\ [StackNext]_stackVars => StackInv'
  BY <1>1, TakeKeepsStackInv, BeginKeepsStackInv, CollectKeepsStackInv, ReturnKeepsStackInv, EndKeepsStackInv
     DEF StackNext
<1> QED BY <1>2, StackInvInit, PTL DEF StackSpec

(* However deep a lock is, each place of a package in it is resolved once, *)
(* and a stack that is stored lacks no manifest.                           *)
THEOREM StackIsAlwaysWhole == StackSpec => []StackIsWhole
BY StackInvariant, StackInvIsEnough, PTL
=============================================================================
