----------------------------- MODULE ListFacts -----------------------------
(***************************************************************************)
(* What the operators of Lists, and some of the community modules, return. *)
(* Induction is by the least counterexample: LeastNumber follows from the  *)
(* well-foundedness of < on Nat, and a set of naturals stands for the      *)
(* property, which no operator parameter could.                            *)
(***************************************************************************)
EXTENDS Lists, SequencesExt, FiniteSetTheorems, SequenceTheorems,
        WellFoundedInduction, TLAPS

\* A set of natural numbers that is not empty has a least element.
LEMMA LeastNumber ==
  ASSUME NEW T \in SUBSET Nat, T # {}
  PROVE  \E x \in T : \A y \in T : x <= y
<1> DEFINE R == OpToRel(<, Nat)
<1>1. IsWellFoundedOn(R, Nat)
      BY NatLessThanWellFounded, Zenon
<1>2. \A x, y \in Nat : x < y => <<x, y>> \in R
      BY DEF OpToRel
<1> HIDE DEF R
<1>3. PICK x \in T : \A y \in T : ~(<<y, x>> \in R)
      BY <1>1, WFMin
<1>4. ASSUME NEW y \in T PROVE x <= y
  <2>1. x \in Nat /\ y \in Nat
        OBVIOUS
  <2>2. ~(y < x)
        BY <1>2, <1>3, <2>1
  <2>q. QED
        BY <2>1, <2>2
<1>q. QED
      BY <1>4

\* Induction up to n: a set that has 0, and k if it has k - 1, has all of 0 .. n.
LEMMA Induction ==
  ASSUME NEW n \in Nat, NEW H, 0 \in H, \A k \in 1 .. n : k - 1 \in H => k \in H
  PROVE  \A k \in 0 .. n : k \in H
<1> DEFINE T == {k \in 0 .. n : k \notin H}
<1>1. T \in SUBSET Nat
      OBVIOUS
<1>2. ASSUME T # {} PROVE FALSE
  <2>1. PICK x \in T : \A y \in T : x <= y
        BY <1>1, <1>2, LeastNumber
  <2>2. x \in 1 .. n /\ x - 1 \in 0 .. n
        BY <2>1
  <2>3. x - 1 \in H
        BY <2>1, <2>2
  <2>q. QED
        BY <2>1, <2>2, <2>3
<1>q. QED
      BY <1>2

-----------------------------------------------------------------------------
(* Cutting and joining *)

\* The first k elements of a sequence and the rest.
LEMMA Cut ==
  ASSUME NEW S, NEW s \in Seq(S), NEW k \in 0 .. Len(s)
  PROVE  /\ SubSeq(s, 1, k) \in Seq(S) /\ Len(SubSeq(s, 1, k)) = k
         /\ \A i \in 1 .. k : SubSeq(s, 1, k)[i] = s[i]
         /\ SubSeq(s, k + 1, Len(s)) \in Seq(S)
         /\ Len(SubSeq(s, k + 1, Len(s))) = Len(s) - k
         /\ \A i \in 1 .. Len(s) - k : SubSeq(s, k + 1, Len(s))[i] = s[k + i]
  OBVIOUS

\* Two sequences with the same elements are the same.
LEMMA SameElements ==
  ASSUME NEW S, NEW s \in Seq(S), NEW t \in Seq(S), Len(s) = Len(t),
         \A i \in 1 .. Len(s) : s[i] = t[i]
  PROVE  s = t
  OBVIOUS

\* z is s followed by t, element by element.
Joined(s, t, z) ==
    /\ Len(z) = Len(s) + Len(t)
    /\ \A i \in 1 .. Len(s) : z[i] = s[i]
    /\ \A i \in 1 .. Len(t) : z[Len(s) + i] = t[i]

\* It is what \o makes of them.
LEMMA Joining ==
  ASSUME NEW S, NEW s \in Seq(S), NEW t \in Seq(S)
  PROVE  s \o t \in Seq(S) /\ Joined(s, t, s \o t)
  BY DEF Joined

-----------------------------------------------------------------------------
(* Ascending and Pick *)

\* Rank maps I one to one onto 1 .. Cardinality(I), and keeps its order.
LEMMA RankFacts ==
  ASSUME NEW I, I \subseteq Int, IsFiniteSet(I)
  PROVE  /\ Cardinality(I) \in Nat
         /\ \A i \in I : Rank(I, i) \in 1 .. Cardinality(I)
         /\ \A i, j \in I : i < j <=> Rank(I, i) < Rank(I, j)
         /\ \A k \in 1 .. Cardinality(I) : \E i \in I : Rank(I, i) = k
<1> DEFINE Upto(i) == {j \in I : j <= i}
<1> DEFINE N == Cardinality(I)
<1> DEFINE f == [i \in I |-> Rank(I, i)]
<1>1. N \in Nat
      BY FS_CardinalityType
<1>2. ASSUME NEW i \in I
      PROVE  /\ IsFiniteSet(Upto(i)) /\ Cardinality(Upto(i)) \in Nat
             /\ Cardinality(Upto(i)) <= N
             /\ Cardinality(Upto(i)) # 0
  <2>1. Upto(i) \in SUBSET I /\ i \in Upto(i)
        OBVIOUS
  <2>2. IsFiniteSet(Upto(i)) /\ Cardinality(Upto(i)) <= N
        BY <2>1, FS_Subset
  <2>3. Cardinality(Upto(i)) \in Nat /\ Cardinality(Upto(i)) # 0
        BY <2>1, <2>2, FS_CardinalityType, FS_EmptySet
  <2>q. QED
        BY <2>2, <2>3
<1>3. ASSUME NEW i \in I PROVE Rank(I, i) \in 1 .. N
      BY <1>1, <1>2 DEF Rank
<1>4. ASSUME NEW i \in I, NEW j \in I, i < j PROVE Rank(I, i) < Rank(I, j)
  <2>1. i \in Int /\ j \in Int /\ i <= j /\ j <= j /\ ~(j <= i)
        BY <1>4
  <2>0. \A k \in I : k <= i => k <= j
    <3>1. \A k \in Int : k <= i => k <= j
          BY <2>1
    <3>q. QED
          BY <3>1
  <2>2. Upto(i) \in SUBSET Upto(j) /\ j \in Upto(j) /\ j \notin Upto(i)
        BY <2>0, <2>1
  <2>3. /\ Cardinality(Upto(i)) <= Cardinality(Upto(j))
        /\ Cardinality(Upto(j)) = Cardinality(Upto(i)) => Upto(j) = Upto(i)
        BY <1>2, <2>2, FS_Subset
  <2>4. Cardinality(Upto(i)) # Cardinality(Upto(j))
        BY <2>2, <2>3
  <2>q. QED
        BY <1>2, <2>3, <2>4 DEF Rank
<1>5. ASSUME NEW i \in I, NEW j \in I PROVE i < j <=> Rank(I, i) < Rank(I, j)
  <2>1. i \in Int /\ j \in Int /\ Rank(I, i) \in Int /\ Rank(I, j) \in Int
        BY <1>3
  <2>q. QED
        BY <1>4, <2>1
<1>6. f \in Injection(I, 1 .. N)
  <2>1. f \in [I -> 1 .. N]
        BY <1>3
  <2>2. ASSUME NEW i \in I, NEW j \in I, f[i] = f[j] PROVE i = j
    <3>1. i \in Int /\ j \in Int /\ Rank(I, i) \in Int /\ Rank(I, i) = Rank(I, j)
          BY <1>3, <2>2
    <3>q. QED
          BY <1>4, <3>1
  <2>q. QED
        BY <2>1, <2>2 DEF Injection, IsInjective
<1>7. IsFiniteSet(1 .. N) /\ Cardinality(1 .. N) = N
      BY <1>1, FS_Interval
<1>8. f \in Surjection(I, 1 .. N)
      BY <1>6, <1>7, FS_Injection
<1>9. \A k \in 1 .. N : \E i \in I : Rank(I, i) = k
      BY <1>8 DEF Surjection
<1>q. QED
      BY <1>1, <1>3, <1>5, <1>9

\* Ascending(I) has the numbers of I, each once, in order.
LEMMA AscendingFacts ==
  ASSUME NEW I, I \subseteq Int, IsFiniteSet(I)
  PROVE  /\ Cardinality(I) \in Nat
         /\ Ascending(I) \in Seq(I) /\ Len(Ascending(I)) = Cardinality(I)
         /\ \A i \in I : \E k \in 1 .. Cardinality(I) : Ascending(I)[k] = i
         /\ \A k, l \in 1 .. Cardinality(I) : k < l => Ascending(I)[k] < Ascending(I)[l]
<1> DEFINE N == Cardinality(I)
<1> DEFINE a == Ascending(I)
<1>0. /\ N \in Nat
      /\ \A i \in I : Rank(I, i) \in 1 .. N
      /\ \A i, j \in I : i < j <=> Rank(I, i) < Rank(I, j)
      BY RankFacts
<1>1. ASSUME NEW k \in 1 .. N PROVE a[k] \in I /\ Rank(I, a[k]) = k
  <2>1. \E i \in I : Rank(I, i) = k
        BY RankFacts
  <2>2. a[k] = CHOOSE i \in I : Rank(I, i) = k
        BY DEF Ascending
  <2>q. QED
        BY <2>1, <2>2
<1>2. a \in Seq(I) /\ Len(a) = N
  <2>1. a = [k \in 1 .. N |-> a[k]]
        BY DEF Ascending
  <2>q. QED
        BY <1>0, <1>1, <2>1
<1>3. ASSUME NEW k \in 1 .. N, NEW l \in 1 .. N, k < l PROVE a[k] < a[l]
  <2>1. a[k] \in I /\ a[l] \in I /\ Rank(I, a[k]) = k /\ Rank(I, a[l]) = l
        BY <1>1
  <2> HIDE DEF a
  <2>q. QED
        BY <1>0, <1>3, <2>1
<1>4. ASSUME NEW i \in I PROVE \E k \in 1 .. N : a[k] = i
  <2> DEFINE k == Rank(I, i)
  <2>1. k \in 1 .. N
        BY <1>0
  <2>2. a[k] \in I /\ Rank(I, a[k]) = k
        BY <1>1, <2>1
  <2> HIDE DEF a
  <2>3. ~(a[k] < i) /\ ~(i < a[k])
    <3>1. ~(k < k)
          BY <2>1
    <3>2. /\ a[k] < i => Rank(I, a[k]) < Rank(I, i)
          /\ i < a[k] => Rank(I, i) < Rank(I, a[k])
          BY <1>0, <2>2
    <3>q. QED
          BY <2>2, <3>1, <3>2
  <2>4. a[k] \in Int /\ i \in Int
        BY <2>2
  <2>5. a[k] = i
        BY <2>3, <2>4
  <2>q. QED
        BY <2>1, <2>5
<1>q. QED
      BY <1>0, <1>2, <1>3, <1>4

\* Pick(s, I) is the selection of those elements of s.
LEMMA PickFacts ==
  ASSUME NEW S, NEW s \in Seq(S), NEW I, I \subseteq DOMAIN s
  PROVE  /\ IsFiniteSet(I) /\ Cardinality(I) \in Nat
         /\ Ascending(I) \in Seq(I) /\ Len(Ascending(I)) = Cardinality(I)
         /\ Pick(s, I) \in Seq(S) /\ Len(Pick(s, I)) = Cardinality(I)
         /\ \A k \in 1 .. Cardinality(I) :
               Ascending(I)[k] \in I /\ Pick(s, I)[k] = s[Ascending(I)[k]]
<1>1. DOMAIN s = 1 .. Len(s) /\ Len(s) \in Nat
      OBVIOUS
<1>2. IsFiniteSet(I) /\ I \subseteq Int
  <2>1. IsFiniteSet(1 .. Len(s)) /\ I \in SUBSET (1 .. Len(s))
        BY <1>1, FS_Interval
  <2>q. QED
        BY <2>1, FS_Subset
<1>3. /\ Cardinality(I) \in Nat
      /\ Ascending(I) \in Seq(I) /\ Len(Ascending(I)) = Cardinality(I)
      BY <1>2, AscendingFacts
<1>4. \A k \in 1 .. Cardinality(I) : Ascending(I)[k] \in I /\ s[Ascending(I)[k]] \in S
      BY <1>1, <1>3
<1>5. \A k \in 1 .. Cardinality(I) : Pick(s, I)[k] = s[Ascending(I)[k]]
      BY DEF Pick
<1>6. Pick(s, I) \in Seq(S) /\ Len(Pick(s, I)) = Cardinality(I)
  <2>2. Pick(s, I) = [k \in 1 .. Cardinality(I) |-> s[Ascending(I)[k]]]
        BY DEF Pick
  <2>q. QED
        BY <1>3, <1>4, <2>2
<1>q. QED
      BY <1>2, <1>3, <1>4, <1>5, <1>6

\* An ascending enumeration of I is Ascending(I).
LEMMA AscendingIs ==
  ASSUME NEW n \in Nat, NEW f \in [1 .. n -> Int],
         \A k, l \in 1 .. n : k < l => f[k] < f[l],
         NEW I, I = {f[k] : k \in 1 .. n}
  PROVE  /\ IsFiniteSet(I) /\ Cardinality(I) = n
         /\ \A k \in 1 .. n : Ascending(I)[k] = f[k]
<1>1. ASSUME NEW m \in 0 .. n
      PROVE  LET J == {f[k] : k \in 1 .. m} IN IsFiniteSet(J) /\ Cardinality(J) = m
  <2> DEFINE J == {f[k] : k \in 1 .. m}
  <2> DEFINE g == [k \in 1 .. m |-> f[k]]
  <2>1. \A k \in 1 .. m : k \in 1 .. n
        OBVIOUS
  <2>2. g \in Surjection(1 .. m, J)
        BY DEF Surjection
  <2>3. ASSUME NEW k \in 1 .. m, NEW l \in 1 .. m, g[k] = g[l] PROVE k = l
    <3>1. k \in Int /\ l \in Int /\ f[k] \in Int /\ f[k] = f[l]
          BY <2>1, <2>3
    <3>2. ~(k < l) /\ ~(l < k)
          BY <2>1, <3>1
    <3>q. QED
          BY <3>1, <3>2
  <2>4. g \in Bijection(1 .. m, J)
        BY <2>2, <2>3 DEF Bijection, Injection, Surjection, IsInjective
  <2>5. IsFiniteSet(1 .. m) /\ Cardinality(1 .. m) = m
        BY FS_Interval
  <2>q. QED
        BY <2>4, <2>5, FS_Bijection DEF ExistsBijection
<1>2. IsFiniteSet(I) /\ Cardinality(I) = n
  <2>1. n \in 0 .. n
        OBVIOUS
  <2>q. QED
        BY <1>1, <2>1
<1>3. ASSUME NEW k \in 1 .. n PROVE Rank(I, f[k]) = k
  <2>1. \A j \in 1 .. n : f[j] <= f[k] <=> j <= k
    <3>1. ASSUME NEW j \in 1 .. n PROVE f[j] <= f[k] <=> j <= k
      <4>1. f[j] \in Int /\ f[k] \in Int /\ j \in Int /\ k \in Int
            OBVIOUS
      <4>2. (j < k => f[j] < f[k]) /\ (k < j => f[k] < f[j])
            OBVIOUS
      <4>q. QED
            BY <4>1, <4>2
    <3>q. QED
          BY <3>1
  <2>2. {j \in I : j <= f[k]} = {f[j] : j \in 1 .. k}
    <3>1. \A j \in 1 .. k : j \in 1 .. n /\ j <= k
          OBVIOUS
    <3>2. \A j \in 1 .. n : j <= k => j \in 1 .. k
          OBVIOUS
    <3>q. QED
          BY <2>1, <3>1, <3>2
  <2>3. k \in 0 .. n
        OBVIOUS
  <2>q. QED
        BY <1>1, <2>2, <2>3 DEF Rank
<1>4. ASSUME NEW k \in 1 .. n PROVE Ascending(I)[k] = f[k]
  <2>1. Ascending(I)[k] = CHOOSE i \in I : Rank(I, i) = k
        BY <1>2 DEF Ascending
  <2>2. f[k] \in I /\ Rank(I, f[k]) = k
        BY <1>3
  <2>3. \A i \in I : Rank(I, i) = k => i = f[k]
        BY <1>3
  <2>q. QED
        BY <2>1, <2>2, <2>3
<1>q. QED
      BY <1>2, <1>4

\* SetToSeq(S) has the members of a finite set, each once.
LEMMA SetToSeqFacts ==
  ASSUME NEW S, IsFiniteSet(S)
  PROVE  /\ Cardinality(S) \in Nat
         /\ SetToSeq(S) \in Seq(S) /\ Len(SetToSeq(S)) = Cardinality(S)
         /\ \A x \in S : \E k \in 1 .. Cardinality(S) : SetToSeq(S)[k] = x
<1> DEFINE N == Cardinality(S)
<1> DEFINE q == SetToSeq(S)
<1>1. N \in Nat /\ ExistsBijection(1 .. N, S)
      BY FS_CardinalityType
<1>2. \E f \in [1 .. N -> S] : IsInjective(f)
      BY <1>1 DEF ExistsBijection, Bijection, Injection
<1>3. q \in [1 .. N -> S] /\ IsInjective(q)
      BY <1>2 DEF SetToSeq
<1>4. q \in Surjection(1 .. N, S)
  <2>1. q \in Injection(1 .. N, S)
        BY <1>3 DEF Injection
  <2>2. Cardinality(1 .. N) = Cardinality(S)
        BY <1>1, FS_Interval
  <2>q. QED
        BY <2>1, <2>2, FS_Injection
<1>5. q \in Seq(S) /\ Len(q) = N
      BY <1>1, <1>3
<1>q. QED
      BY <1>1, <1>4, <1>5 DEF Surjection

-----------------------------------------------------------------------------
(* Total *)

\* The partial sums of c.
IsSums(c, g, n) ==
    g \in [0 .. n -> Int] /\ g[0] = 0 /\ \A k \in 1 .. n : g[k] = g[k - 1] + c[k]

\* They exist, ...
LEMMA SumsExist ==
  ASSUME NEW c \in Seq(Int)
  PROVE  \E g : IsSums(c, g, Len(c))
<1> DEFINE H == {n \in 0 .. Len(c) : \E g : IsSums(c, g, n)}
<1>1. Len(c) \in Nat /\ \A k \in 1 .. Len(c) : c[k] \in Int
      OBVIOUS
<1>2. 0 \in H
  <2>1. IsSums(c, [i \in 0 .. 0 |-> 0], 0)
        BY DEF IsSums
  <2>q. QED
        BY <1>1, <2>1
<1>3. ASSUME NEW n \in 1 .. Len(c), n - 1 \in H PROVE n \in H
  <2>1. PICK g : IsSums(c, g, n - 1)
        BY <1>3
  <2> DEFINE h == [i \in 0 .. n |-> IF i = n THEN g[n - 1] + c[n] ELSE g[i]]
  <2>2. IsSums(c, h, n)
        BY <1>1, <2>1 DEF IsSums
  <2>q. QED
        BY <2>2
<1> HIDE DEF H
<1>4. \A n \in 0 .. Len(c) : n \in H
      BY <1>1, <1>2, <1>3, Induction
<1>q. QED
      BY <1>1, <1>4 DEF H

\* ... two sequences that agree have the same, ...
LEMMA SumsUnique ==
  ASSUME NEW n \in Nat, NEW c, NEW d, NEW g, NEW h, IsSums(c, g, n), IsSums(d, h, n),
         \A k \in 1 .. n : c[k] = d[k]
  PROVE  \A k \in 0 .. n : g[k] = h[k]
<1> DEFINE H == {k \in 0 .. n : g[k] = h[k]}
<1>1. 0 \in H
      BY DEF IsSums
<1>2. ASSUME NEW k \in 1 .. n, k - 1 \in H PROVE k \in H
      BY <1>2 DEF IsSums
<1> HIDE DEF H
<1>3. \A k \in 0 .. n : k \in H
      BY <1>1, <1>2, Induction
<1>q. QED
      BY <1>3 DEF H

\* ... and Total is the last of them.
LEMMA TotalIsSum ==
  ASSUME NEW c \in Seq(Int), NEW g, IsSums(c, g, Len(c))
  PROVE  Total(c) = g[Len(c)] /\ Total(c) \in Int
<1> DEFINE n == Len(c)
<1> DEFINE P(f) == f = [k \in 0 .. n |-> IF k = 0 THEN 0 ELSE f[k - 1] + c[k]]
<1> DEFINE f == CHOOSE f : P(f)
<1>1. n \in Nat /\ \A k \in 1 .. n : c[k] \in Int
      OBVIOUS
<1>2. P(g)
      BY <1>1 DEF IsSums
<1>3. P(f)
      BY <1>2
<1>4. Total(c) = f[n]
      BY DEF Total
<1> DEFINE H == {k \in 0 .. n : f[k] = g[k]}
<1> HIDE DEF f
<1>5. 0 \in H
      BY <1>1, <1>3 DEF IsSums
<1>6. ASSUME NEW k \in 1 .. n, k - 1 \in H PROVE k \in H
  <2>1. k # 0 /\ k \in 0 .. n /\ f[k - 1] = g[k - 1]
        BY <1>1, <1>6
  <2>2. f[k] = f[k - 1] + c[k]
        BY <1>3, <2>1
  <2>3. g[k] = g[k - 1] + c[k]
        BY DEF IsSums
  <2>q. QED
        BY <2>1, <2>2, <2>3
<1> HIDE DEF H
<1>7. \A k \in 0 .. n : k \in H
      BY <1>1, <1>5, <1>6, Induction
<1>8. f[n] = g[n] /\ g[n] \in Int
      BY <1>1, <1>7 DEF H, IsSums
<1>q. QED
      BY <1>4, <1>8

\* The empty sum.
LEMMA TotalEmpty == Total(<<>>) = 0
<1> DEFINE c == <<>>
<1>1. c \in Seq(Int) /\ Len(c) = 0
      OBVIOUS
<1>2. IsSums(c, [i \in 0 .. 0 |-> 0], 0)
      BY DEF IsSums
<1>q. QED
      BY <1>1, <1>2, TotalIsSum

\* One more summand.
LEMMA TotalAppend ==
  ASSUME NEW c \in Seq(Int), NEW d \in Seq(Int), Len(d) = Len(c) + 1,
         \A k \in 1 .. Len(c) : d[k] = c[k]
  PROVE  Total(d) = Total(c) + d[Len(d)]
<1> DEFINE n == Len(c)
<1>1. n \in Nat /\ n + 1 = Len(d) /\ n + 1 - 1 = n /\ n + 1 \in 1 .. Len(d)
      OBVIOUS
<1>2. PICK g : IsSums(c, g, n)
      BY SumsExist
<1>3. PICK h : IsSums(d, h, n + 1)
      BY <1>1, SumsExist
<1>4. IsSums(d, [k \in 0 .. n |-> h[k]], n)
      BY <1>1, <1>3 DEF IsSums
<1>5. g[n] = h[n]
  <2> DEFINE j == [k \in 0 .. n |-> h[k]]
  <2>1. n \in 0 .. n /\ j[n] = h[n]
        BY <1>1
  <2>2. IsSums(d, j, n) /\ \A k \in 1 .. n : c[k] = d[k]
        BY <1>4
  <2> HIDE DEF j, n
  <2>3. \A k \in 0 .. n : g[k] = j[k]
        BY <1>1, <1>2, <2>2, SumsUnique
  <2>q. QED
        BY <2>1, <2>3
<1>6. h[n + 1] = h[n] + d[n + 1]
  <2>1. \A k \in 1 .. n + 1 : h[k] = h[k - 1] + d[k]
        BY <1>3 DEF IsSums
  <2>2. h[n + 1] = h[n + 1 - 1] + d[n + 1]
        BY <1>1, <2>1
  <2>q. QED
        BY <1>1, <2>2
<1>q. QED
      BY <1>1, <1>2, <1>3, <1>5, <1>6, TotalIsSum

\* One summand is changed.
LEMMA TotalChange ==
  ASSUME NEW c \in Seq(Int), NEW d \in Seq(Int), Len(d) = Len(c),
         NEW i \in 1 .. Len(c), \A k \in 1 .. Len(c) : k # i => d[k] = c[k]
  PROVE  Total(d) = Total(c) + d[i] - c[i]
<1> DEFINE n == Len(c)
<1>1. n \in Nat /\ i \in 1 .. n /\ \A k \in 1 .. n : c[k] \in Int /\ d[k] \in Int
      OBVIOUS
<1>2. PICK g : IsSums(c, g, n)
      BY SumsExist
<1>3. PICK h : IsSums(d, h, n)
      BY SumsExist
<1> DEFINE H == {k \in 0 .. n : h[k] = g[k] + (IF k < i THEN 0 ELSE d[i] - c[i])}
<1>4. 0 \in H
      BY <1>1, <1>2, <1>3 DEF IsSums
<1>5. ASSUME NEW k \in 1 .. n, k - 1 \in H PROVE k \in H
  <2>0. k - 1 \in 0 .. n /\ k \in Int /\ i \in Int
        BY <1>1
  <2>1. g[k] = g[k - 1] + c[k] /\ h[k] = h[k - 1] + d[k]
        BY <1>2, <1>3 DEF IsSums
  <2>5. g[k - 1] \in Int /\ h[k - 1] \in Int /\ c[k] \in Int /\ d[k] \in Int
        BY <1>1, <1>2, <1>3, <2>0 DEF IsSums
  <2>2. h[k - 1] = g[k - 1] + (IF k - 1 < i THEN 0 ELSE d[i] - c[i])
        BY <1>5
  <2>3. k # i => d[k] = c[k]
        OBVIOUS
  <2>4. h[k] = g[k] + (IF k < i THEN 0 ELSE d[i] - c[i])
    <3>1. CASE k < i
      <4>1. k - 1 < i
            BY <2>0, <3>1
      <4>q. QED
            BY <2>0, <2>1, <2>2, <2>3, <2>5, <3>1, <4>1
    <3>2. CASE k = i
      <4>1. k - 1 < i /\ ~(k < i)
            BY <2>0, <3>2
      <4>2. h[k - 1] = g[k - 1]
            BY <2>2, <2>5, <4>1
      <4>3. \A x, y, z \in Int : x + y = (x + z) + (y - z)
            OBVIOUS
      <4>q. QED
            BY <2>1, <2>5, <3>2, <4>1, <4>2, <4>3
    <3>3. CASE i < k
      <4>1. ~(k - 1 < i) /\ ~(k < i) /\ k # i
            BY <2>0, <3>3
      <4>2. c[i] \in Int /\ d[i] \in Int
            BY <1>1
      <4>3. h[k - 1] = g[k - 1] + (d[i] - c[i]) /\ d[k] = c[k]
            BY <2>2, <2>3, <4>1
      <4>4. \A x, z, u \in Int : (x + z) + u = (x + u) + z
            OBVIOUS
      <4>5. h[k] = (g[k - 1] + (d[i] - c[i])) + c[k] /\ d[i] - c[i] \in Int
            BY <2>1, <4>2, <4>3
      <4>6. h[k] = (g[k - 1] + c[k]) + (d[i] - c[i])
        <5> DEFINE x == g[k - 1]
        <5> DEFINE u == c[k]
        <5> DEFINE z == d[i] - c[i]
        <5>1. x \in Int /\ u \in Int /\ z \in Int /\ h[k] = (x + z) + u
              BY <2>5, <4>5
        <5> HIDE DEF x, u, z
        <5>2. h[k] = (x + u) + z
              BY <4>4, <5>1
        <5>q. QED
              BY <5>2 DEF x, u, z
      <4>q. QED
            BY <2>1, <4>1, <4>6
    <3>q. QED
          BY <2>0, <3>1, <3>2, <3>3
  <2>q. QED
        BY <2>4
<1> HIDE DEF H
<1>6. \A k \in 0 .. n : k \in H
      BY <1>1, <1>4, <1>5, Induction
<1>7. h[n] = g[n] + d[i] - c[i]
  <2>1. n \in 0 .. n /\ ~(n < i) /\ d[i] \in Int /\ c[i] \in Int
        BY <1>1
  <2>2. g[n] \in Int
        BY <1>2, <2>1 DEF IsSums
  <2>3. h[n] = g[n] + (d[i] - c[i])
        BY <1>6, <2>1 DEF H
  <2>q. QED
        BY <2>1, <2>2, <2>3
<1>q. QED
      BY <1>2, <1>3, <1>7, TotalIsSum
=============================================================================
