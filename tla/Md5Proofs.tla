----------------------------- MODULE Md5Proofs -----------------------------
(***************************************************************************)
(* The blocks that are transformed are those of RFC 1321, for messages of  *)
(* any length that fits in a word and for any sizes of a block and of a    *)
(* word, the real ones among them: every message of less than 4 GiB.       *)
(***************************************************************************)
EXTENDS Md5, ListFacts

-----------------------------------------------------------------------------
(* Division *)

\* Every number has a quotient and a remainder ...
LEMMA DivisionExists ==
  ASSUME NEW n \in Nat, NEW d \in Nat \ {0}
  PROVE  \E q \in Nat, r \in 0 .. d - 1 : n = q * d + r
<1> DEFINE H == {k \in 0 .. n : \E q \in Nat, r \in 0 .. d - 1 : k = q * d + r}
<1>1. 0 \in H
  <2>1. 0 = 0 * d + 0 /\ 0 \in 0 .. d - 1
        OBVIOUS
  <2>q. QED
        BY <2>1
<1>2. ASSUME NEW k \in 1 .. n, k - 1 \in H PROVE k \in H
  <2>1. PICK q \in Nat, r \in 0 .. d - 1 : k - 1 = q * d + r
        BY <1>2
  <2>2. CASE r < d - 1
    <3>1. r + 1 \in 0 .. d - 1 /\ k = q * d + (r + 1)
          BY <2>1, <2>2
    <3>q. QED
          BY <3>1
  <2>3. CASE r = d - 1
    <3>1. (q + 1) * d = q * d + d /\ 0 \in 0 .. d - 1 /\ q + 1 \in Nat
          OBVIOUS
    <3>2. k = (q + 1) * d + 0
          BY <2>1, <2>3, <3>1
    <3>q. QED
          BY <3>1, <3>2
  <2>q. QED
        BY <2>2, <2>3
<1> HIDE DEF H
<1>3. n \in H
      BY <1>1, <1>2, Induction
<1>q. QED
      BY <1>3 DEF H

\* ... and they are what \div and % give.
LEMMA Quotient ==
  ASSUME NEW n \in Nat, NEW d \in Nat \ {0}, NEW q \in Nat, NEW r \in 0 .. d - 1,
         n = q * d + r
  PROVE  n \div d = q /\ n % d = r
  OBVIOUS

\* Both, as facts about the two operators.
LEMMA Division ==
  ASSUME NEW n \in Nat, NEW d \in Nat \ {0}
  PROVE  n \div d \in Nat /\ n % d \in 0 .. d - 1 /\ n = (n \div d) * d + (n % d)
<1>1. PICK q \in Nat, r \in 0 .. d - 1 : n = q * d + r
      BY DivisionExists
<1>2. n \div d = q /\ n % d = r
      BY <1>1, Quotient
<1>q. QED
      BY <1>1, <1>2

\* A remainder can be taken early.
LEMMA EarlyRemainder ==
  ASSUME NEW a \in Nat, NEW b \in Nat, NEW d \in Nat \ {0}
  PROVE  ((a % d) + b) % d = (a + b) % d
<1>1. PICK x \in Nat, y \in 0 .. d - 1 : a = x * d + y
      BY DivisionExists
<1>2. a % d = y
      BY <1>1, Quotient
<1>b. y + b \in Nat
      OBVIOUS
<1>3. PICK z \in Nat, t \in 0 .. d - 1 : y + b = z * d + t
      BY <1>b, DivisionExists
<1>4. (y + b) % d = t
      BY <1>b, <1>3, Quotient
<1>5. a + b = (x + z) * d + t /\ a + b \in Nat /\ x + z \in Nat
  <2>1. (x + z) * d = x * d + z * d
        OBVIOUS
  <2>q. QED
        BY <1>1, <1>3, <2>1
<1>6. (a + b) % d = t
      BY <1>5, Quotient
<1>q. QED
      BY <1>2, <1>4, <1>6

-----------------------------------------------------------------------------
(* The count *)

\* The bytes a counter word can count are a number of blocks.
LEMMA WordIs ==
  \E j \in Nat \ {0} : Word = 8 * (j * BlockSize) /\ Word \div 8 = j * BlockSize
<1>1. BlockSize \in Nat \ {0} /\ Word \in Nat \ {0} /\ 8 * BlockSize \in Nat \ {0}
      BY SizesAssumption
<1> DEFINE j == Word \div (8 * BlockSize)
<1>2. j \in Nat /\ Word = j * (8 * BlockSize) + (Word % (8 * BlockSize))
      BY <1>1, Division
<1> HIDE DEF j
<1>3. Word = j * (8 * BlockSize)
      BY <1>2, SizesAssumption
<1>4. j * (8 * BlockSize) = 8 * (j * BlockSize) /\ j * BlockSize \in Nat
      BY <1>1, <1>2
<1>5. j # 0
      BY <1>1, <1>3
<1>6. Word \div 8 = j * BlockSize
  <2> DEFINE v == j * BlockSize
  <2>1. v \in Nat /\ Word = 8 * v
        BY <1>3, <1>4
  <2> HIDE DEF v
  <2>2. Word \div 8 = v
        BY <2>1
  <2>q. QED
        BY <2>2 DEF v
<1>q. QED
      BY <1>2, <1>3, <1>4, <1>5, <1>6

\* A word can count several blocks.
LEMMA WordIsLarge ==
  BlockSize < Word /\ 8 * Word <= Word * Word
<1>1. PICK j \in Nat \ {0} : Word = 8 * (j * BlockSize)
      BY WordIs
<1>2. BlockSize \in Nat \ {0} /\ Word \in Nat
      BY SizesAssumption
<1>3. j * BlockSize >= BlockSize /\ j * BlockSize \in Nat
      BY <1>2
<1>4. BlockSize < Word /\ 8 <= Word
      BY <1>1, <1>2, <1>3
<1>5. 8 * Word <= Word * Word
      BY <1>2, <1>4
<1>q. QED
      BY <1>4, <1>5

\* What the counter should be after n bytes.
Bits(n) == <<(8 * n) % Word, ((8 * n) \div Word) % Word>>

\* It counts bytes in words of Word / 8.
LEMMA BitsOf ==
  ASSUME NEW v \in Nat \ {0}, Word = 8 * v, NEW n \in Nat, NEW q \in Nat, NEW r \in 0 .. v - 1,
         n = q * v + r
  PROVE  (8 * n) % Word = 8 * r /\ (8 * n) \div Word = q
<1>1. 8 * n = q * Word + 8 * r
  <2>1. 8 * (q * v) = q * (8 * v)
        OBVIOUS
  <2>q. QED
        BY <2>1
<1>2. 8 * r \in 0 .. Word - 1 /\ Word \in Nat \ {0} /\ 8 * n \in Nat
      OBVIOUS
<1>q. QED
      BY <1>1, <1>2, Quotient

\* Index finds the number of buffered bytes in it.
LEMMA IndexIs ==
  ASSUME NEW n \in Nat
  PROVE  (Bits(n)[1] \div 8) % BlockSize = n % BlockSize
<1>1. PICK j \in Nat \ {0} : Word = 8 * (j * BlockSize)
      BY WordIs
<1>2. BlockSize \in Nat \ {0}
      BY SizesAssumption
<1> DEFINE v == j * BlockSize
<1>3. v \in Nat \ {0} /\ Word = 8 * v
  <2>1. j * BlockSize >= 1
        BY <1>2
  <2>q. QED
        BY <1>1, <1>2, <2>1
<1> HIDE DEF v
<1>4. PICK q \in Nat, r \in 0 .. v - 1 : n = q * v + r
      BY <1>3, DivisionExists
<1>7. (8 * n) % Word = 8 * r /\ (8 * n) \div Word = q
      BY <1>3, <1>4, BitsOf
<1>5. PICK x \in Nat, y \in 0 .. BlockSize - 1 : r = x * BlockSize + y
  <2>1. r \in Nat
        BY <1>3
  <2>q. QED
        BY <1>2, <2>1, DivisionExists
<1>6. q * v = (q * j) * BlockSize /\ q * j \in Nat
      BY <1>2 DEF v
<1>8. (8 * r) \div 8 = r /\ r \in Nat
      BY <1>3
<1>9. r % BlockSize = y
      BY <1>2, <1>5, <1>8, Quotient
<1>10. n = (q * j + x) * BlockSize + y /\ q * j + x \in Nat
  <2>1. (q * j + x) * BlockSize = (q * j) * BlockSize + x * BlockSize
        BY <1>2
  <2>2. q * v \in Nat /\ x * BlockSize \in Nat
        BY <1>2, <1>3
  <2>q. QED
        BY <1>4, <1>5, <1>6, <2>1, <2>2
<1>11. n % BlockSize = y
      BY <1>2, <1>10, Quotient
<1>12. Bits(n)[1] = 8 * r
      BY <1>7 DEF Bits
<1>q. QED
      BY <1>8, <1>9, <1>11, <1>12

\* update counts what it is given, so long as its length is that of a word: the
\* carry is found.
LEMMA CountedIs ==
  ASSUME NEW n \in Nat, NEW l \in Nat, l < Word
  PROVE  Counted(Bits(n), l) = Bits(n + l)
<1>1. PICK j \in Nat \ {0} : Word = 8 * (j * BlockSize) /\ Word \div 8 = j * BlockSize
      BY WordIs
<1>2. BlockSize \in Nat \ {0}
      BY SizesAssumption
<1> DEFINE v == j * BlockSize
<1>3. v \in Nat \ {0} /\ Word = 8 * v /\ Word \div 8 = v
  <2>1. j * BlockSize >= 1
        BY <1>2
  <2>q. QED
        BY <1>1, <1>2, <2>1
<1> HIDE DEF v
<1>4. PICK q \in Nat, r \in 0 .. v - 1 : n = q * v + r
      BY <1>3, DivisionExists
<1>5. PICK p \in Nat, t \in 0 .. v - 1 : l = p * v + t
      BY <1>3, DivisionExists
<1>6. (8 * n) % Word = 8 * r /\ (8 * n) \div Word = q
      BY <1>3, <1>4, BitsOf
<1>7. (8 * l) % Word = 8 * t /\ l \div (Word \div 8) = p
  <2>1. (8 * l) % Word = 8 * t /\ (8 * l) \div Word = p
        BY <1>3, <1>5, BitsOf
  <2>2. l \div v = p /\ l % v = t
        BY <1>3, <1>5, Quotient
  <2>q. QED
        BY <1>3, <2>1, <2>2
<1> DEFINE carry == IF r + t < v THEN 0 ELSE 1
<1>8. /\ (8 * r + 8 * t) % Word = 8 * (r + t - carry * v)
      /\ r + t - carry * v \in 0 .. v - 1
      /\ (8 * (r + t - carry * v) < 8 * t <=> carry = 1)
  <2>1. CASE r + t < v
    <3>1. 8 * r + 8 * t = 0 * Word + 8 * (r + t) /\ 8 * (r + t) \in 0 .. Word - 1
          BY <1>3, <2>1
    <3>2. (8 * r + 8 * t) % Word = 8 * (r + t)
          BY <1>3, <3>1, Quotient
    <3>q. QED
          BY <1>3, <2>1, <3>2
  <2>2. CASE r + t >= v
    <3>1. /\ 8 * r + 8 * t = 1 * Word + 8 * (r + t - v) /\ 8 * (r + t - v) \in 0 .. Word - 1
          /\ 8 * r + 8 * t \in Nat
          BY <1>3, <2>2
    <3>2. (8 * r + 8 * t) % Word = 8 * (r + t - v)
          BY <1>3, <3>1, Quotient
    <3>3. carry = 1 /\ r + t - carry * v = r + t - v
          BY <1>3, <2>2
    <3>q. QED
          BY <1>3, <2>2, <3>2, <3>3
  <2>q. QED
        BY <1>3, <2>1, <2>2
<1>9. carry \in {0, 1}
      OBVIOUS
<1> DEFINE w == r + t - carry * v
<1>10. n + l = (q + p + carry) * v + w
  <2>1. (q + p + carry) * v = q * v + p * v + carry * v
        BY <1>3, <1>9
  <2>2. q * v \in Nat /\ p * v \in Nat /\ carry * v \in Nat
        BY <1>3, <1>9
  <2>q. QED
        BY <1>3, <1>4, <1>5, <2>1, <2>2
<1>11. w \in 0 .. v - 1 /\ q + p + carry \in Nat /\ n + l \in Nat
      BY <1>8, <1>9
<1> HIDE DEF carry, w
<1>12. (8 * (n + l)) % Word = 8 * w /\ (8 * (n + l)) \div Word = q + p + carry
  <2> DEFINE z == n + l
  <2> DEFINE h == q + p + carry
  <2>1. z \in Nat /\ h \in Nat /\ z = h * v + w
        BY <1>10, <1>11
  <2> HIDE DEF z, h
  <2>2. (8 * z) % Word = 8 * w /\ (8 * z) \div Word = h
        BY <1>3, <1>11, <2>1, BitsOf
  <2>q. QED
        BY <2>2 DEF z, h
<1>13. ((q % Word) + carry + p) % Word = (q + p + carry) % Word
  <2>1. Word \in Nat \ {0} /\ carry + p \in Nat
        BY <1>3, <1>9
  <2>2. ((q % Word) + (carry + p)) % Word = (q + (carry + p)) % Word
        BY <2>1, EarlyRemainder
  <2>3. q % Word \in Int
        BY <2>1
  <2>4. (q % Word) + carry + p = (q % Word) + (carry + p) /\ q + p + carry = q + (carry + p)
        BY <1>9, <2>3
  <2>q. QED
        BY <2>2, <2>4
<1>14. /\ (8 * r + 8 * t) % Word = 8 * w
       /\ (IF 8 * w < 8 * t THEN 1 ELSE 0) = carry
      BY <1>8, <1>9 DEF w
<1>15. Bits(n)[1] = 8 * r /\ Bits(n)[2] = q % Word
      BY <1>6 DEF Bits
<1>16. Counted(Bits(n), l) = <<8 * w, ((q % Word) + carry + p) % Word>>
  <2>1. l = 0 * Word + l /\ l \in 0 .. Word - 1 /\ Word \in Nat \ {0}
        BY <1>3
  <2>2. l % Word = l
        BY <2>1, Quotient
  <2>q. QED
        BY <1>7, <1>14, <1>15, <2>2 DEF Counted
<1>17. Bits(n + l) = <<8 * w, (q + p + carry) % Word>>
      BY <1>12 DEF Bits
<1>q. QED
      BY <1>13, <1>16, <1>17

-----------------------------------------------------------------------------
(* Blocks *)

\* The k-th part of size BlockSize behind the first from bytes of input.
Part(input, from, k) ==
    SubSeq(input, from + (k - 1) * BlockSize + 1, from + k * BlockSize)

\* Append in terms of its elements.
LEMMA AppendIs ==
  ASSUME NEW D, NEW b \in Seq(D), NEW x \in D, NEW n, n = Len(b) + 1
  PROVE  /\ Append(b, x) \in Seq(D) /\ Len(Append(b, x)) = n /\ Append(b, x)[n] = x
         /\ \A i \in 1 .. n - 1 : Append(b, x)[i] = b[i]
  OBVIOUS

\* TransformAll adds the parts to the state, one after the other.
LEMMA TransformAllIs ==
  ASSUME NEW D, NEW state \in Seq(D), NEW input, NEW from, NEW n \in Nat,
         \A k \in 1 .. n : Part(input, from, k) \in D
  PROVE  /\ TransformAll(state, input, from, n) \in Seq(D)
         /\ Len(TransformAll(state, input, from, n)) = Len(state) + n
         /\ \A i \in 1 .. Len(state) + n : TransformAll(state, input, from, n)[i]
               = IF i <= Len(state) THEN state[i] ELSE Part(input, from, i - Len(state))
<1> DEFINE m == Len(state)
<1> DEFINE blk(k) == Part(input, from, k)
<1> DEFINE G(k) == [i \in 1 .. m + k |-> IF i <= m THEN state[i] ELSE blk(i - m)]
<1> DEFINE P(f) == f = [k \in 0 .. n |-> IF k = 0 THEN state ELSE transform(f[k - 1], blk(k))]
<1> DEFINE g == [k \in 0 .. n |-> G(k)]
<1> DEFINE f == CHOOSE f : P(f)
<1>1. m \in Nat /\ state = [i \in 1 .. m |-> state[i]] /\ \A i \in 1 .. m : state[i] \in D
      OBVIOUS
<1>2. TransformAll(state, input, from, n) = f[n]
      BY DEF TransformAll, Part
<1> HIDE DEF m, blk
<1>3. ASSUME NEW k \in 0 .. n PROVE G(k) \in Seq(D) /\ Len(G(k)) = m + k
  <2>1. \A i \in 1 .. m + k : ~(i <= m) => i - m \in 1 .. n
        BY <1>1
  <2>2. \A i \in 1 .. n : blk(i) \in D
        BY DEF blk
  <2>3. \A i \in 1 .. m + k : (IF i <= m THEN state[i] ELSE blk(i - m)) \in D
        BY <1>1, <2>1, <2>2
  <2>4. m + k \in Nat
        BY <1>1
  <2>q. QED
        BY <2>3, <2>4
<1>4. G(0) = state
      BY <1>1
<1>5. ASSUME NEW k \in 1 .. n PROVE G(k) = transform(G(k - 1), blk(k))
  <2>1. k - 1 \in 0 .. n /\ m + (k - 1) + 1 = m + k /\ (m + k) - m = k
        BY <1>1
  <2>2. G(k - 1) \in Seq(D) /\ Len(G(k - 1)) = m + (k - 1)
        BY <1>3, <2>1
  <2>3. blk(k) \in D
        BY DEF blk
  <2> DEFINE a == Append(G(k - 1), blk(k))
  <2>4. /\ a \in Seq(D) /\ Len(a) = m + k /\ a[m + k] = blk(k)
        /\ \A i \in 1 .. m + (k - 1) : a[i] = G(k - 1)[i]
    <3> DEFINE b == G(k - 1)
    <3>1. b \in Seq(D) /\ Len(b) = m + (k - 1) /\ m + k = Len(b) + 1 /\ m + k - 1 = m + (k - 1)
          BY <1>1, <2>1, <2>2
    <3> HIDE DEF b
    <3>2. /\ Append(b, blk(k)) \in Seq(D) /\ Len(Append(b, blk(k))) = m + k
          /\ Append(b, blk(k))[m + k] = blk(k)
          /\ \A i \in 1 .. m + k - 1 : Append(b, blk(k))[i] = b[i]
          BY <2>3, <3>1, AppendIs
    <3>q. QED
          BY <3>1, <3>2 DEF b
  <2>5. \A i \in 1 .. m + (k - 1) : G(k - 1)[i] = IF i <= m THEN state[i] ELSE blk(i - m)
        OBVIOUS
  <2> HIDE DEF a
  <2>6. a = [i \in 1 .. m + k |-> a[i]]
        BY <2>4
  <2>7. ASSUME NEW i \in 1 .. m + k PROVE a[i] = IF i <= m THEN state[i] ELSE blk(i - m)
    <3>1. CASE i = m + k
      <4>1. ~(i <= m) /\ i - m = k
            BY <1>1, <3>1
      <4>q. QED
            BY <2>4, <3>1, <4>1
    <3>2. CASE i # m + k
      <4>1. i \in 1 .. m + (k - 1)
        <5>1. m \in Nat /\ k \in Nat /\ i \in Nat /\ i >= 1 /\ i <= m + k
              BY <1>1
        <5>q. QED
              BY <3>2, <5>1
      <4>q. QED
            BY <2>4, <2>5, <4>1
    <3>q. QED
          BY <3>1, <3>2
  <2>8. a = G(k)
        BY <2>6, <2>7
  <2>q. QED
        BY <2>8 DEF transform, a
<1> HIDE DEF G
<1>6. P(g)
  <2>1. \A k \in 1 .. n : k - 1 \in 0 .. n
        OBVIOUS
  <2>q. QED
        BY <1>4, <1>5, <2>1
<1>7. P(f)
      BY <1>6
<1> HIDE DEF f, g
<1> DEFINE H == {k \in 0 .. n : f[k] = G(k)}
<1>8. 0 \in H
      BY <1>4, <1>7
<1>9. ASSUME NEW k \in 1 .. n, k - 1 \in H PROVE k \in H
      BY <1>5, <1>7, <1>9
<1> HIDE DEF H
<1>10. n \in H
  <2>1. \A k \in 0 .. n : k \in H
        BY <1>8, <1>9, Induction
  <2>2. n \in 0 .. n
        OBVIOUS
  <2>q. QED
        BY <2>1, <2>2
<1>11. f[n] = G(n) /\ n \in 0 .. n
      BY <1>10 DEF H
<1>12. f[n] \in Seq(D) /\ Len(f[n]) = m + n
      BY <1>3, <1>11
<1>13. \A i \in 1 .. m + n : f[n][i] = IF i <= m THEN state[i] ELSE blk(i - m)
      BY <1>11 DEF G
<1>q. QED
      BY <1>2, <1>12, <1>13 DEF m, blk

Token == {"byte", "count", "pad", "zero", "unset"} \X Int

\* SubSeq in terms of its elements.
LEMMA SubSeqIs ==
  ASSUME NEW s \in Seq(Token), NEW a \in Nat, NEW b \in Nat, a + b <= Len(s)
  PROVE  /\ SubSeq(s, a + 1, a + b) \in Seq(Token) /\ Len(SubSeq(s, a + 1, a + b)) = b
         /\ SubSeq(s, a + 1, a + b) = [i \in 1 .. b |-> s[a + i]]
<1>1. \A i \in a + 1 .. a + b : i \in 1 .. Len(s)
      OBVIOUS
<1>2. SubSeq(s, a + 1, a + b) \in Seq(Token) /\ Len(SubSeq(s, a + 1, a + b)) = b
      BY <1>1
<1>3. \A i \in 1 .. b : SubSeq(s, a + 1, a + b)[i] = s[a + i]
      BY <1>1
<1> DEFINE t == SubSeq(s, a + 1, a + b)
<1> HIDE DEF t
<1>4. t \in Seq(Token) /\ Len(t) = b /\ \A i \in 1 .. b : t[i] = s[a + i]
      BY <1>2, <1>3 DEF t
<1>5. t = [i \in 1 .. b |-> t[i]]
      BY <1>4
<1>6. t = [i \in 1 .. b |-> s[a + i]]
      BY <1>4, <1>5
<1>q. QED
      BY <1>4, <1>6 DEF t

\* The elements of one sequence after another.
LEMMA ConcatIs ==
  ASSUME NEW p \in Seq(Token), NEW r \in Seq(Token)
  PROVE  /\ p \o r \in Seq(Token) /\ Len(p \o r) = Len(p) + Len(r)
         /\ \A i \in 1 .. Len(p) : (p \o r)[i] = p[i]
         /\ \A i \in 1 .. Len(r) : (p \o r)[Len(p) + i] = r[i]
  OBVIOUS

\* A part is a block of tokens.
LEMMA PartIs ==
  ASSUME NEW input \in Seq(Token), NEW from \in Nat, NEW k \in Nat \ {0},
         from + k * BlockSize <= Len(input)
  PROVE  /\ Part(input, from, k)
               = [i \in 1 .. BlockSize |-> input[from + (k - 1) * BlockSize + i]]
         /\ Part(input, from, k) \in [1 .. BlockSize -> Token]
<1> DEFINE a == from + (k - 1) * BlockSize
<1>1. BlockSize \in Nat
      BY SizesAssumption
<1>2. (k - 1) * BlockSize \in Nat /\ k * BlockSize = (k - 1) * BlockSize + BlockSize
      BY <1>1
<1>3. a \in Nat /\ from + k * BlockSize = a + BlockSize /\ a + BlockSize <= Len(input)
      BY <1>1, <1>2
<1>4. Part(input, from, k) = SubSeq(input, a + 1, a + BlockSize)
      BY <1>3 DEF Part
<1> HIDE DEF a
<1>5. Part(input, from, k) = [i \in 1 .. BlockSize |-> input[a + i]]
      BY <1>1, <1>3, <1>4, SubSeqIs
<1>6. \A i \in 1 .. BlockSize : input[a + i] \in Token
  <2>1. \A i \in 1 .. BlockSize : a + i \in 1 .. Len(input)
        BY <1>1, <1>3
  <2>q. QED
        BY <2>1
<1>q. QED
      BY <1>5, <1>6 DEF a

\* The k-th block of p, and the first n.
Block(p, k)  == [i \in 1 .. BlockSize |-> p[(k - 1) * BlockSize + i]]
Blocks(p, n) == [k \in 1 .. n |-> Block(p, k)]

\* The object o has taken in p and nothing else.
Holds(o, p) ==
    /\ p \in Seq(Token)
    /\ o.state = Blocks(p, Len(p) \div BlockSize)
    /\ o.count = Bits(Len(p))
    /\ o.buffer \in [1 .. BlockSize -> Token]
    /\ \A i \in 1 .. Len(p) % BlockSize :
          o.buffer[i] = p[(Len(p) \div BlockSize) * BlockSize + i]

\* The blocks of what comes first do not change when more comes.
LEMMA BlockOfMore ==
  ASSUME NEW p \in Seq(Token), NEW r \in Seq(Token), NEW k \in Nat \ {0},
         k * BlockSize <= Len(p)
  PROVE  Block(p \o r, k) = Block(p, k) /\ Block(p, k) \in [1 .. BlockSize -> Token]
<1>1. BlockSize \in Nat
      BY SizesAssumption
<1> DEFINE a == (k - 1) * BlockSize
<1>2. a \in Nat /\ k * BlockSize = a + BlockSize
      BY <1>1
<1> HIDE DEF a
<1>3. ASSUME NEW i \in 1 .. BlockSize PROVE (p \o r)[a + i] = p[a + i] /\ p[a + i] \in Token
  <2>1. a + i \in 1 .. Len(p)
        BY <1>1, <1>2
  <2>q. QED
        BY <2>1
<1>4. /\ Block(p, k) = [i \in 1 .. BlockSize |-> p[a + i]]
      /\ Block(p \o r, k) = [i \in 1 .. BlockSize |-> (p \o r)[a + i]]
      BY DEF Block, a
<1>q. QED
      BY <1>3, <1>4

\* What was copied into the buffer.
LEMMA OverwriteIs ==
  ASSUME NEW buffer \in [1 .. BlockSize -> Token], NEW index \in Nat,
         NEW input \in Seq(Token)
  PROVE  /\ Overwrite(buffer, index, input) \in [1 .. BlockSize -> Token]
         /\ \A i \in 1 .. BlockSize : Overwrite(buffer, index, input)[i]
               = IF i \in index + 1 .. index + Len(input) THEN input[i - index] ELSE buffer[i]
<1>1. ASSUME NEW i \in 1 .. BlockSize, i \in index + 1 .. index + Len(input)
      PROVE  input[i - index] \in Token
  <2>1. i - index \in 1 .. Len(input)
        BY <1>1
  <2>q. QED
        BY <2>1
<1>q. QED
      BY <1>1 DEF Overwrite

\* The quotient and the remainder of what an object has taken in.
LEMMA HoldsIs ==
  ASSUME NEW o, NEW p, Holds(o, p)
  PROVE  \E q \in Nat, r \in 0 .. BlockSize - 1 :
            /\ Len(p) = q * BlockSize + r /\ Len(p) % BlockSize = r /\ Index(o) = r
            /\ o.state = Blocks(p, q)
            /\ \A i \in 1 .. r : o.buffer[i] = p[q * BlockSize + i]
<1>1. BlockSize \in Nat \ {0} /\ Len(p) \in Nat
      BY SizesAssumption DEF Holds
<1> DEFINE q == Len(p) \div BlockSize
<1> DEFINE r == Len(p) % BlockSize
<1>2. q \in Nat /\ r \in 0 .. BlockSize - 1 /\ Len(p) = q * BlockSize + r
      BY <1>1, Division
<1>3. Index(o) = r
      BY <1>1, IndexIs DEF Holds, Index
<1>4. o.state = Blocks(p, q) /\ \A i \in 1 .. r : o.buffer[i] = p[q * BlockSize + i]
      BY DEF Holds
<1>5. Len(p) % BlockSize = r
      OBVIOUS
<1> HIDE DEF q, r
<1>q. QED
      BY <1>2, <1>3, <1>4, <1>5

\* The first blocks when more comes.
LEMMA BlocksOfMore ==
  ASSUME NEW p \in Seq(Token), NEW input \in Seq(Token), NEW q \in Nat,
         q * BlockSize <= Len(p)
  PROVE  \A k \in 1 .. q : /\ Block(p \o input, k) = Block(p, k)
                           /\ Block(p, k) \in [1 .. BlockSize -> Token]
<1>1. BlockSize \in Nat
      BY SizesAssumption
<1>2. ASSUME NEW k \in 1 .. q
      PROVE  k \in Nat \ {0} /\ k * BlockSize <= Len(p)
  <2>1. k * BlockSize <= q * BlockSize /\ q * BlockSize \in Nat /\ k * BlockSize \in Nat
        BY <1>1
  <2>q. QED
        BY <2>1
<1>q. QED
      BY <1>2, BlockOfMore

\* update when the buffer is not filled, ...
LEMMA UpdateShort ==
  ASSUME NEW o, NEW p, Holds(o, p), NEW input \in Seq(Token),
         Len(input) < BlockSize - (Len(p) % BlockSize), Len(input) < Word
  PROVE  Holds(Update(o, input), p \o input)
<1> DEFINE L == Len(p)
<1> DEFINE l == Len(input)
<1> DEFINE P == p \o input
<1>1. BlockSize \in Nat \ {0} /\ p \in Seq(Token) /\ L \in Nat /\ l \in Nat
      BY SizesAssumption DEF Holds
<1>2. PICK q \in Nat, r \in 0 .. BlockSize - 1 :
         /\ Len(p) = q * BlockSize + r /\ Len(p) % BlockSize = r /\ Index(o) = r
         /\ o.state = Blocks(p, q)
         /\ \A i \in 1 .. r : o.buffer[i] = p[q * BlockSize + i]
      BY HoldsIs
<1> DEFINE a == q * BlockSize
<1>3. a \in Nat /\ L = a + r /\ l < BlockSize - r /\ r \in Nat
      BY <1>1, <1>2
<1>4. /\ Update(o, input).state = o.state
      /\ Update(o, input).count = Counted(o.count, l)
      /\ Update(o, input).buffer = Overwrite(o.buffer, r, input)
  <2>1. ~(l >= BlockSize - r)
        BY <1>1, <1>3
  <2>q. QED
        BY <1>2, <2>1 DEF Update
<1>5. /\ P \in Seq(Token) /\ Len(P) = L + l /\ \A i \in 1 .. L : P[i] = p[i]
      /\ \A i \in 1 .. l : P[L + i] = input[i]
      BY <1>1
<1>6. Counted(o.count, l) = Bits(Len(P))
      BY <1>1, <1>5, CountedIs DEF Holds
<1>7. o.state = Blocks(P, q)
  <2>0. q * BlockSize <= Len(p)
        BY <1>1, <1>3
  <2>1. \A k \in 1 .. q : /\ Block(P, k) = Block(p, k)
                          /\ Block(p, k) \in [1 .. BlockSize -> Token]
        BY <1>1, <2>0, BlocksOfMore
  <2>q. QED
        BY <1>2, <2>1 DEF Blocks
<1>8. /\ Overwrite(o.buffer, r, input) \in [1 .. BlockSize -> Token]
      /\ \A i \in 1 .. BlockSize : Overwrite(o.buffer, r, input)[i]
            = IF i \in r + 1 .. r + l THEN input[i - r] ELSE o.buffer[i]
      BY <1>3, OverwriteIs DEF Holds
<1>9. \A i \in 1 .. r : o.buffer[i] = p[a + i]
      BY <1>2
<1> HIDE DEF P, L, l, a
<1>10. r + l \in 0 .. BlockSize - 1 /\ L + l = a + (r + l) /\ L + l \in Nat
      BY <1>1, <1>3
<1>11. Len(P) \div BlockSize = q /\ Len(P) % BlockSize = r + l
  <2>1. L + l = q * BlockSize + (r + l)
        BY <1>10 DEF a
  <2>2. (L + l) \div BlockSize = q /\ (L + l) % BlockSize = r + l
        BY <1>1, <1>10, <2>1, Quotient
  <2>q. QED
        BY <1>5, <2>2
<1>12. ASSUME NEW i \in 1 .. r + l
       PROVE  Overwrite(o.buffer, r, input)[i] = P[a + i]
  <2>1. i \in 1 .. BlockSize /\ i \in Nat
        BY <1>1, <1>10
  <2>2. CASE i \in r + 1 .. r + l
    <3>1. i - r \in 1 .. l /\ a + i = L + (i - r)
          BY <1>1, <1>3, <2>1, <2>2
    <3>q. QED
          BY <1>5, <1>8, <2>1, <2>2, <3>1
  <2>3. CASE i \notin r + 1 .. r + l
    <3>1. i \in 1 .. r /\ a + i \in 1 .. L
          BY <1>1, <1>3, <2>1, <2>3
    <3>q. QED
          BY <1>5, <1>8, <1>9, <2>1, <2>3, <3>1
  <2>q. QED
        BY <2>2, <2>3
<1>q. QED
  <2>1. Holds(Update(o, input), P)
        BY <1>4, <1>5, <1>6, <1>7, <1>8, <1>11, <1>12 DEF Holds, a
  <2>q. QED
        BY <2>1 DEF P

\* ... and when it is.
LEMMA UpdateLong ==
  ASSUME NEW o, NEW p, Holds(o, p), NEW input \in Seq(Token),
         Len(input) >= BlockSize - (Len(p) % BlockSize), Len(input) < Word
  PROVE  Holds(Update(o, input), p \o input)
<1> DEFINE L == Len(p)
<1> DEFINE l == Len(input)
<1> DEFINE P == p \o input
<1>1. BlockSize \in Nat \ {0} /\ p \in Seq(Token) /\ L \in Nat /\ l \in Nat
      BY SizesAssumption DEF Holds
<1>2. PICK q \in Nat, r \in 0 .. BlockSize - 1 :
         /\ Len(p) = q * BlockSize + r /\ Len(p) % BlockSize = r /\ Index(o) = r
         /\ o.state = Blocks(p, q)
         /\ \A i \in 1 .. r : o.buffer[i] = p[q * BlockSize + i]
      BY HoldsIs
<1> DEFINE a == q * BlockSize
<1> DEFINE partLen == BlockSize - r
<1>3. /\ a \in Nat /\ L = a + r /\ l >= partLen /\ r \in Nat
      /\ partLen \in Nat \ {0} /\ l - partLen \in Nat /\ L + partLen = a + BlockSize
      BY <1>1, <1>2
<1> DEFINE n == (l - partLen) \div BlockSize
<1> DEFINE t == (l - partLen) % BlockSize
<1>4. n \in Nat /\ t \in 0 .. BlockSize - 1 /\ l - partLen = n * BlockSize + t
  <2> DEFINE x == l - partLen
  <2>1. x \in Nat
        BY <1>3
  <2> HIDE DEF x
  <2>2. /\ x \div BlockSize \in Nat /\ x % BlockSize \in 0 .. BlockSize - 1
        /\ x = (x \div BlockSize) * BlockSize + (x % BlockSize)
        BY <1>1, <2>1, Division
  <2>q. QED
        BY <2>2 DEF x
<1> DEFINE c == n * BlockSize
<1>5. c \in Nat /\ l = partLen + c + t /\ t \in Nat
  <2> HIDE DEF n, t
  <2>1. c \in Nat /\ l - partLen = c + t /\ t \in Nat
        BY <1>1, <1>4
  <2> HIDE DEF c
  <2>q. QED
        BY <1>1, <1>3, <2>1
<1> DEFINE full == Overwrite(o.buffer, r, SubSeq(input, 1, partLen))
<1> DEFINE rest == SubSeq(input, partLen + c + 1, l)
<1>6. /\ Update(o, input).state = TransformAll(Append(o.state, full), input, partLen, n)
      /\ Update(o, input).count = Counted(o.count, l)
      /\ Update(o, input).buffer = Overwrite(full, 0, rest)
      BY <1>2, <1>3 DEF Update, transform
<1>7. /\ P \in Seq(Token) /\ Len(P) = L + l /\ \A i \in 1 .. L : P[i] = p[i]
      /\ \A i \in 1 .. l : P[L + i] = input[i]
      BY <1>1
<1>8. Counted(o.count, l) = Bits(Len(P))
      BY <1>1, <1>7, CountedIs DEF Holds
<1>9. \A k \in 1 .. q : /\ Block(P, k) = Block(p, k)
                        /\ Block(p, k) \in [1 .. BlockSize -> Token]
  <2>1. q * BlockSize <= Len(p)
        BY <1>1, <1>3
  <2>q. QED
        BY <1>1, <2>1, BlocksOfMore
<1>10. o.state = [k \in 1 .. q |-> Block(p, k)] /\ \A i \in 1 .. r : o.buffer[i] = p[a + i]
      BY <1>2 DEF Blocks
<1>11. o.buffer \in [1 .. BlockSize -> Token]
      BY DEF Holds
<1> HIDE DEF P, L, n, t, partLen
<1>12. /\ full \in [1 .. BlockSize -> Token]
       /\ \A i \in 1 .. BlockSize : full[i] = P[a + i]
  <2> DEFINE first == SubSeq(input, 1, partLen)
  <2>1. first \in Seq(Token) /\ Len(first) = partLen /\ first = [i \in 1 .. partLen |-> input[i]]
    <3>1. 0 + partLen = partLen /\ 0 + 1 = 1 /\ 0 + partLen <= Len(input) /\ partLen \in Nat
          BY <1>1, <1>3
    <3>2. /\ SubSeq(input, 0 + 1, 0 + partLen) \in Seq(Token)
          /\ Len(SubSeq(input, 0 + 1, 0 + partLen)) = partLen
          /\ SubSeq(input, 0 + 1, 0 + partLen) = [i \in 1 .. partLen |-> input[0 + i]]
          BY <3>1, SubSeqIs
    <3>3. \A i \in 1 .. partLen : 0 + i = i
          BY <3>1
    <3>q. QED
          BY <3>1, <3>2, <3>3
  <2> HIDE DEF first
  <2>2. /\ full \in [1 .. BlockSize -> Token]
        /\ \A i \in 1 .. BlockSize : full[i]
              = IF i \in r + 1 .. r + partLen THEN first[i - r] ELSE o.buffer[i]
    <3>1. full = Overwrite(o.buffer, r, first)
          BY DEF first
    <3> DEFINE buffer == o.buffer
    <3>2. buffer \in [1 .. BlockSize -> Token] /\ full = Overwrite(buffer, r, first)
          BY <1>11, <3>1
    <3> HIDE DEF buffer, full
    <3>3. /\ Overwrite(buffer, r, first) \in [1 .. BlockSize -> Token]
          /\ \A i \in 1 .. BlockSize : Overwrite(buffer, r, first)[i]
                = IF i \in r + 1 .. r + Len(first) THEN first[i - r] ELSE buffer[i]
          BY <1>3, <2>1, <3>2, OverwriteIs
    <3>q. QED
          BY <2>1, <3>2, <3>3 DEF buffer
  <2> HIDE DEF full, l, a
  <2>3. ASSUME NEW i \in 1 .. BlockSize PROVE full[i] = P[a + i]
    <3>1. CASE i \in r + 1 .. r + partLen
      <4>1. i - r \in 1 .. partLen /\ i - r \in 1 .. l /\ a + i = L + (i - r)
            BY <1>1, <1>3, <3>1
      <4>q. QED
            BY <1>7, <2>1, <2>2, <3>1, <4>1
    <3>2. CASE i \notin r + 1 .. r + partLen
      <4>1. i \in 1 .. r /\ a + i \in 1 .. L
            BY <1>1, <1>3, <3>2 DEF partLen
      <4>q. QED
            BY <1>7, <1>10, <2>2, <3>2, <4>1
    <3>q. QED
          BY <3>1, <3>2
  <2>q. QED
        BY <2>2, <2>3
<1> HIDE DEF full, l, a, c
<1>13. /\ L + l = (q + 1 + n) * BlockSize + t /\ L + l = a + BlockSize + c + t
       /\ (q + 1 + n) * BlockSize = a + BlockSize + c
  <2>1. (q + 1 + n) * BlockSize = a + BlockSize + c
        BY <1>1, <1>4 DEF a, c
  <2>q. QED
        BY <1>1, <1>3, <1>5, <2>1
<1>14. Len(P) \div BlockSize = q + 1 + n /\ Len(P) % BlockSize = t
  <2>1. L + l \in Nat /\ q + 1 + n \in Nat
        BY <1>1, <1>4
  <2>2. (L + l) \div BlockSize = q + 1 + n /\ (L + l) % BlockSize = t
    <3> DEFINE x == L + l
    <3> DEFINE y == q + 1 + n
    <3>1. x \in Nat /\ y \in Nat /\ x = y * BlockSize + t
          BY <1>13, <2>1
    <3> HIDE DEF x, y
    <3>3. t \in 0 .. BlockSize - 1
          BY <1>4
    <3>2. x \div BlockSize = y /\ x % BlockSize = t
          BY <1>1, <3>1, <3>3, Quotient
    <3>q. QED
          BY <3>2 DEF x, y
  <2>q. QED
        BY <1>7, <2>2
<1>15. /\ Overwrite(full, 0, rest) \in [1 .. BlockSize -> Token]
       /\ \A i \in 1 .. t : Overwrite(full, 0, rest)[i] = P[(q + 1 + n) * BlockSize + i]
  <2>1. rest \in Seq(Token) /\ Len(rest) = t /\ rest = [i \in 1 .. t |-> input[partLen + c + i]]
    <3>1. partLen + c \in Nat /\ partLen + c + t <= Len(input) /\ l = partLen + c + t
          BY <1>1, <1>3, <1>5 DEF l
    <3> DEFINE d == partLen + c
    <3>2. d \in Nat /\ d + t <= Len(input) /\ rest = SubSeq(input, d + 1, d + t)
          BY <3>1
    <3> HIDE DEF d, rest
    <3>3. /\ SubSeq(input, d + 1, d + t) \in Seq(Token) /\ Len(SubSeq(input, d + 1, d + t)) = t
          /\ SubSeq(input, d + 1, d + t) = [i \in 1 .. t |-> input[d + i]]
          BY <1>5, <3>2, SubSeqIs
    <3>q. QED
          BY <3>2, <3>3 DEF d
  <2> HIDE DEF rest
  <2>2. 0 \in Nat
        OBVIOUS
  <2>3. /\ Overwrite(full, 0, rest) \in [1 .. BlockSize -> Token]
        /\ \A i \in 1 .. BlockSize : Overwrite(full, 0, rest)[i]
              = IF i \in 0 + 1 .. 0 + Len(rest) THEN rest[i - 0] ELSE full[i]
        BY <1>12, <2>1, <2>2, OverwriteIs
  <2>4. ASSUME NEW i \in 1 .. t
        PROVE  Overwrite(full, 0, rest)[i] = P[(q + 1 + n) * BlockSize + i]
    <3>1. i \in 1 .. BlockSize /\ i \in 0 + 1 .. 0 + t /\ i - 0 = i
          BY <1>1, <1>4
    <3>2. Overwrite(full, 0, rest)[i] = input[partLen + c + i]
          BY <2>1, <2>3, <3>1
    <3>3. /\ partLen + c + i \in 1 .. l
          /\ L + (partLen + c + i) = (q + 1 + n) * BlockSize + i
      <4>1. /\ partLen \in Nat /\ c \in Nat /\ a \in Nat /\ L \in Nat /\ t \in Nat /\ BlockSize \in Nat
            /\ l = partLen + c + t /\ L + partLen = a + BlockSize
            BY <1>1, <1>3, <1>5
      <4>2. partLen + c + i \in 1 .. l /\ L + (partLen + c + i) = a + BlockSize + c + i
            BY <4>1
      <4>q. QED
            BY <1>13, <4>2
    <3>q. QED
          BY <1>7, <3>2, <3>3
  <2>q. QED
        BY <2>3, <2>4
<1>16. TransformAll(Append(o.state, full), input, partLen, n) = Blocks(P, q + 1 + n)
  <2> DEFINE D == [1 .. BlockSize -> Token]
  <2> DEFINE st == Append(o.state, full)
  <2>1. o.state \in Seq(D) /\ Len(o.state) = q /\ \A k \in 1 .. q : o.state[k] = Block(P, k)
        BY <1>9, <1>10
  <2>2. full = Block(P, q + 1) /\ full \in D
    <3>1. (q + 1 - 1) * BlockSize = a
          BY <1>1 DEF a
    <3>q. QED
          BY <1>12, <3>1 DEF Block
  <2>3. st \in Seq(D) /\ Len(st) = q + 1 /\ st[q + 1] = full /\ \A i \in 1 .. q : st[i] = o.state[i]
    <3>1. q + 1 = Len(o.state) + 1 /\ q + 1 - 1 = q
          BY <2>1
    <3> HIDE DEF D
    <3>2. /\ st \in Seq(D) /\ Len(st) = q + 1 /\ st[q + 1] = full
          /\ \A i \in 1 .. q + 1 - 1 : st[i] = o.state[i]
          BY <2>1, <2>2, <3>1, AppendIs
    <3>q. QED
          BY <3>1, <3>2
  <2> HIDE DEF st, D
  <2>4. ASSUME NEW k \in 1 .. n
        PROVE  Part(input, partLen, k) = Block(P, q + 1 + k) /\ Part(input, partLen, k) \in D
    <3> DEFINE b == (k - 1) * BlockSize
    <3>1. /\ b \in Nat /\ k * BlockSize = b + BlockSize /\ k * BlockSize <= c
          /\ (q + 1 + k - 1) * BlockSize = a + BlockSize + b
          BY <1>1, <1>4 DEF a, c
    <3>2. partLen + k * BlockSize <= Len(input) /\ k \in Nat \ {0} /\ partLen \in Nat
          BY <1>1, <1>3, <1>4, <1>5, <3>1 DEF l
    <3>3. /\ Part(input, partLen, k) = [i \in 1 .. BlockSize |-> input[partLen + b + i]]
          /\ Part(input, partLen, k) \in [1 .. BlockSize -> Token]
          BY <3>2, PartIs
    <3> HIDE DEF b
    <3>4. ASSUME NEW i \in 1 .. BlockSize
          PROVE  input[partLen + b + i] = P[(q + 1 + k - 1) * BlockSize + i]
      <4>1. partLen + b + i \in 1 .. l
            BY <1>1, <1>3, <1>5, <3>1
      <4>2. L + (partLen + b + i) = (q + 1 + k - 1) * BlockSize + i
            BY <1>1, <1>3, <3>1
      <4>q. QED
            BY <1>7, <4>1, <4>2
    <3>q. QED
          BY <3>3, <3>4 DEF Block, D
  <2>5. TransformAll(st, input, partLen, n)
           = [i \in 1 .. q + 1 + n |-> IF i <= q + 1 THEN st[i] ELSE Part(input, partLen, i - (q + 1))]
    <3>0. st \in Seq(D) /\ n \in Nat /\ \A k \in 1 .. n : Part(input, partLen, k) \in D
          BY <1>4, <2>3, <2>4
    <3> DEFINE T == TransformAll(st, input, partLen, n)
    <3>1. /\ T \in Seq(D) /\ Len(T) = Len(st) + n
          /\ \A i \in 1 .. Len(st) + n : T[i]
                = IF i <= Len(st) THEN st[i] ELSE Part(input, partLen, i - Len(st))
          BY <3>0, TransformAllIs
    <3>2. T = [i \in 1 .. Len(T) |-> T[i]]
          BY <3>1
    <3> HIDE DEF T
    <3>q. QED
          BY <2>3, <3>1, <3>2 DEF T
  <2>6. ASSUME NEW i \in 1 .. q + 1 + n
        PROVE  (IF i <= q + 1 THEN st[i] ELSE Part(input, partLen, i - (q + 1))) = Block(P, i)
    <3>1. CASE i \in 1 .. q
          BY <2>1, <2>3, <3>1
    <3>2. CASE i = q + 1
          BY <2>2, <2>3, <3>2
    <3>3. CASE i > q + 1
      <4>1. i - (q + 1) \in 1 .. n /\ q + 1 + (i - (q + 1)) = i /\ ~(i <= q + 1)
            BY <1>4, <3>3
      <4>q. QED
            BY <2>4, <4>1
    <3>q. QED
          BY <1>4, <3>1, <3>2, <3>3
  <2>q. QED
        BY <2>5, <2>6 DEF Blocks, st
<1>q. QED
  <2>1. Holds(Update(o, input), P)
        BY <1>6, <1>7, <1>8, <1>14, <1>15, <1>16 DEF Holds
  <2>q. QED
        BY <2>1 DEF P

\* update takes in what it is given, whatever it has before.
LEMMA UpdateHolds ==
  ASSUME NEW o, NEW p, Holds(o, p), NEW input \in Seq(Token), Len(input) < Word
  PROVE  Holds(Update(o, input), p \o input)
<1>1. Len(input) \in Int /\ BlockSize - (Len(p) % BlockSize) \in Int
  <2>1. BlockSize \in Nat \ {0} /\ Len(p) \in Nat
        BY SizesAssumption DEF Holds
  <2>2. Len(p) % BlockSize \in 0 .. BlockSize - 1
        BY <2>1, Division
  <2>q. QED
        BY <2>1, <2>2
<1>2. CASE Len(input) < BlockSize - (Len(p) % BlockSize)
      BY <1>2, UpdateShort
<1>3. CASE Len(input) >= BlockSize - (Len(p) % BlockSize)
      BY <1>3, UpdateLong
<1>q. QED
      BY <1>1, <1>2, <1>3

-----------------------------------------------------------------------------
(* What an object is, whatever it has taken in *)

Counter == 0 .. Word - 1

Typed(o) ==
    /\ o = [state |-> o.state, count |-> o.count, buffer |-> o.buffer]
    /\ o.count \in Counter \X Counter
    /\ o.buffer \in [1 .. BlockSize -> Token]

\* update keeps the count in its words and the buffer in its size.
LEMMA UpdateTyped ==
  ASSUME NEW o, Typed(o), NEW input \in Seq(Token)
  PROVE  Typed(Update(o, input))
<1>1. BlockSize \in Nat \ {0} /\ Word \in Nat \ {0} /\ Len(input) \in Nat
      BY SizesAssumption
<1> DEFINE index == Index(o)
<1> DEFINE partLen == BlockSize - index
<1> DEFINE l == Len(input)
<1>2. index \in 0 .. BlockSize - 1
  <2>1. o.count[1] \in Nat
        BY <1>1 DEF Typed, Counter
  <2>2. o.count[1] \div 8 \in Nat
        BY <2>1
  <2>q. QED
        BY <1>1, <2>2, Division DEF Index
<1>3. Counted(o.count, l) \in Counter \X Counter
  <2>1. PICK j \in Nat \ {0} : Word \div 8 = j * BlockSize
        BY WordIs
  <2>2. j * BlockSize \in Nat \ {0}
        BY <1>1
  <2> DEFINE len == l % Word
  <2>0. len \in Nat
        BY <1>1, Division
  <2> HIDE DEF len
  <2>3. len \div (Word \div 8) \in Nat
        BY <2>0, <2>1, <2>2, Division
  <2>4. o.count[1] \in Nat /\ o.count[2] \in Nat
        BY <1>1 DEF Typed, Counter
  <2> DEFINE bits == (8 * len) % Word
  <2>5. bits \in Nat
        BY <1>1, <2>0
  <2> HIDE DEF bits, l
  <2>6. (o.count[1] + bits) % Word \in Counter
    <3> DEFINE x == o.count[1] + bits
    <3>1. x \in Nat
          BY <2>4, <2>5
    <3> HIDE DEF x
    <3>2. x % Word \in Counter
          BY <1>1, <3>1, Division DEF Counter
    <3>q. QED
          BY <3>2 DEF x
  <2> DEFINE high == o.count[2] + (IF (o.count[1] + bits) % Word < bits THEN 1 ELSE 0)
                        + len \div (Word \div 8)
  <2>7. high \in Nat
        BY <2>3, <2>4
  <2> HIDE DEF high
  <2>8. high % Word \in Counter
        BY <1>1, <2>7 DEF Counter
  <2>9. Counted(o.count, l) = <<(o.count[1] + bits) % Word, high % Word>>
        BY DEF Counted, bits, high, len
  <2>q. QED
        BY <2>6, <2>8, <2>9
<1>4. CASE l >= partLen
  <2> DEFINE n == (l - partLen) \div BlockSize
  <2> DEFINE d == partLen + n * BlockSize
  <2>1. partLen \in Nat /\ l - partLen \in Nat
        BY <1>1, <1>2, <1>4
  <2> HIDE DEF partLen
  <2>2. n \in Nat /\ d \in Nat /\ d <= l
    <3>1. /\ n \in Nat /\ (l - partLen) % BlockSize \in 0 .. BlockSize - 1
          /\ l - partLen = n * BlockSize + ((l - partLen) % BlockSize)
          BY <1>1, <2>1, Division
    <3> DEFINE e == n * BlockSize
    <3> DEFINE f == (l - partLen) % BlockSize
    <3> HIDE DEF n
    <3>2. e \in Nat
          BY <1>1, <3>1
    <3>3. e \in Nat /\ f \in Nat /\ l - partLen = e + f /\ d = partLen + e
          BY <1>1, <3>1, <3>2
    <3> HIDE DEF e, f, d
    <3>q. QED
          BY <1>1, <2>1, <3>1, <3>3
  <2> DEFINE first == SubSeq(input, 1, partLen)
  <2> DEFINE full == Overwrite(o.buffer, index, first)
  <2> DEFINE rest == SubSeq(input, d + 1, l)
  <2>3. first \in Seq(Token)
    <3>1. 0 + partLen = partLen /\ 0 + 1 = 1 /\ 0 + partLen <= Len(input)
          BY <1>1, <1>4, <2>1
    <3>2. SubSeq(input, 0 + 1, 0 + partLen) \in Seq(Token)
          BY <2>1, <3>1, SubSeqIs
    <3>q. QED
          BY <3>1, <3>2
  <2>4. rest \in Seq(Token)
    <3> DEFINE e == l - d
    <3> HIDE DEF d
    <3>1. e \in Nat /\ d + e = l /\ d + e <= Len(input)
          BY <1>1, <2>2
    <3> HIDE DEF e
    <3>2. SubSeq(input, d + 1, d + e) \in Seq(Token)
          BY <2>2, <3>1, SubSeqIs
    <3>q. QED
          BY <3>1, <3>2
  <2>5. /\ Update(o, input).buffer = Overwrite(full, 0, rest)
        /\ Update(o, input).count = Counted(o.count, l)
        /\ Update(o, input) = [state |-> Update(o, input).state,
              count |-> Update(o, input).count, buffer |-> Update(o, input).buffer]
        BY <1>4 DEF Update, partLen
  <2> HIDE DEF first, rest
  <2>6. full \in [1 .. BlockSize -> Token]
    <3>1. o.buffer \in [1 .. BlockSize -> Token] /\ index \in Nat
          BY <1>2 DEF Typed
    <3> HIDE DEF index
    <3>q. QED
          BY <2>3, <3>1, OverwriteIs
  <2> HIDE DEF full
  <2>7. Overwrite(full, 0, rest) \in [1 .. BlockSize -> Token]
        BY <2>4, <2>6, OverwriteIs
  <2>q. QED
        BY <1>3, <2>5, <2>7 DEF Typed
<1>5. CASE ~(l >= partLen)
  <2>1. /\ Update(o, input).buffer = Overwrite(o.buffer, index, input)
        /\ Update(o, input).count = Counted(o.count, l)
        /\ Update(o, input) = [state |-> Update(o, input).state,
              count |-> Update(o, input).count, buffer |-> Update(o, input).buffer]
        BY <1>5 DEF Update
  <2>2. Overwrite(o.buffer, index, input) \in [1 .. BlockSize -> Token]
    <3>1. o.buffer \in [1 .. BlockSize -> Token] /\ index \in Nat
          BY <1>2 DEF Typed
    <3> HIDE DEF index
    <3>q. QED
          BY <3>1, OverwriteIs
  <2>q. QED
        BY <1>3, <2>1, <2>2 DEF Typed
<1>q. QED
      BY <1>4, <1>5

\* A reset object has taken in nothing, whatever is left in its buffer.
LEMMA ResetHolds ==
  ASSUME NEW o, Typed(o)
  PROVE  Typed(reset(o)) /\ Holds(reset(o), <<>>)
<1>1. BlockSize \in Nat \ {0} /\ Word \in Nat \ {0}
      BY SizesAssumption
<1>2. reset(o) = [state |-> <<>>, count |-> <<0, 0>>, buffer |-> o.buffer]
      BY DEF reset
<1>3. Len(<<>>) = 0 /\ 0 \div BlockSize = 0 /\ 0 % BlockSize = 0 /\ <<>> \in Seq(Token)
  <2>1. 0 \in Nat /\ 0 \in 0 .. BlockSize - 1 /\ 0 = 0 * BlockSize + 0
        BY <1>1
  <2>2. 0 \div BlockSize = 0 /\ 0 % BlockSize = 0
        BY <1>1, <2>1, Quotient
  <2>q. QED
        BY <2>2
<1>4. Bits(0) = <<0, 0>>
  <2>1. 0 \in Nat /\ 0 \in 0 .. Word - 1 /\ 0 = 0 * Word + 0 /\ 8 * 0 = 0
        BY <1>1
  <2>2. 0 \div Word = 0 /\ 0 % Word = 0
        BY <1>1, <2>1, Quotient
  <2>q. QED
        BY <2>1, <2>2 DEF Bits
<1>5. Blocks(<<>>, 0) = <<>>
      BY DEF Blocks
<1>6. o.buffer \in [1 .. BlockSize -> Token]
      BY DEF Typed
<1>7. Typed(reset(o))
      BY <1>1, <1>2, <1>6 DEF Typed, Counter
<1>8. Holds(reset(o), <<>>)
      BY <1>1, <1>2, <1>3, <1>4, <1>5, <1>6 DEF Holds
<1>q. QED
      BY <1>7, <1>8

\* update(const void*, size_t) takes in one message.
LEMMA UpdateReset ==
  ASSUME NEW o, Typed(o), NEW m \in Seq(Token), Len(m) < Word
  PROVE  Typed(Update(reset(o), m)) /\ Holds(Update(reset(o), m), m)
<1>1. Typed(reset(o)) /\ Holds(reset(o), <<>>)
      BY ResetHolds
<1>2. Holds(Update(reset(o), m), <<>> \o m)
      BY <1>1, UpdateHolds
<1>3. <<>> \o m = m
      OBVIOUS
<1>4. Typed(Update(reset(o), m))
      BY <1>1, UpdateTyped
<1>q. QED
      BY <1>2, <1>3, <1>4

-----------------------------------------------------------------------------
(* The padding *)

Padding(m) == SubSeq(PADDING, 1, PadLen(Len(m) % BlockSize))

ZeroBytes(n) == [i \in 1 .. n |-> Zero]

LengthField(m) == <<Count((8 * Len(m)) % Word), Count(((8 * Len(m)) \div Word) % Word)>>

\* The padding leads to the last LengthSize bytes of a block.
LEMMA PadLenIs ==
  ASSUME NEW m \in Seq(Token), NEW q \in Nat, NEW r \in 0 .. BlockSize - 1,
         Len(m) = q * BlockSize + r
  PROVE  /\ PadLen(r) \in 1 .. BlockSize
         /\ \E x \in Nat : Len(m) + PadLen(r) = x * BlockSize + (BlockSize - LengthSize)
         /\ r < BlockSize - LengthSize
               => Len(m) + PadLen(r) = q * BlockSize + (BlockSize - LengthSize)
<1>1. BlockSize \in Nat /\ BlockSize > 2 /\ LengthSize = 2
      BY SizesAssumption DEF LengthSize
<1> DEFINE a == q * BlockSize
<1>2. a \in Nat /\ Len(m) = a + r /\ (q + 1) * BlockSize = a + BlockSize /\ q + 1 \in Nat
      BY <1>1
<1> HIDE DEF a
<1>3. CASE r < BlockSize - LengthSize
  <2>1. PadLen(r) = BlockSize - LengthSize - r
        BY <1>3 DEF PadLen
  <2>2. PadLen(r) \in 1 .. BlockSize /\ Len(m) + PadLen(r) = a + (BlockSize - LengthSize)
        BY <1>1, <1>2, <1>3, <2>1
  <2>q. QED
        BY <2>2 DEF a
<1>4. CASE ~(r < BlockSize - LengthSize)
  <2>1. PadLen(r) = 2 * BlockSize - LengthSize - r
        BY <1>4 DEF PadLen
  <2>2. PadLen(r) \in 1 .. BlockSize
        BY <1>1, <1>4, <2>1
  <2>3. Len(m) + PadLen(r) = (q + 1) * BlockSize + (BlockSize - LengthSize)
        BY <1>1, <1>2, <2>1
  <2>q. QED
        BY <1>2, <1>4, <2>2, <2>3
<1>q. QED
      BY <1>3, <1>4

\* One number of zeros does so.
LEMMA ZerosIs ==
  ASSUME NEW m \in Seq(Token)
  PROVE  Zeros(m) = PadLen(Len(m) % BlockSize) - 1
<1>1. BlockSize \in Nat \ {0} /\ BlockSize > 2 /\ LengthSize = 2 /\ Len(m) \in Nat
      BY SizesAssumption DEF LengthSize
<1>2. PICK q \in Nat, r \in 0 .. BlockSize - 1 : Len(m) = q * BlockSize + r
      BY <1>1, DivisionExists
<1>3. Len(m) % BlockSize = r
      BY <1>1, <1>2, Quotient
<1> DEFINE z == PadLen(r) - 1
<1>4. PICK x \in Nat : Len(m) + PadLen(r) = x * BlockSize + (BlockSize - LengthSize)
      BY <1>2, PadLenIs
<1>5. PadLen(r) \in 1 .. BlockSize
      BY <1>2, PadLenIs
<1>6. z \in 0 .. BlockSize - 1 /\ Len(m) + 1 + z = Len(m) + PadLen(r)
      BY <1>1, <1>5
<1> HIDE DEF z
<1> DEFINE e == BlockSize - LengthSize
<1>7. e \in 0 .. BlockSize - 1
      BY <1>1
<1>8. Len(m) + 1 + z = x * BlockSize + e
      BY <1>4, <1>6
<1> HIDE DEF e
<1>9. (Len(m) + 1 + z) % BlockSize = e
  <2>1. Len(m) + 1 + z \in Nat
        BY <1>1, <1>6
  <2>q. QED
        BY <1>1, <1>7, <1>8, <2>1, Quotient
<1>10. ASSUME NEW n \in 0 .. BlockSize - 1, (Len(m) + 1 + n) % BlockSize = e
       PROVE  n = z
  <2> DEFINE s == Len(m) + 1 + n
  <2>1. s \in Nat
        BY <1>1
  <2>2. PICK y \in Nat, f \in 0 .. BlockSize - 1 : s = y * BlockSize + f
        BY <1>1, <2>1, DivisionExists
  <2>3. s % BlockSize = f
    <3> HIDE DEF s
    <3>q. QED
          BY <1>1, <2>1, <2>2, Quotient
  <2>4. Len(m) + 1 + n = y * BlockSize + e
        BY <1>10, <2>2, <2>3
  <2>5. n - z = y * BlockSize - x * BlockSize
    <3>1. y * BlockSize \in Nat /\ x * BlockSize \in Nat
          BY <1>1
    <3>q. QED
          BY <1>1, <1>6, <1>7, <1>8, <2>4, <3>1
  <2>6. CASE y > x
    <3>1. y * BlockSize - x * BlockSize >= BlockSize
      <4>1. y * BlockSize = (y - x - 1) * BlockSize + x * BlockSize + BlockSize
            BY <1>1
      <4>2. (y - x - 1) * BlockSize >= 0
            BY <1>1, <2>6
      <4>q. QED
            BY <1>1, <4>1, <4>2
    <3>q. QED
          BY <1>1, <1>6, <2>5, <3>1
  <2>7. CASE y < x
    <3>1. x * BlockSize - y * BlockSize >= BlockSize
      <4>1. x * BlockSize = (x - y - 1) * BlockSize + y * BlockSize + BlockSize
            BY <1>1
      <4>2. (x - y - 1) * BlockSize >= 0
            BY <1>1, <2>7
      <4>q. QED
            BY <1>1, <4>1, <4>2
    <3>q. QED
          BY <1>1, <1>6, <2>5, <3>1
  <2>8. CASE y = x
        BY <1>1, <1>6, <2>5, <2>8
  <2>q. QED
        BY <2>6, <2>7, <2>8
<1>11. Zeros(m) = z
  <2>1. Zeros(m) = CHOOSE n \in 0 .. BlockSize - 1 : (Len(m) + 1 + n) % BlockSize = e
        BY DEF Zeros, e
  <2>q. QED
        BY <1>6, <1>9, <1>10, <2>1
<1>q. QED
      BY <1>3, <1>11 DEF z

\* It is the padding that the RFC asks for.
LEMMA PaddingIs ==
  ASSUME NEW m \in Seq(Token)
  PROVE  /\ Padding(m) \in Seq(Token) /\ Len(Padding(m)) = PadLen(Len(m) % BlockSize)
         /\ m \o <<Pad>> \o ZeroBytes(Zeros(m)) = m \o Padding(m)
<1>1. BlockSize \in Nat \ {0} /\ Len(m) \in Nat
      BY SizesAssumption
<1>2. PICK q \in Nat, r \in 0 .. BlockSize - 1 : Len(m) = q * BlockSize + r
      BY <1>1, DivisionExists
<1>3. Len(m) % BlockSize = r
      BY <1>1, <1>2, Quotient
<1> DEFINE n == PadLen(r)
<1>4. n \in 1 .. BlockSize
      BY <1>2, PadLenIs
<1> HIDE DEF n
<1>5. Zeros(m) = n - 1
      BY <1>3, ZerosIs DEF n
<1>6. Pad \in Token /\ Zero \in Token
      BY DEF Pad, Zero, Token
<1>7. PADDING \in Seq(Token) /\ Len(PADDING) = BlockSize
      BY <1>1, <1>6 DEF PADDING
<1>8. /\ SubSeq(PADDING, 1, n) \in Seq(Token) /\ Len(SubSeq(PADDING, 1, n)) = n
      /\ SubSeq(PADDING, 1, n) = [i \in 1 .. n |-> PADDING[0 + i]]
  <2>1. 0 + 1 = 1 /\ 0 + n = n /\ 0 \in Nat /\ n \in Nat /\ 0 + n <= Len(PADDING)
        BY <1>1, <1>4, <1>7
  <2>2. /\ SubSeq(PADDING, 0 + 1, 0 + n) \in Seq(Token) /\ Len(SubSeq(PADDING, 0 + 1, 0 + n)) = n
        /\ SubSeq(PADDING, 0 + 1, 0 + n) = [i \in 1 .. n |-> PADDING[0 + i]]
        BY <1>7, <2>1, SubSeqIs
  <2>q. QED
        BY <2>1, <2>2
<1> DEFINE s == Padding(m)
<1>9. s = SubSeq(PADDING, 1, n)
      BY <1>3 DEF Padding, n
<1>10. \A i \in 1 .. n : s[i] = IF i = 1 THEN Pad ELSE Zero
  <2>1. \A i \in 1 .. n : 0 + i = i /\ i \in 1 .. BlockSize
        BY <1>1, <1>4
  <2>q. QED
        BY <1>8, <1>9, <2>1 DEF PADDING
<1>11. s \in Seq(Token) /\ Len(s) = n
      BY <1>8, <1>9
<1> HIDE DEF s
<1> DEFINE z == ZeroBytes(Zeros(m))
<1>12. z \in Seq(Token) /\ Len(z) = n - 1 /\ \A i \in 1 .. n - 1 : z[i] = Zero
      BY <1>4, <1>5, <1>6 DEF ZeroBytes
<1> HIDE DEF z
<1> DEFINE b == m \o <<Pad>>
<1>13. /\ b \in Seq(Token) /\ Len(b) = Len(m) + 1 /\ b[Len(m) + 1] = Pad
       /\ \A i \in 1 .. Len(m) : b[i] = m[i]
      BY <1>1, <1>6
<1> HIDE DEF b
<1> DEFINE u == b \o z
<1> DEFINE v == m \o s
<1>14. /\ u \in Seq(Token) /\ Len(u) = Len(m) + n
       /\ \A i \in 1 .. Len(m) + 1 : u[i] = b[i]
       /\ \A i \in 1 .. n - 1 : u[Len(m) + 1 + i] = z[i]
  <2>1. /\ u \in Seq(Token) /\ Len(u) = Len(b) + Len(z)
        /\ \A i \in 1 .. Len(b) : u[i] = b[i]
        /\ \A i \in 1 .. Len(z) : u[Len(b) + i] = z[i]
        BY <1>12, <1>13, ConcatIs
  <2> HIDE DEF u
  <2>q. QED
        BY <1>1, <1>4, <1>12, <1>13, <2>1
<1>15. /\ v \in Seq(Token) /\ Len(v) = Len(m) + n
       /\ \A i \in 1 .. Len(m) : v[i] = m[i]
       /\ \A i \in 1 .. n : v[Len(m) + i] = s[i]
      BY <1>1, <1>4, <1>11
<1> HIDE DEF u, v
<1>16. ASSUME NEW i \in 1 .. Len(m) + n PROVE u[i] = v[i]
  <2>1. CASE i \in 1 .. Len(m)
    <3>1. i \in 1 .. Len(m) + 1
          BY <1>1, <2>1
    <3>q. QED
          BY <1>13, <1>14, <1>15, <2>1, <3>1
  <2>2. CASE i = Len(m) + 1
    <3>1. i \in 1 .. Len(m) + 1 /\ 1 \in 1 .. n
          BY <1>1, <1>4, <2>2
    <3>q. QED
          BY <1>10, <1>13, <1>14, <1>15, <2>2, <3>1
  <2>3. CASE i > Len(m) + 1
    <3> DEFINE k == i - Len(m) - 1
    <3>1. k \in 1 .. n - 1 /\ k + 1 \in 1 .. n /\ k + 1 # 1 /\ i = Len(m) + 1 + k /\ i = Len(m) + (k + 1)
          BY <1>1, <1>4, <2>3
    <3> HIDE DEF k
    <3>2. u[i] = Zero
          BY <1>12, <1>14, <3>1
    <3>3. v[i] = Zero
          BY <1>10, <1>15, <3>1
    <3>q. QED
          BY <3>2, <3>3
  <2>q. QED
        BY <1>1, <2>1, <2>2, <2>3
<1>17. u = v
  <2>1. u = [i \in 1 .. Len(m) + n |-> u[i]] /\ v = [i \in 1 .. Len(m) + n |-> v[i]]
        BY <1>14, <1>15
  <2>q. QED
        BY <1>16, <2>1
<1>q. QED
      BY <1>3, <1>11, <1>17 DEF n, s, z, b, u, v

\* The length field holds the number of bits.
LEMMA LengthFieldIs ==
  ASSUME NEW m \in Seq(Token)
  PROVE  LengthField(m) \in Seq(Token) /\ Len(LengthField(m)) = LengthSize
<1>1. Word \in Nat \ {0} /\ Len(m) \in Nat
      BY SizesAssumption
<1> DEFINE low  == (8 * Len(m)) % Word
<1> DEFINE high == ((8 * Len(m)) \div Word) % Word
<1>2. low \in Int /\ high \in Int
  <2>1. 8 * Len(m) \in Nat
        BY <1>1
  <2>2. (8 * Len(m)) \div Word \in Nat
        BY <1>1, <2>1, Division
  <2>q. QED
        BY <1>1, <2>1, <2>2, Division
<1> HIDE DEF low, high
<1>3. Count(low) \in Token /\ Count(high) \in Token
      BY <1>2 DEF Count, Token
<1>4. LengthField(m) = <<Count(low), Count(high)>>
      BY DEF LengthField, low, high
<1>q. QED
      BY <1>3, <1>4 DEF LengthSize

\* final takes in the padding and the length field ...
LEMMA PaddedIs ==
  ASSUME NEW o, NEW m, Holds(o, m)
  PROVE  /\ Padded(o) = Update(Update(o, Padding(m)), LengthField(m))
         /\ Holds(Update(o, Padding(m)), m \o Padding(m))
         /\ Holds(Padded(o), (m \o Padding(m)) \o LengthField(m))
<1>1. m \in Seq(Token) /\ o.count = Bits(Len(m))
      BY DEF Holds
<1>2. Index(o) = Len(m) % BlockSize
      BY HoldsIs
<1>3. Padded(o) = Update(Update(o, Padding(m)), LengthField(m))
  <2>1. o.count[1] = (8 * Len(m)) % Word /\ o.count[2] = ((8 * Len(m)) \div Word) % Word
        BY <1>1 DEF Bits
  <2>q. QED
        BY <1>2, <2>1 DEF Padded, Padding, LengthField
<1>4. Padding(m) \in Seq(Token) /\ LengthField(m) \in Seq(Token)
      BY <1>1, PaddingIs, LengthFieldIs
<1>0. Len(Padding(m)) < Word /\ Len(LengthField(m)) < Word
  <2>1. BlockSize \in Nat /\ BlockSize > 2 /\ Word \in Nat /\ BlockSize < Word /\ LengthSize = 2
        BY SizesAssumption, WordIsLarge DEF LengthSize
  <2>2. Len(m) % BlockSize \in 0 .. BlockSize - 1
        BY <1>1, <2>1, Division
  <2> DEFINE i == Len(m) % BlockSize
  <2> HIDE DEF i
  <2>3. PadLen(i) <= BlockSize /\ PadLen(i) \in Int
        BY <2>1, <2>2 DEF PadLen, i
  <2>4. Len(Padding(m)) = PadLen(i) /\ Len(LengthField(m)) = LengthSize
        BY <1>1, PaddingIs, LengthFieldIs DEF i
  <2>q. QED
        BY <2>1, <2>3, <2>4
<1>5. Holds(Update(o, Padding(m)), m \o Padding(m))
      BY <1>0, <1>4, UpdateHolds
<1>6. Holds(Update(Update(o, Padding(m)), LengthField(m)), (m \o Padding(m)) \o LengthField(m))
      BY <1>0, <1>4, <1>5, UpdateHolds
<1>q. QED
      BY <1>3, <1>5, <1>6

\* ... and arrives at the blocks of the RFC.
LEMMA FinalIsReference ==
  ASSUME NEW o, NEW m, Holds(o, m)
  PROVE  Padded(o).state = Reference(m)
<1>1. m \in Seq(Token) /\ BlockSize \in Nat \ {0} /\ BlockSize > 2 /\ LengthSize = 2
      BY SizesAssumption DEF Holds, LengthSize
<1> DEFINE P == (m \o Padding(m)) \o LengthField(m)
<1> DEFINE N == Len(P) \div BlockSize
<1>2. Padded(o).state = Blocks(P, N)
      BY PaddedIs DEF Holds
<1>3. P \in Seq(Token)
      BY <1>1, PaddingIs, LengthFieldIs
<1>4. Reference(m) = [k \in 1 .. N |-> SubSeq(P, (k - 1) * BlockSize + 1, k * BlockSize)]
  <2>1. m \o <<Pad>> \o ZeroBytes(Zeros(m)) = m \o Padding(m)
        BY <1>1, PaddingIs
  <2>2. m \o <<Pad>> \o [i \in 1 .. Zeros(m) |-> Zero]
           \o <<Count((8 * Len(m)) % Word), Count(((8 * Len(m)) \div Word) % Word)>> = P
        BY <2>1 DEF ZeroBytes, LengthField
  <2> HIDE DEF P
  <2>q. QED
        BY <2>2 DEF Reference
<1> HIDE DEF P
<1>5. N \in Nat /\ N * BlockSize <= Len(P)
  <2>1. Len(P) \in Nat
        BY <1>3
  <2>2. N \in Nat /\ Len(P) % BlockSize \in 0 .. BlockSize - 1 /\ Len(P) = N * BlockSize + (Len(P) % BlockSize)
        BY <1>1, <2>1, Division
  <2> HIDE DEF N
  <2> DEFINE a == N * BlockSize
  <2>3. a \in Nat
        BY <1>1, <2>2
  <2> HIDE DEF a
  <2>4. Len(P) = a + (Len(P) % BlockSize)
        BY <2>2 DEF a
  <2>5. a <= Len(P)
        BY <2>2, <2>3, <2>4
  <2>q. QED
        BY <2>2, <2>5 DEF a
<1> HIDE DEF N
<1>6. ASSUME NEW k \in 1 .. N
      PROVE  SubSeq(P, (k - 1) * BlockSize + 1, k * BlockSize) = Block(P, k)
  <2>1. k \in Nat \ {0} /\ k * BlockSize <= N * BlockSize /\ k * BlockSize \in Nat /\ N * BlockSize \in Nat
        BY <1>1, <1>5
  <2>2. 0 + k * BlockSize <= Len(P) /\ 0 + k * BlockSize = k * BlockSize
        BY <1>3, <1>5, <2>1
  <2>3. Part(P, 0, k) = [i \in 1 .. BlockSize |-> P[0 + (k - 1) * BlockSize + i]]
        BY <1>3, <2>1, <2>2, PartIs
  <2>4. (k - 1) * BlockSize \in Nat
        BY <1>1
  <2> DEFINE a == (k - 1) * BlockSize
  <2> DEFINE b == k * BlockSize
  <2>5. Part(P, 0, k) = SubSeq(P, 0 + a + 1, 0 + b)
        BY DEF Part
  <2>6. 0 + a + 1 = a + 1 /\ 0 + b = b /\ \A i \in 1 .. BlockSize : 0 + a + i = a + i
    <3> HIDE DEF a, b
    <3>1. a \in Nat /\ b \in Nat
          BY <2>1, <2>4 DEF a, b
    <3>q. QED
          BY <1>1, <3>1
  <2>7. Block(P, k) = [i \in 1 .. BlockSize |-> P[a + i]]
        BY DEF Block
  <2>8. Part(P, 0, k) = [i \in 1 .. BlockSize |-> P[0 + a + i]]
        BY <2>3
  <2> HIDE DEF a, b
  <2>9. Part(P, 0, k) = SubSeq(P, a + 1, b)
        BY <2>5, <2>6
  <2>10. Part(P, 0, k) = Block(P, k)
        BY <2>6, <2>7, <2>8
  <2>q. QED
        BY <2>9, <2>10 DEF a, b
<1>q. QED
      BY <1>2, <1>4, <1>6 DEF Blocks

\* Does the padding fit in the block that is buffered?
Fits(m) == Len(m) % BlockSize < BlockSize - LengthSize

\* If so, final leaves the buffered bytes as they are.
LEMMA FinalKeeps ==
  ASSUME NEW o, NEW m, Holds(o, m), Fits(m)
  PROVE  Holds(Restored(o, Padded(o)), m)
<1>1. /\ m \in Seq(Token) /\ BlockSize \in Nat \ {0} /\ BlockSize > 2 /\ LengthSize = 2
      /\ Len(m) \in Nat
      BY SizesAssumption DEF Holds, LengthSize
<1>2. PICK q \in Nat, r \in 0 .. BlockSize - 1 :
         Len(m) = q * BlockSize + r /\ Len(m) % BlockSize = r /\ Index(o) = r
      BY HoldsIs
<1> DEFINE s == Padding(m)
<1> DEFINE f == LengthField(m)
<1> DEFINE o1 == Update(o, s)
<1> DEFINE e == BlockSize - LengthSize
<1>3. s \in Seq(Token) /\ Len(s) = PadLen(r) /\ f \in Seq(Token) /\ Len(f) = LengthSize
      BY <1>1, <1>2, PaddingIs, LengthFieldIs
<1>4. Holds(o1, m \o s) /\ Padded(o) = Update(o1, f)
      BY PaddedIs
<1>5. r < e
      BY <1>2 DEF Fits
<1>6. Len(s) = e - r /\ Len(m) + Len(s) = q * BlockSize + e
  <2>1. PadLen(r) = e - r
        BY <1>5 DEF PadLen
  <2>2. Len(m) + PadLen(r) = q * BlockSize + e
        BY <1>1, <1>2, <1>5, PadLenIs
  <2>q. QED
        BY <1>3, <2>1, <2>2
<1>7. /\ o.buffer \in [1 .. BlockSize -> Token]
      /\ o1.buffer \in [1 .. BlockSize -> Token]
      /\ Padded(o).buffer \in [1 .. BlockSize -> Token]
      BY <1>4, PaddedIs DEF Holds
<1> HIDE DEF s, f
<1>8. o1.buffer = Overwrite(o.buffer, r, s)
  <2>1. ~(Len(s) >= BlockSize - r)
        BY <1>1, <1>6
  <2>q. QED
        BY <1>2, <2>1 DEF Update
<1>9. Index(o1) = e
  <2>1. Index(o1) = Len(m \o s) % BlockSize
        BY <1>4, HoldsIs
  <2>2. Len(m \o s) = Len(m) + Len(s)
        BY <1>1, <1>3, ConcatIs
  <2>3. e \in 0 .. BlockSize - 1 /\ Len(m) + Len(s) \in Nat
        BY <1>1, <1>3
  <2> HIDE DEF e, o1
  <2> DEFINE x == Len(m) + Len(s)
  <2>4. x \in Nat /\ x = q * BlockSize + e
        BY <1>6, <2>3
  <2> HIDE DEF x
  <2>5. x % BlockSize = e
        BY <1>1, <2>3, <2>4, Quotient
  <2>q. QED
        BY <2>1, <2>2, <2>5 DEF x
<1> HIDE DEF o1
<1> DEFINE full == Overwrite(o1.buffer, e, SubSeq(f, 1, LengthSize))
<1>10. Padded(o).buffer = Overwrite(full, 0, SubSeq(f, LengthSize + 1, LengthSize))
  <2>1. Len(f) >= BlockSize - e /\ BlockSize - e = LengthSize
        BY <1>1, <1>3
  <2>2. (LengthSize - LengthSize) \div BlockSize = 0
    <3>1. 0 \in Nat /\ 0 \in 0 .. BlockSize - 1 /\ 0 = 0 * BlockSize + 0
          BY <1>1
    <3>2. 0 \div BlockSize = 0
          BY <1>1, <3>1, Quotient
    <3>q. QED
          BY <1>1, <3>2
  <2>3. LengthSize + 0 * BlockSize + 1 = LengthSize + 1
        BY <1>1
  <2> HIDE DEF e
  <2>4. Update(o1, f).buffer
           = Overwrite(Overwrite(o1.buffer, e, SubSeq(f, 1, BlockSize - e)), 0,
                SubSeq(f, (BlockSize - e) + ((Len(f) - (BlockSize - e)) \div BlockSize) * BlockSize + 1,
                          Len(f)))
        BY <1>9, <2>1 DEF Update
  <2>q. QED
        BY <1>3, <1>4, <2>1, <2>2, <2>3, <2>4
<1>11. ASSUME NEW i \in 1 .. r PROVE Padded(o).buffer[i] = o.buffer[i]
  <2>1. i \in 1 .. BlockSize /\ ~(i \in r + 1 .. r + Len(s)) /\ ~(i >= e + 1) /\ i \in Nat
        BY <1>1, <1>5
  <2>2. o1.buffer[i] = o.buffer[i]
        BY <1>8, <2>1 DEF Overwrite
  <2>3. full[i] = o1.buffer[i]
    <3> DEFINE g == SubSeq(f, 1, LengthSize)
    <3>1. ~(i \in e + 1 .. e + Len(g))
          BY <1>1, <2>1
    <3> HIDE DEF g, e
    <3>2. Overwrite(o1.buffer, e, g)[i] = o1.buffer[i]
          BY <2>1, <3>1 DEF Overwrite
    <3>q. QED
          BY <3>2 DEF g
  <2>4. Overwrite(full, 0, SubSeq(f, LengthSize + 1, LengthSize))[i] = full[i]
    <3> DEFINE g == SubSeq(f, LengthSize + 1, LengthSize)
    <3>1. Len(g) = 0
          BY <1>1, <1>3
    <3> HIDE DEF g, full
    <3>2. ~(i \in 0 + 1 .. 0 + Len(g))
          BY <2>1, <3>1
    <3>3. Overwrite(full, 0, g)[i] = full[i]
          BY <2>1, <3>2 DEF Overwrite
    <3>q. QED
          BY <3>3 DEF g
  <2>q. QED
        BY <1>10, <2>2, <2>3, <2>4
<1> DEFINE R == Restored(o, Padded(o))
<1>12. R.state = o.state /\ R.count = o.count /\ R.buffer = Padded(o).buffer
      BY DEF Restored
<1> HIDE DEF R, full, e
<1>13. \A i \in 1 .. Len(m) % BlockSize : R.buffer[i] = o.buffer[i]
      BY <1>2, <1>11, <1>12
<1>14. Holds(R, m)
      BY <1>1, <1>7, <1>12, <1>13 DEF Holds
<1>q. QED
      BY <1>14 DEF R

-----------------------------------------------------------------------------
(* Files *)

\* What is read of a file, and all of it when it is one chunk.
LEMMA ChunkIs ==
  ASSUME NEW m \in Seq(Token), m # <<>>
  PROVE  /\ (Len(m) - 1) \div ChunkSize \in Nat
         /\ \A k \in 0 .. (Len(m) - 1) \div ChunkSize : Chunk(m, k) \in Seq(Token)
         /\ Len(m) <= ChunkSize => (Len(m) - 1) \div ChunkSize = 0 /\ Chunk(m, 0) = m
<1>1. ChunkSize \in Nat \ {0} /\ Len(m) \in Nat /\ Len(m) - 1 \in Nat
      BY SizesAssumption
<1> DEFINE L == Len(m)
<1> DEFINE last == (L - 1) \div ChunkSize
<1>2. last \in Nat /\ last * ChunkSize \in Nat /\ last * ChunkSize <= L - 1
  <2>1. /\ last \in Nat /\ (L - 1) % ChunkSize \in 0 .. ChunkSize - 1
        /\ L - 1 = last * ChunkSize + ((L - 1) % ChunkSize)
        BY <1>1, Division
  <2> HIDE DEF last
  <2> DEFINE a == last * ChunkSize
  <2>2. a \in Nat
        BY <1>1, <2>1
  <2> HIDE DEF a
  <2>3. L - 1 = a + ((L - 1) % ChunkSize)
        BY <2>1 DEF a
  <2>4. a <= L - 1
        BY <2>1, <2>2, <2>3
  <2>q. QED
        BY <2>1, <2>2, <2>4 DEF a
<1> HIDE DEF last
<1>3. ASSUME NEW k \in 0 .. last PROVE Chunk(m, k) \in Seq(Token)
  <2> DEFINE a == k * ChunkSize
  <2>1. a \in Nat /\ a <= last * ChunkSize /\ (k + 1) * ChunkSize = a + ChunkSize
        BY <1>1, <1>2
  <2> HIDE DEF a
  <2> DEFINE b == IF a + ChunkSize < L THEN ChunkSize ELSE L - a
  <2>2. b \in Nat /\ a + b <= L /\ a + b = IF a + ChunkSize < L THEN a + ChunkSize ELSE L
        BY <1>1, <1>2, <2>1
  <2> HIDE DEF b
  <2>3. Chunk(m, k) = SubSeq(m, a + 1, a + b)
        BY <2>1, <2>2 DEF Chunk, a
  <2>q. QED
        BY <2>1, <2>2, <2>3, SubSeqIs
<1>4. ASSUME L <= ChunkSize PROVE last = 0 /\ Chunk(m, 0) = m
  <2>1. L - 1 \in 0 .. ChunkSize - 1 /\ L - 1 = 0 * ChunkSize + (L - 1)
        BY <1>1, <1>4
  <2>2. last = 0
    <3> DEFINE x == L - 1
    <3>1. x \in Nat /\ x \in 0 .. ChunkSize - 1 /\ x = 0 * ChunkSize + x
          BY <1>1, <2>1
    <3> HIDE DEF x
    <3>2. x \div ChunkSize = 0
          BY <1>1, <3>1, Quotient
    <3>q. QED
          BY <3>2 DEF last, x
  <2>3. 0 * ChunkSize + 1 = 1 /\ (0 + 1) * ChunkSize = ChunkSize /\ ~(ChunkSize < L)
        BY <1>1, <1>4
  <2>4. Chunk(m, 0) = SubSeq(m, 1, L)
        BY <2>3 DEF Chunk
  <2>5. SubSeq(m, 1, L) = m
    <3>1. 0 + 1 = 1 /\ 0 + L = L /\ 0 \in Nat /\ 0 + L <= Len(m)
          BY <1>1
    <3>2. SubSeq(m, 0 + 1, 0 + L) = [i \in 1 .. L |-> m[0 + i]]
          BY <1>1, <3>1, SubSeqIs
    <3>3. m = [i \in 1 .. L |-> m[i]] /\ \A i \in 1 .. L : 0 + i = i
          BY <1>1
    <3>q. QED
          BY <3>1, <3>2, <3>3
  <2>q. QED
        BY <2>2, <2>4, <2>5
<1>q. QED
      BY <1>2, <1>3, <1>4 DEF last

\* An object that has read a file; of a file of one chunk it has taken in all.
LEMMA ReadAllIs ==
  ASSUME NEW o, Typed(o), NEW m \in Seq(Token), m # <<>>
  PROVE  /\ Typed(ReadAll(o, m))
         /\ Len(m) <= ChunkSize => ReadAll(o, m) = Update(reset(o), m)
<1> DEFINE last == (Len(m) - 1) \div ChunkSize
<1> DEFINE Step(f, k) == Update(reset(IF k = 0 THEN o ELSE f[k - 1]), Chunk(m, k))
<1> DEFINE Read(f, n) == f = [k \in 0 .. n |-> Step(f, k)]
<1> DEFINE f == CHOOSE f : Read(f, last)
<1>1. ReadAll(o, m) = f[last]
      BY DEF ReadAll
<1>2. last \in Nat /\ \A k \in 0 .. last : Chunk(m, k) \in Seq(Token)
      BY ChunkIs
<1>3. Len(m) <= ChunkSize => last = 0 /\ Chunk(m, 0) = m
      BY ChunkIs
<1> HIDE DEF last
<1> DEFINE H == {n \in 0 .. last : \E g : Read(g, n)}
<1>4. 0 \in H
  <2> DEFINE g == [k \in 0 .. 0 |-> Update(reset(o), Chunk(m, 0))]
  <2>1. \A k \in 0 .. 0 : k = 0
        OBVIOUS
  <2>2. g = [k \in 0 .. 0 |-> Step(g, k)]
    <3>1. \A k \in 0 .. 0 : Step(g, k) = Update(reset(o), Chunk(m, 0))
          BY <2>1
    <3> HIDE DEF Step
    <3>q. QED
          BY <3>1
  <2>3. Read(g, 0)
        BY <2>2
  <2>4. 0 \in 0 .. last
        BY <1>2
  <2>q. QED
        BY <2>3, <2>4
<1>5. ASSUME NEW n \in 1 .. last, n - 1 \in H PROVE n \in H
  <2>1. PICK h : Read(h, n - 1)
        BY <1>5
  <2> DEFINE g == [k \in 0 .. n |-> IF k = n THEN Step(h, n) ELSE h[k]]
  <2>2. \A k \in 0 .. n - 1 : g[k] = h[k]
        BY <1>2
  <2>3. ASSUME NEW k \in 0 .. n PROVE Step(g, k) = Step(h, k)
    <3>1. CASE k = 0
          BY <3>1
    <3>2. CASE k # 0
      <4>1. g[k - 1] = h[k - 1]
            BY <1>2, <2>2, <3>2
      <4>q. QED
            BY <4>1, <3>2
    <3>q. QED
          BY <3>1, <3>2
  <2> HIDE DEF Step
  <2>4. ASSUME NEW k \in 0 .. n PROVE g[k] = Step(g, k)
    <3>1. CASE k = n
          BY <2>3, <3>1
    <3>2. CASE k # n
      <4>1. k \in 0 .. n - 1
            BY <1>2, <3>2
      <4>2. h[k] = Step(h, k)
            BY <2>1, <4>1
      <4>q. QED
            BY <2>2, <2>3, <4>1, <4>2
    <3>q. QED
          BY <3>1, <3>2
  <2>5. g = [k \in 0 .. n |-> g[k]]
        OBVIOUS
  <2> HIDE DEF g
  <2>6. Read(g, n)
        BY <2>4, <2>5
  <2>7. n \in 0 .. last
        BY <1>2
  <2>q. QED
        BY <2>6, <2>7
<1>6. \E g : Read(g, last)
  <2> HIDE DEF H, Step
  <2>0. last \in Nat /\ 0 \in H /\ \A k \in 1 .. last : k - 1 \in H => k \in H
        BY <1>2, <1>4, <1>5
  <2>1. \A k \in 0 .. last : k \in H
        BY <2>0, Induction
  <2>2. last \in 0 .. last
        BY <2>0
  <2>q. QED
        BY <2>1, <2>2 DEF H
<1>7. Read(f, last)
  <2> HIDE DEF Step
  <2>q. QED
        BY <1>6
<1> HIDE DEF f
<1>8. \A k \in 0 .. last : f[k] = Step(f, k)
  <2> HIDE DEF Step
  <2>q. QED
        BY <1>7
<1> DEFINE J == {k \in 0 .. last : Typed(f[k])}
<1>9. 0 \in J
  <2>1. 0 \in 0 .. last
        BY <1>2
  <2>2. f[0] = Update(reset(o), Chunk(m, 0))
        BY <1>8, <2>1
  <2>3. Typed(reset(o))
        BY ResetHolds
  <2>4. Typed(f[0])
        BY <1>2, <2>1, <2>2, <2>3, UpdateTyped
  <2>q. QED
        BY <2>1, <2>4
<1>10. ASSUME NEW k \in 1 .. last, k - 1 \in J PROVE k \in J
  <2>1. k \in 0 .. last /\ k # 0
        BY <1>2
  <2>2. f[k] = Update(reset(f[k - 1]), Chunk(m, k))
        BY <1>8, <2>1
  <2>3. Typed(f[k - 1])
        BY <1>10
  <2>4. Typed(reset(f[k - 1]))
        BY <2>3, ResetHolds
  <2>5. Typed(f[k])
        BY <1>2, <2>1, <2>2, <2>4, UpdateTyped
  <2>q. QED
        BY <2>1, <2>5
<1>11. Typed(f[last])
  <2> HIDE DEF J
  <2>0. last \in Nat /\ 0 \in J /\ \A k \in 1 .. last : k - 1 \in J => k \in J
        BY <1>2, <1>9, <1>10
  <2>1. \A k \in 0 .. last : k \in J
        BY <2>0, Induction
  <2>2. last \in 0 .. last
        BY <2>0
  <2>q. QED
        BY <2>1, <2>2 DEF J
<1>12. ASSUME Len(m) <= ChunkSize PROVE f[last] = Update(reset(o), m)
  <2>1. 0 \in 0 .. last
        BY <1>2
  <2>2. f[0] = Update(reset(o), Chunk(m, 0))
        BY <1>8, <2>1
  <2>q. QED
        BY <1>3, <1>12, <2>2
<1>q. QED
      BY <1>1, <1>11, <1>12

-----------------------------------------------------------------------------
(* The inductive invariant *)

\* What the variables are.
Types ==
    /\ Typed(Object) /\ _finished = FALSE
    /\ msg \in Seq(Token) /\ Len(msg) <= MaxLength
    /\ file \in BOOLEAN /\ digests \in Nat

\* The counter is that of the message: final restores it.
CountIsMsgs == Whole => _count = Bits(Len(msg))

\* The object holds the message until a digest may have spoilt its buffer.
HoldsMsg == Whole /\ (digests = 0 \/ Fits(msg)) => Holds(Object, msg)

\* As long as it did when digest was called, the digest is the right one.
DigestIsMsgs ==
    Whole /\ digests > 0 /\ (digests = 1 \/ Fits(msg)) => _digest = Reference(msg)

Inv == Types /\ CountIsMsgs /\ HoldsMsg /\ DigestIsMsgs

\* A message is a sequence of tokens.
LEMMA MessageIs ==
  ASSUME NEW n \in 0 .. MaxLength
  PROVE  Message(n) \in Seq(Token) /\ Len(Message(n)) <= MaxLength
<1>1. n \in Nat /\ n <= MaxLength
      BY SizesAssumption
<1>2. \A i \in 1 .. n : Byte(i) \in Token
      BY DEF Byte, Token
<1>q. QED
      BY <1>1, <1>2 DEF Message

\* A new object holds the empty message.
LEMMA InitInv == Init => Inv
<1> SUFFICES ASSUME Init PROVE Inv
    OBVIOUS
<1>1. BlockSize \in Nat \ {0} /\ Word \in Nat \ {0} /\ MaxLength \in Nat
      BY SizesAssumption
<1>2. Typed(Object)
  <2>1. _buffer \in [1 .. BlockSize -> Token]
    <3>1. Unset \in Token
          BY DEF Unset, Token
    <3>q. QED
          BY <3>1 DEF Init
  <2>2. _count \in Counter \X Counter
        BY <1>1 DEF Init, Counter
  <2>q. QED
        BY <2>1, <2>2 DEF Typed, Object
<1>3. Holds(reset(Object), <<>>)
      BY <1>2, ResetHolds
<1>4. Holds(Object, <<>>)
      BY <1>3 DEF Holds, reset, Object, Init
<1>5. Types
  <2>1. <<>> \in Seq(Token) /\ Len(<<>>) <= MaxLength
        BY <1>1
  <2>2. _finished = FALSE /\ msg = <<>> /\ file \in BOOLEAN /\ digests \in Nat
        BY DEF Init
  <2>q. QED
        BY <1>2, <2>1, <2>2 DEF Types
<1>6. CountIsMsgs /\ HoldsMsg
      BY <1>4 DEF CountIsMsgs, HoldsMsg, Holds, Object, Init
<1>7. DigestIsMsgs
      BY DEF DigestIsMsgs, Init
<1>q. QED
      BY <1>5, <1>6, <1>7 DEF Inv

\* An object that holds a new message.
LEMMA NewMessage ==
  ASSUME NEW o, NEW m, Typed(o), Becomes(o), _finished' = FALSE, m \in Seq(Token),
         Len(m) <= MaxLength, msg' = m, file' \in BOOLEAN, digests' = 0,
         Whole' => Holds(o, m)
  PROVE  Inv'
<1>1. Object' = o
  <2>1. Object' = [state |-> o.state, count |-> o.count, buffer |-> o.buffer]
        BY DEF Object, Becomes
  <2>q. QED
        BY <2>1 DEF Typed
<1>2. Types'
  <2>1. Typed(Object)'
        BY <1>1 DEF Typed
  <2>q. QED
        BY <2>1 DEF Types
<1>3. Whole' => Holds(Object, msg)'
      BY <1>1 DEF Holds
<1>4. CountIsMsgs'
      BY <1>3 DEF CountIsMsgs, Holds, Object
<1>5. HoldsMsg'
      BY <1>3 DEF HoldsMsg
<1>6. DigestIsMsgs'
      BY DEF DigestIsMsgs
<1>q. QED
      BY <1>2, <1>4, <1>5, <1>6 DEF Inv

\* So does one that is reset.
LEMMA ResetInv ==
  ASSUME Inv, Reset
  PROVE  Inv'
<1>1. Typed(reset(Object)) /\ Holds(reset(Object), <<>>)
      BY ResetHolds DEF Inv, Types
<1>2. <<>> \in Seq(Token) /\ Len(<<>>) <= MaxLength
      BY SizesAssumption
<1>3. Becomes(reset(Object)) /\ _finished' = FALSE /\ msg' = <<>> /\ file' \in BOOLEAN /\ digests' = 0
      BY DEF Reset
<1>q. QED
      BY <1>1, <1>2, <1>3, NewMessage

\* A string or a buffer is taken in whole.
LEMMA UpdateInv ==
  ASSUME Inv, NEW m \in Seq(Token), Len(m) <= MaxLength, UpdateWith(m)
  PROVE  Inv'
<1> DEFINE o == Update(reset(Object), m)
<1>2. Len(m) < Word
      BY SizesAssumption
<1>3. Typed(o) /\ Holds(o, m)
      BY <1>2, UpdateReset DEF Inv, Types
<1>4. Becomes(o) /\ _finished' = FALSE /\ msg' = m /\ file' \in BOOLEAN /\ digests' = 0
      BY DEF UpdateWith
<1> HIDE DEF o
<1>q. QED
      BY <1>3, <1>4, NewMessage

\* Of a file the last chunk is, and an empty file leaves the object alone.
LEMMA UpdateFileInv ==
  ASSUME Inv, NEW m \in Seq(Token), Len(m) <= MaxLength, UpdateFile(m)
  PROVE  Inv'
<1>1. msg' = m /\ file' = TRUE /\ digests' = 0 /\ _digest' = _digest
      BY DEF UpdateFile
<1>2. Typed(Object)
      BY DEF Inv, Types
<1>3. CASE m = <<>>
  <2>1. UNCHANGED <<_state, _count, _buffer, _finished>>
        BY <1>3 DEF UpdateFile
  <2>2. ~Whole'
        BY <1>1, <1>3 DEF Whole
  <2>3. Typed(Object)'
        BY <1>2, <2>1 DEF Typed, Object
  <2>4. Types'
        BY <1>1, <2>1, <2>3 DEF Types, Inv
  <2>q. QED
        BY <2>2, <2>4 DEF Inv, CountIsMsgs, HoldsMsg, DigestIsMsgs
<1>4. CASE m # <<>>
  <2> DEFINE o == ReadAll(Object, m)
  <2>1. Becomes(o) /\ _finished' = FALSE
        BY <1>4 DEF UpdateFile
  <2>2. Typed(o) /\ (Len(m) <= ChunkSize => o = Update(reset(Object), m))
        BY <1>2, <1>4, ReadAllIs
  <2> HIDE DEF o
  <2>3. ASSUME Whole' PROVE Holds(o, m)
    <3>1. Len(m) <= ChunkSize
          BY <1>1, <2>3, SizesAssumption DEF Whole
    <3>2. Len(m) < Word
          BY SizesAssumption
    <3>3. Holds(Update(reset(Object), m), m)
          BY <1>2, <3>2, UpdateReset
    <3>q. QED
          BY <2>2, <3>1, <3>3
  <2>4. file' \in BOOLEAN
        BY <1>1
  <2>q. QED
        BY <1>1, <2>1, <2>2, <2>3, <2>4, NewMessage
<1>q. QED
      BY <1>3, <1>4

\* A digest, and what it leaves: the object keeps what the invariant says, and
\* the digest is right if it still had the message.
LEMMA DigestInv ==
  ASSUME Inv, Digest
  PROVE  Inv'
<1> DEFINE o == Object
<1> DEFINE f == Padded(Object)
<1> DEFINE R == Restored(o, f)
<1>1. /\ digests' = digests + 1 /\ _digest' = f.state /\ _finished' = FALSE /\ Becomes(R)
      /\ msg' = msg /\ file' = file
      BY DEF Digest
<1>2. Typed(o) /\ digests \in Nat /\ msg \in Seq(Token) /\ Len(msg) <= MaxLength /\ file \in BOOLEAN
      BY DEF Inv, Types
<1>3. Whole' = Whole /\ Fits(msg)' = Fits(msg) /\ Reference(msg)' = Reference(msg)
      BY <1>1 DEF Whole, Fits, Reference, Zeros
<1>4. Object' = R
      BY <1>1 DEF Object, Becomes, Restored
<1>5. Typed(f)
  <2>1. Index(o) \in Nat /\ Index(o) <= BlockSize - 1
    <3>1. o.count[1] \in Nat /\ BlockSize \in Nat \ {0}
          BY <1>2, SizesAssumption DEF Typed, Counter
    <3>2. o.count[1] \div 8 \in Nat
          BY <3>1
    <3>q. QED
      <4>1. Index(o) \in 0 .. BlockSize - 1
            BY <3>1, <3>2, Division DEF Index
      <4> HIDE DEF o
      <4>q. QED
            BY <3>1, <4>1
  <2>2. PADDING \in Seq(Token) /\ Len(PADDING) = BlockSize
    <3>1. Pad \in Token /\ Zero \in Token
          BY DEF Pad, Zero, Token
    <3>q. QED
          BY <3>1, SizesAssumption DEF PADDING
  <2> DEFINE n == PadLen(Index(o))
  <2>3. n \in Nat /\ n <= BlockSize
        BY <2>1, SizesAssumption DEF PadLen, LengthSize
  <2> HIDE DEF n
  <2>4. SubSeq(PADDING, 1, n) \in Seq(Token)
    <3>1. 0 + 1 = 1 /\ 0 + n = n /\ 0 + n <= Len(PADDING)
          BY <2>2, <2>3, SizesAssumption
    <3>2. SubSeq(PADDING, 0 + 1, 0 + n) \in Seq(Token)
          BY <2>2, <2>3, <3>1, SubSeqIs
    <3>q. QED
          BY <3>1, <3>2
  <2> DEFINE bits == <<Count(o.count[1]), Count(o.count[2])>>
  <2>5. bits \in Seq(Token)
    <3>1. o.count[1] \in Int /\ o.count[2] \in Int
          BY <1>2 DEF Typed, Counter
    <3>2. Count(o.count[1]) \in Token /\ Count(o.count[2]) \in Token
          BY <3>1 DEF Count, Token
    <3>q. QED
          BY <3>2
  <2>6. f = Update(Update(o, SubSeq(PADDING, 1, n)), bits)
        BY DEF Padded, n
  <2> HIDE DEF bits, o, f
  <2>7. Typed(Update(o, SubSeq(PADDING, 1, n)))
        BY <1>2, <2>4, UpdateTyped
  <2>q. QED
        BY <2>5, <2>6, <2>7, UpdateTyped
<1>6. Typed(R)
      BY <1>2, <1>5 DEF Typed, Restored
<1>7. Types'
  <2>1. Typed(Object)'
        BY <1>4, <1>6 DEF Typed
  <2>2. digests' \in Nat
        BY <1>1, <1>2
  <2>q. QED
        BY <1>1, <1>2, <2>1, <2>2 DEF Types
<1>8. CountIsMsgs'
  <2>1. _count' = _count
        BY <1>1 DEF Becomes, Restored, Object
  <2>q. QED
        BY <1>1, <1>3, <2>1 DEF CountIsMsgs, Inv, Bits
<1>9. digests' # 0 /\ (digests' = 1 => digests = 0)
      BY <1>1, <1>2
<1>10. HoldsMsg'
  <2>1. ASSUME Whole, Fits(msg) PROVE Holds(Object, msg)'
    <3>1. Holds(o, msg)
          BY <2>1 DEF Inv, HoldsMsg
    <3>2. Holds(R, msg)
          BY <2>1, <3>1, FinalKeeps
    <3>q. QED
          BY <1>1, <1>4, <3>2 DEF Holds
  <2>q. QED
        BY <1>3, <1>9, <2>1 DEF HoldsMsg
<1>11. DigestIsMsgs'
  <2>1. ASSUME Whole, digests = 0 \/ Fits(msg) PROVE _digest' = Reference(msg)
    <3>1. Holds(o, msg)
          BY <2>1 DEF Inv, HoldsMsg
    <3>q. QED
          BY <1>1, <3>1, FinalIsReference
  <2>q. QED
        BY <1>3, <1>9, <2>1 DEF DigestIsMsgs
<1>q. QED
      BY <1>7, <1>8, <1>10, <1>11 DEF Inv

\* No call of the object breaks it.
THEOREM Invariance == Spec => []Inv
<1>1. Inv /\ [Next]_vars => Inv'
  <2> SUFFICES ASSUME Inv, [Next]_vars PROVE Inv'
      OBVIOUS
  <2>1. CASE Reset
        BY <2>1, ResetInv
  <2>2. CASE Digest
        BY <2>2, DigestInv
  <2>3. ASSUME NEW n \in 0 .. MaxLength, UpdateWith(Message(n)) PROVE Inv'
        BY <2>3, MessageIs, UpdateInv
  <2>4. ASSUME NEW n \in 0 .. MaxLength, UpdateFile(Message(n)) PROVE Inv'
        BY <2>4, MessageIs, UpdateFileInv
  <2>5. CASE UNCHANGED vars
        BY <2>5 DEF Inv, Types, CountIsMsgs, HoldsMsg, DigestIsMsgs, vars, Typed, Object,
                    Holds, Whole, Fits, Reference, Zeros
  <2>q. QED
        BY <2>1, <2>2, <2>3, <2>4, <2>5 DEF Next
<1>q. QED
      BY InitInv, <1>1, PTL DEF Spec

-----------------------------------------------------------------------------
(* Theorems *)

\* The words of _count are words, _buffer has the size of a block, and of a
\* message that was taken in whole the count is the number of bits: no carry
\* is lost in update, and final puts back what padding added.
THEOREM TypeCorrect == Spec => []TypeOK
<1>1. Inv => TypeOK
  <2> SUFFICES ASSUME Inv PROVE TypeOK
      OBVIOUS
  <2>1. Typed(Object) /\ _finished = FALSE /\ msg \in Seq(Token) /\ Len(msg) <= MaxLength
        BY DEF Inv, Types
  <2>2. _count \in (0 .. Word - 1) \X (0 .. Word - 1) /\ _buffer \in [1 .. BlockSize -> Token]
        BY <2>1 DEF Typed, Object, Counter
  <2>3. Len(_buffer) = BlockSize
    <3>1. BlockSize \in Nat
          BY SizesAssumption
    <3>q. QED
          BY <2>2, <3>1
  <2>4. ASSUME Whole PROVE _count[1] + Word * _count[2] = 8 * Len(msg)
    <3> DEFINE b == 8 * Len(msg)
    <3> DEFINE q == b \div Word
    <3> DEFINE r == b % Word
    <3>1. Word \in Nat \ {0} /\ b \in Nat /\ b < Word * Word
      <4>1. Word \in Nat \ {0} /\ Len(msg) \in Nat /\ Len(msg) < Word
            BY <2>1, SizesAssumption
      <4>2. b < 8 * Word /\ Word * Word \in Nat
            BY <4>1
      <4>q. QED
            BY <4>1, <4>2, WordIsLarge
    <3>2. q \in Nat /\ r \in 0 .. Word - 1 /\ b = q * Word + r
      <4> HIDE DEF b
      <4>q. QED
            BY <3>1, Division
    <3>3. _count[1] = r /\ _count[2] = q % Word
          BY <2>4 DEF Inv, CountIsMsgs, Bits
    <3> HIDE DEF b, q, r
    <3>4. q < Word
      <4>1. CASE q >= Word
        <5>1. q * Word >= Word * Word
              BY <3>1, <3>2, <4>1
        <5>2. q * Word \in Nat /\ Word * Word \in Nat
              BY <3>1, <3>2
        <5>q. QED
              BY <3>1, <3>2, <5>1, <5>2
      <4>q. QED
            BY <3>1, <3>2, <4>1
    <3>5. q % Word = q
      <4>1. q \in 0 .. Word - 1 /\ q = 0 * Word + q
            BY <3>1, <3>2, <3>4
      <4>q. QED
            BY <3>1, <3>2, <4>1, Quotient
    <3>6. Word * q = q * Word /\ q * Word \in Nat
          BY <3>1, <3>2
    <3>7. r + q * Word = b
          BY <3>1, <3>2, <3>6
    <3>q. QED
          BY <3>3, <3>5, <3>6, <3>7 DEF b
  <2>q. QED
        BY <2>1, <2>2, <2>3, <2>4 DEF TypeOK
<1>q. QED
      BY Invariance, <1>1, PTL

\* The first digest of a message is its MD5: whatever the object was used for
\* before, and wherever the message ends in its last block.
THEOREM DigestsAreRight == Spec => []DigestIsRight
<1>1. Inv => DigestIsRight
      BY DEF Inv, DigestIsMsgs, DigestIsRight
<1>q. QED
      BY Invariance, <1>1, PTL

\* A second digest is the same as the first if the padding fits in the block
\* that is buffered: final restores the state and the count, and the bytes it
\* writes to the buffer lie behind those of the message.
THEOREM DigestsAreStable == Spec => DigestIsStable
<1> DEFINE A == digests > 0 /\ digests' > digests
                   /\ Len(msg) % BlockSize < BlockSize - LengthSize
                   /\ Whole
                 => _digest' = _digest
<1>1. Inv /\ Inv' /\ [Next]_vars => [A]_vars
  <2> SUFFICES ASSUME Inv, Inv', Next, digests > 0, digests' > digests,
                      Len(msg) % BlockSize < BlockSize - LengthSize, Whole
               PROVE  _digest' = _digest
      OBVIOUS
  <2>1. digests \in Nat
        BY DEF Inv, Types
  <2>2. Digest
        BY <2>1 DEF Next, Reset, UpdateWith, UpdateFile
  <2>3. msg' = msg /\ file' = file /\ digests' > 0
        BY <2>1, <2>2 DEF Digest
  <2>4. _digest = Reference(msg)
        BY DEF Inv, DigestIsMsgs, Fits
  <2>5. Whole' /\ Fits(msg)' /\ Reference(msg)' = Reference(msg)
        BY <2>3 DEF Whole, Fits, Reference, Zeros
  <2>6. _digest' = Reference(msg)
        BY <2>3, <2>5 DEF Inv, DigestIsMsgs
  <2>q. QED
        BY <2>4, <2>6
<1>q. QED
      BY Invariance, <1>1, PTL DEF Spec, DigestIsStable
=============================================================================
