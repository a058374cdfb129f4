------------------------- MODULE RequestParserProofs -------------------------
(***************************************************************************)
(* However the stream is cut into reads, and whatever the buffer holds     *)
(* beyond them, the requests that are delivered are the ones that were     *)
(* sent: proved for peers that wait for each reply, for requests, buffers  *)
(* and contents of any size.                                               *)
(***************************************************************************)
EXTENDS RequestParser, ListFacts

-----------------------------------------------------------------------------
(* Cutting sequences *)

\* What is moved from the front of t to the end of s stays in its place.
LEMMA Moved ==
  ASSUME NEW S, NEW s \in Seq(S), NEW t \in Seq(S), NEW k \in 0 .. Len(t)
  PROVE  (s \o SubSeq(t, 1, k)) \o SubSeq(t, k + 1, Len(t)) = s \o t
<1> DEFINE a == SubSeq(t, 1, k)
<1> DEFINE b == SubSeq(t, k + 1, Len(t))
<1>1. /\ a \in Seq(S) /\ Len(a) = k /\ \A i \in 1 .. k : a[i] = t[i]
      /\ b \in Seq(S) /\ Len(b) = Len(t) - k /\ \A i \in 1 .. Len(t) - k : b[i] = t[k + i]
      BY Cut
<1> HIDE DEF a, b
<1> DEFINE x == s \o a
<1> DEFINE y == x \o b
<1> DEFINE z == s \o t
<1>2. Joined(s, a, x) /\ Joined(x, b, y) /\ Joined(s, t, z)
  <2>1. Joined(s, a, x) /\ x \in Seq(S)
        BY <1>1, Joining
  <2> HIDE DEF x
  <2>2. Joined(x, b, y)
        BY <1>1, <2>1, Joining
  <2>q. QED
        BY <2>1, <2>2, Joining
<1>3. x \in Seq(S) /\ y \in Seq(S) /\ z \in Seq(S)
  <2>1. x \in Seq(S) /\ z \in Seq(S)
        BY <1>1, Joining
  <2> HIDE DEF x
  <2>q. QED
        BY <1>1, <2>1, Joining
<1> HIDE DEF x, y, z
<1>4. Len(s) \in Nat /\ Len(t) \in Nat /\ Len(y) = Len(z) /\ Len(z) = Len(s) + Len(t)
      BY <1>1, <1>2 DEF Joined
<1>5. ASSUME NEW i \in 1 .. Len(y) PROVE y[i] = z[i]
  <2>1. CASE i <= Len(s)
    <3>1. i \in 1 .. Len(s) /\ i \in 1 .. Len(x)
          BY <1>1, <1>2, <1>4, <2>1 DEF Joined
    <3>q. QED
          BY <1>2, <3>1 DEF Joined
  <2>2. CASE i > Len(s) /\ i <= Len(s) + k
    <3> DEFINE j == i - Len(s)
    <3>1. j \in 1 .. k /\ j \in 1 .. Len(t) /\ i = Len(s) + j /\ i \in 1 .. Len(x)
          BY <1>1, <1>2, <1>4, <2>2 DEF Joined
    <3> HIDE DEF j
    <3>2. y[i] = x[i] /\ x[i] = a[j] /\ a[j] = t[j] /\ z[i] = t[j]
          BY <1>1, <1>2, <3>1 DEF Joined
    <3>q. QED
          BY <3>2
  <2>3. CASE i > Len(s) + k
    <3> DEFINE j == i - Len(s) - k
    <3>1. /\ j \in 1 .. Len(b) /\ k + j \in 1 .. Len(t)
          /\ i = Len(s) + (k + j) /\ i = Len(x) + j
          BY <1>1, <1>2, <1>4, <2>3 DEF Joined
    <3> HIDE DEF j
    <3>2. y[i] = b[j] /\ z[i] = t[k + j]
          BY <1>2, <3>1 DEF Joined
    <3>3. b[j] = t[k + j]
          BY <1>1, <3>1
    <3>q. QED
          BY <3>2, <3>3
  <2>q. QED
        BY <1>4, <2>1, <2>2, <2>3
<1>6. y = z
      BY <1>3, <1>4, <1>5, SameElements
<1>q. QED
      BY <1>6 DEF a, b, x, y, z

-----------------------------------------------------------------------------
(* A request on the wire *)

\* The parts of a sequence, joined one by one.
IsJoin(q, g, n) ==
    /\ g[1] = q[1] /\ \A k \in 2 .. n : g[k] = g[k - 1] \o q[k]
    /\ g = [k \in 1 .. n |-> g[k]]

\* They exist ...
LEMMA JoinExists ==
  ASSUME NEW q, NEW n \in Nat \ {0}
  PROVE  \E g : IsJoin(q, g, n)
<1> DEFINE H == {m \in 0 .. n : m = 0 \/ \E g : IsJoin(q, g, m)}
<1>1. 0 \in H
      OBVIOUS
<1>2. ASSUME NEW m \in 1 .. n, m - 1 \in H PROVE m \in H
  <2>1. CASE m = 1
    <3>1. IsJoin(q, [k \in 1 .. 1 |-> q[1]], 1)
          BY DEF IsJoin
    <3>q. QED
          BY <2>1, <3>1
  <2>2. CASE m # 1
    <3>1. PICK g : IsJoin(q, g, m - 1)
          BY <1>2, <2>2
    <3> DEFINE h == [k \in 1 .. m |-> IF k = m THEN g[m - 1] \o q[m] ELSE g[k]]
    <3>2. h[1] = q[1] /\ h = [k \in 1 .. m |-> h[k]]
          BY <2>2, <3>1 DEF IsJoin
    <3>3. ASSUME NEW k \in 2 .. m PROVE h[k] = h[k - 1] \o q[k]
      <4>1. CASE k = m
        <5>1. m \in 1 .. m /\ m - 1 \in 1 .. m /\ m - 1 # m
              BY <2>2
        <5>2. h[m] = g[m - 1] \o q[m] /\ h[m - 1] = g[m - 1]
              BY <5>1
        <5>q. QED
              BY <4>1, <5>2
      <4>2. CASE k # m
        <5>1. k \in 2 .. m - 1 /\ k \in 1 .. m /\ k - 1 \in 1 .. m /\ k - 1 # m
              BY <4>2
        <5>2. g[k] = g[k - 1] \o q[k]
              BY <3>1, <5>1 DEF IsJoin
        <5>3. h[k] = g[k] /\ h[k - 1] = g[k - 1]
              BY <4>2, <5>1
        <5>q. QED
              BY <5>2, <5>3
      <4>q. QED
            BY <4>1, <4>2
    <3>4. IsJoin(q, h, m)
      <4> HIDE DEF h
      <4>q. QED
            BY <3>2, <3>3 DEF IsJoin
    <3>q. QED
          BY <3>4
  <2>q. QED
        BY <2>1, <2>2
<1> HIDE DEF H
<1>3. n \in H
      BY <1>1, <1>2, Induction
<1>q. QED
      BY <1>3 DEF H

\* ... and FlattenSeq is the last of them.
LEMMA FlattenIsJoin ==
  ASSUME NEW S, NEW q \in Seq(S), q # <<>>
  PROVE  \E g : IsJoin(q, g, Len(q)) /\ FlattenSeq(q) = g[Len(q)]
<1> DEFINE n == Len(q)
<1> DEFINE P(f) == f = [k \in 1 .. n |-> IF k = 1 THEN q[k] ELSE f[k - 1] \o q[k]]
<1> DEFINE f == CHOOSE f : P(f)
<1>1. n \in Nat \ {0}
      OBVIOUS
<1>2. PICK g : IsJoin(q, g, n)
      BY <1>1, JoinExists
<1>3. P(g)
  <2>1. \A k \in 1 .. n : g[k] = IF k = 1 THEN q[k] ELSE g[k - 1] \o q[k]
    <3>1. ASSUME NEW k \in 1 .. n, k # 1 PROVE g[k] = g[k - 1] \o q[k]
      <4>1. k \in 2 .. n
            BY <1>1, <3>1
      <4>q. QED
            BY <1>2, <4>1 DEF IsJoin
    <3>q. QED
          BY <1>2, <3>1 DEF IsJoin
  <2>2. g = [k \in 1 .. n |-> g[k]]
        BY <1>2 DEF IsJoin
  <2>q. QED
        BY <2>1, <2>2
<1>4. P(f)
      BY <1>3
<1>5. FlattenSeq(q) = f[n]
      BY <1>1 DEF FlattenSeq
<1> HIDE DEF f
<1>6. IsJoin(q, f, n)
  <2>1. \A k \in 1 .. n : f[k] = IF k = 1 THEN q[k] ELSE f[k - 1] \o q[k]
        BY <1>4
  <2>2. f = [k \in 1 .. n |-> f[k]]
        BY <1>4
  <2>q. QED
    <3>1. ASSUME NEW k \in 2 .. n PROVE f[k] = f[k - 1] \o q[k]
      <4>1. k \in 1 .. n /\ k # 1
            BY <1>1
      <4>q. QED
            BY <2>1, <4>1
    <3>2. f[1] = q[1]
          BY <1>1, <2>1
    <3>q. QED
          BY <2>2, <3>1, <3>2 DEF IsJoin
<1>q. QED
      BY <1>5, <1>6

\* Every number up to 3 n is one of a triple.
LEMMA Thirds ==
  ASSUME NEW n \in Nat, NEW i \in 1 .. 3 * n
  PROVE  \E j \in 1 .. n : i = 3 * j - 2 \/ i = 3 * j - 1 \/ i = 3 * j
<1> DEFINE j == (i + 2) \div 3
<1>1. j \in 1 .. n /\ (i = 3 * j - 2 \/ i = 3 * j - 1 \/ i = 3 * j)
      OBVIOUS
<1>q. QED
      BY <1>1

\* CR and LF are different tokens.
LEMMA IsToken == CR \in Tokens /\ LF \in Tokens /\ CR # LF
  BY DEF CR, LF, Token, Tokens

\* The header lines on the wire, each followed by its CR LF.
LEMMA LinesOnWire ==
  ASSUME NEW ls \in Seq(Tokens), ls # <<>>
  PROVE  LET b == FlattenSeq([i \in DOMAIN ls |-> <<ls[i], CR, LF>>])
         IN  /\ b \in Seq(Tokens) /\ Len(b) = 3 * Len(ls)
             /\ \A j \in 1 .. Len(ls) :
                   b[3 * j - 2] = ls[j] /\ b[3 * j - 1] = CR /\ b[3 * j] = LF
<1> DEFINE n == Len(ls)
<1> DEFINE q == [i \in DOMAIN ls |-> <<ls[i], CR, LF>>]
<1>0. CR \in Tokens /\ LF \in Tokens
      BY IsToken
<1>1. n \in Nat \ {0} /\ DOMAIN ls = 1 .. n /\ \A i \in 1 .. n : ls[i] \in Tokens
      OBVIOUS
<1>2. q \in Seq(Seq(Tokens)) /\ Len(q) = n /\ q # <<>>
      BY <1>0, <1>1
<1>3. \A i \in 1 .. n : q[i] = <<ls[i], CR, LF>>
      BY <1>1
<1> HIDE DEF q
<1>4. PICK g : IsJoin(q, g, n) /\ FlattenSeq(q) = g[n]
      BY <1>2, FlattenIsJoin
<1> DEFINE Good(m) ==
        /\ g[m] \in Seq(Tokens) /\ Len(g[m]) = 3 * m
        /\ \A j \in 1 .. m :
              g[m][3 * j - 2] = ls[j] /\ g[m][3 * j - 1] = CR /\ g[m][3 * j] = LF
<1> DEFINE H == {m \in 0 .. n : m = 0 \/ Good(m)}
<1>5. 0 \in H
      BY <1>1
<1>6. ASSUME NEW m \in 1 .. n, m - 1 \in H PROVE m \in H
  <2>1. CASE m = 1
    <3>1. g[1] = <<ls[1], CR, LF>> /\ ls[1] \in Tokens
          BY <1>1, <1>3, <1>4 DEF IsJoin
    <3>2. Good(1)
          BY <1>0, <3>1
    <3>q. QED
          BY <2>1, <3>2
  <2>2. CASE m # 1
    <3>1. Good(m - 1)
          BY <1>6, <2>2
    <3>2. g[m] = g[m - 1] \o <<ls[m], CR, LF>> /\ ls[m] \in Tokens
      <4>1. m \in 2 .. n
            BY <2>2
      <4>2. g[m] = g[m - 1] \o q[m]
            BY <1>4, <4>1 DEF IsJoin
      <4>q. QED
            BY <1>1, <1>3, <4>2
    <3> DEFINE p == g[m - 1]
    <3> DEFINE t == <<ls[m], CR, LF>>
    <3>3. p \in Seq(Tokens) /\ Len(p) = 3 * m - 3 /\ t \in Seq(Tokens) /\ Len(t) = 3
          BY <1>0, <3>1, <3>2
    <3>4. t[1] = ls[m] /\ t[2] = CR /\ t[3] = LF
          OBVIOUS
    <3>5. \A j \in 1 .. m - 1 :
              p[3 * j - 2] = ls[j] /\ p[3 * j - 1] = CR /\ p[3 * j] = LF
          BY <3>1
    <3>6. g[m] = p \o t
          BY <3>2
    <3> HIDE DEF p, t
    <3>0. g[m] \in Seq(Tokens) /\ Joined(p, t, g[m])
          BY <3>3, <3>6, Joining
    <3>7. g[m] \in Seq(Tokens) /\ Len(g[m]) = 3 * m
          BY <3>0, <3>3 DEF Joined
    <3>8. \A i \in 1 .. 3 * m - 3 : g[m][i] = p[i]
          BY <3>0, <3>3 DEF Joined
    <3>9. g[m][3 * m - 2] = t[1] /\ g[m][3 * m - 1] = t[2] /\ g[m][3 * m] = t[3]
      <4>1. \A i \in 1 .. 3 : g[m][(3 * m - 3) + i] = t[i]
            BY <3>0, <3>3 DEF Joined
      <4>2. /\ (3 * m - 3) + 1 = 3 * m - 2 /\ (3 * m - 3) + 2 = 3 * m - 1
            /\ (3 * m - 3) + 3 = 3 * m
            OBVIOUS
      <4>q. QED
            BY <4>1, <4>2
    <3>10. ASSUME NEW j \in 1 .. m
           PROVE  g[m][3 * j - 2] = ls[j] /\ g[m][3 * j - 1] = CR /\ g[m][3 * j] = LF
      <4>1. CASE j = m
            BY <3>4, <3>9, <4>1
      <4>2. CASE j # m
        <5>1. /\ j \in 1 .. m - 1 /\ 3 * j - 2 \in 1 .. 3 * m - 3
              /\ 3 * j - 1 \in 1 .. 3 * m - 3 /\ 3 * j \in 1 .. 3 * m - 3
              BY <4>2
        <5>q. QED
              BY <3>5, <3>8, <5>1
      <4>q. QED
            BY <4>1, <4>2
    <3>q. QED
          BY <3>7, <3>10
  <2>q. QED
        BY <2>1, <2>2
<1>7. Good(n)
  <2> HIDE DEF H
  <2>1. n \in H
    <3>1. n \in Nat
          BY <1>1
    <3>2. \A k \in 0 .. n : k \in H
          BY <1>5, <1>6, <3>1, Induction
    <3>q. QED
          BY <3>1, <3>2
  <2>q. QED
        BY <1>1, <2>1 DEF H
<1>q. QED
      BY <1>4, <1>7 DEF q

\* Line tokens are no CR and no LF.
LEMMA LinesAreTokens ==
  ASSUME NEW r \in Requests
  PROVE  /\ r.lines \in Seq(Tokens) /\ Len(r.lines) \in Nat \ {0}
         /\ r.content \in Seq(Tokens) /\ Len(r.content) \in Nat
         /\ \A j \in 1 .. Len(r.lines) :
               /\ IsLine(r.lines[j]) /\ r.lines[j] # CR /\ r.lines[j] # LF
               /\ r.lines[j].value \in Nat \cup {-1}
               /\ r.lines[j] = Token(r.lines[j].kind, r.lines[j].value)
<1> DEFINE L == [kind : LineKinds, value : Nat \cup {-1}]
<1>1. r.lines \in Seq(L) /\ r.lines # <<>> /\ r.content \in Seq(Tokens)
      BY DEF Requests
<1>2. ASSUME NEW k \in L
      PROVE  /\ k \in Tokens /\ IsLine(k) /\ k # CR /\ k # LF
             /\ k.value \in Nat \cup {-1} /\ k = Token(k.kind, k.value)
      BY DEF Tokens, IsLine, LineKinds, CR, LF, Token
<1>3. Len(r.lines) \in Nat \ {0} /\ Len(r.content) \in Nat
      BY <1>1
<1> HIDE DEF L
<1>4. \A j \in 1 .. Len(r.lines) : r.lines[j] \in L
      BY <1>1
<1>5. r.lines \in Seq(Tokens)
  <2>1. L \subseteq Tokens
        BY <1>2
  <2>q. QED
        BY <1>1, <2>1
<1>q. QED
      BY <1>1, <1>2, <1>3, <1>4, <1>5

\* The places of the parts of a request.
OnWire(r, b) ==
    /\ b \in Seq(Tokens) /\ Len(b) = 3 * Len(r.lines) + 2 + Len(r.content)
    /\ \A j \in 1 .. Len(r.lines) :
          b[3 * j - 2] = r.lines[j] /\ b[3 * j - 1] = CR /\ b[3 * j] = LF
    /\ b[3 * Len(r.lines) + 1] = CR /\ b[3 * Len(r.lines) + 2] = LF
    /\ \A i \in 1 .. Len(r.content) : b[3 * Len(r.lines) + 2 + i] = r.content[i]

\* Bytes returns a request as it is on the wire.
LEMMA BytesFacts ==
  ASSUME NEW r \in Requests
  PROVE  OnWire(r, Bytes(r))
<1> DEFINE n == Len(r.lines)
<1> DEFINE c == r.content
<1> DEFINE f == FlattenSeq([i \in DOMAIN r.lines |-> <<r.lines[i], CR, LF>>])
<1> DEFINE e == <<CR, LF>>
<1> DEFINE x == f \o e
<1> DEFINE b == x \o c
<1>1. r.lines \in Seq(Tokens) /\ n \in Nat \ {0} /\ c \in Seq(Tokens) /\ Len(c) \in Nat
      BY LinesAreTokens
<1>2. r.lines # <<>>
      BY <1>1
<1>3. /\ f \in Seq(Tokens) /\ Len(f) = 3 * n
      /\ \A j \in 1 .. n : f[3 * j - 2] = r.lines[j] /\ f[3 * j - 1] = CR /\ f[3 * j] = LF
      BY <1>1, <1>2, LinesOnWire
<1>4. e \in Seq(Tokens) /\ Len(e) = 2 /\ e[1] = CR /\ e[2] = LF
      BY IsToken
<1> HIDE DEF f, e
<1>5. x \in Seq(Tokens) /\ Joined(f, e, x)
      BY <1>3, <1>4, Joining
<1> HIDE DEF x
<1>6. b \in Seq(Tokens) /\ Joined(x, c, b)
      BY <1>1, <1>5, Joining
<1>7. Bytes(r) = b
      BY DEF Bytes, b, x, f, e
<1> HIDE DEF b
<1>8. Len(x) = 3 * n + 2 /\ Len(b) = 3 * n + 2 + Len(c)
      BY <1>1, <1>3, <1>4, <1>5, <1>6 DEF Joined
<1>9. ASSUME NEW i \in 1 .. 3 * n PROVE b[i] = f[i]
  <2>1. i \in 1 .. Len(x) /\ i \in 1 .. Len(f)
        BY <1>1, <1>3, <1>8
  <2>q. QED
        BY <1>5, <1>6, <2>1 DEF Joined
<1>10. ASSUME NEW j \in 1 .. n
       PROVE  b[3 * j - 2] = r.lines[j] /\ b[3 * j - 1] = CR /\ b[3 * j] = LF
  <2>1. 3 * j - 2 \in 1 .. 3 * n /\ 3 * j - 1 \in 1 .. 3 * n /\ 3 * j \in 1 .. 3 * n
        BY <1>1
  <2>2. /\ b[3 * j - 2] = f[3 * j - 2] /\ b[3 * j - 1] = f[3 * j - 1]
        /\ b[3 * j] = f[3 * j]
        BY <1>9, <2>1
  <2>q. QED
        BY <1>3, <2>2
<1>11. b[3 * n + 1] = CR /\ b[3 * n + 2] = LF
  <2>1. x[3 * n + 1] = e[1] /\ x[3 * n + 2] = e[2]
    <3>1. 1 \in 1 .. Len(e) /\ 2 \in 1 .. Len(e)
          BY <1>4
    <3>2. x[Len(f) + 1] = e[1] /\ x[Len(f) + 2] = e[2]
          BY <1>5, <3>1 DEF Joined
    <3>q. QED
          BY <1>3, <3>2
  <2>2. 3 * n + 1 \in 1 .. Len(x) /\ 3 * n + 2 \in 1 .. Len(x)
        BY <1>1, <1>8
  <2>q. QED
        BY <1>4, <1>6, <2>1, <2>2 DEF Joined
<1>12. \A i \in 1 .. Len(c) : b[3 * n + 2 + i] = c[i]
      BY <1>6, <1>8 DEF Joined
<1>q. QED
      BY <1>6, <1>7, <1>8, <1>10, <1>11, <1>12 DEF OnWire

-----------------------------------------------------------------------------
(* The end of the header *)

\* The four tokens at place i are the end of a header.
EndAt(s, i) == s[i] = CR /\ s[i + 1] = LF /\ s[i + 2] = CR /\ s[i + 3] = LF

\* That is what strstr compares.
LEMMA EndAtIs ==
  ASSUME NEW s \in Seq(Tokens), NEW i \in 1 .. Len(s) - 3
  PROVE  SubSeq(s, i, i + 3) = http_end <=> EndAt(s, i)
<1> DEFINE t == SubSeq(s, i, i + 3)
<1>1. /\ t \in Seq(Tokens) /\ Len(t) = 4
      /\ t[1] = s[i] /\ t[2] = s[i + 1] /\ t[3] = s[i + 2] /\ t[4] = s[i + 3]
  <2>1. \A j \in i .. i + 3 : j \in 1 .. Len(s)
        OBVIOUS
  <2>2. t \in Seq(Tokens) /\ Len(t) = 4
        BY <2>1
  <2>3. \A j \in 1 .. 4 : t[j] = s[i + j - 1]
        BY <2>1
  <2>4. i + 1 - 1 = i /\ i + 2 - 1 = i + 1 /\ i + 3 - 1 = i + 2 /\ i + 4 - 1 = i + 3
        OBVIOUS
  <2>q. QED
        BY <2>2, <2>3, <2>4
<1> HIDE DEF t
<1>2. /\ http_end \in Seq(Tokens) /\ Len(http_end) = 4 /\ http_end[1] = CR
      /\ http_end[2] = LF /\ http_end[3] = CR /\ http_end[4] = LF
      BY IsToken DEF http_end
<1>3. ASSUME EndAt(s, i) PROVE t = http_end
  <2>1. \A j \in 1 .. 4 : t[j] = http_end[j]
        BY <1>1, <1>2, <1>3 DEF EndAt
  <2>q. QED
        BY <1>1, <1>2, <2>1, SameElements
<1>4. ASSUME t = http_end PROVE EndAt(s, i)
      BY <1>1, <1>2, <1>4 DEF EndAt
<1>q. QED
      BY <1>3, <1>4 DEF t

\* strstr returns the first of these places.
LEMMA strstrIs ==
  ASSUME NEW s \in Seq(Tokens), strstr(s) # 0
  PROVE  /\ strstr(s) \in 1 .. Len(s) - 3 /\ EndAt(s, strstr(s))
         /\ \A i \in 1 .. Len(s) - 3 : EndAt(s, i) => strstr(s) <= i
<1> DEFINE found == {i \in 1 .. Len(s) - 3 : SubSeq(s, i, i + 3) = http_end}
<1>1. \A i \in 1 .. Len(s) - 3 : i \in found <=> EndAt(s, i)
      BY EndAtIs
<1>2. found # {} /\ strstr(s) = CHOOSE i \in found : \A j \in found : i <= j
      BY DEF strstr
<1>3. found \in SUBSET Nat /\ \A i \in found : i \in 1 .. Len(s) - 3
      OBVIOUS
<1> HIDE DEF found
<1>4. \E i \in found : \A j \in found : i <= j
      BY <1>2, <1>3, LeastNumber
<1>5. strstr(s) \in found /\ \A j \in found : strstr(s) <= j
      BY <1>2, <1>4
<1>q. QED
      BY <1>1, <1>3, <1>5

\* s begins with what was read of a request.
Begins(s, len, b) == len <= Len(s) /\ len <= Len(b) /\ \A i \in 1 .. len : s[i] = b[i]

\* The end of the header that is found in what was read is the end of the header.
LEMMA HeaderEnd ==
  ASSUME NEW r \in Requests, NEW s \in Seq(Tokens), NEW len \in Nat,
         Begins(s, len, Bytes(r)), strstr(s) # 0, strstr(s) + 3 <= len
  PROVE  strstr(s) = 3 * Len(r.lines) - 1 /\ 3 * Len(r.lines) + 2 <= len
<1> DEFINE n == Len(r.lines)
<1> DEFINE b == Bytes(r)
<1> DEFINE p == strstr(s)
<1>1. n \in Nat \ {0} /\ \A j \in 1 .. n : r.lines[j] # CR
      BY LinesAreTokens
<1>2. /\ \A j \in 1 .. n :
            b[3 * j - 2] = r.lines[j] /\ b[3 * j - 1] = CR /\ b[3 * j] = LF
      /\ b[3 * n + 1] = CR /\ b[3 * n + 2] = LF
      BY BytesFacts DEF OnWire
<1>3. /\ p \in 1 .. Len(s) - 3 /\ EndAt(s, p)
      /\ \A i \in 1 .. Len(s) - 3 : EndAt(s, i) => p <= i
      BY strstrIs
<1>4. len <= Len(s) /\ Len(s) \in Nat /\ \A i \in 1 .. len : s[i] = b[i]
      BY DEF Begins
<1> HIDE DEF b, p, n
<1>5. p \in Nat \ {0} /\ p + 3 <= len
      BY <1>3 DEF p
<1>6. b[p] = CR /\ b[p + 2] = CR
  <2>1. p \in 1 .. len /\ p + 2 \in 1 .. len
        BY <1>5
  <2>2. b[p] = s[p] /\ b[p + 2] = s[p + 2]
        BY <1>4, <2>1
  <2>q. QED
        BY <1>3, <2>2 DEF EndAt
<1>7. ASSUME p < 3 * n - 1 PROVE FALSE
  <2>1. p \in 1 .. 3 * n
        BY <1>1, <1>5, <1>7
  <2>2. PICK j \in 1 .. n : p = 3 * j - 2 \/ p = 3 * j - 1 \/ p = 3 * j
        BY <1>1, <2>1, Thirds
  <2>3. CASE p = 3 * j - 2
        BY <1>1, <1>2, <1>6, <2>3
  <2>4. CASE p = 3 * j
        BY <1>2, <1>6, <2>4, IsToken
  <2>5. CASE p = 3 * j - 1
    <3>1. j + 1 \in 1 .. n /\ p + 2 = 3 * (j + 1) - 2
          BY <1>1, <1>7, <2>5
    <3>2. b[p + 2] = r.lines[j + 1] /\ r.lines[j + 1] # CR
          BY <1>1, <1>2, <3>1
    <3>q. QED
          BY <1>6, <3>2
  <2>q. QED
        BY <2>2, <2>3, <2>4, <2>5
<1>8. 3 * n + 2 <= len /\ 3 * n - 1 \in 1 .. Len(s) - 3
      BY <1>1, <1>4, <1>5, <1>7
<1>9. EndAt(s, 3 * n - 1)
  <2>1. n \in 1 .. n
        BY <1>1
  <2>2. b[3 * n - 1] = CR /\ b[3 * n] = LF
        BY <1>2, <2>1
  <2>3. /\ (3 * n - 1) + 1 = 3 * n /\ (3 * n - 1) + 2 = 3 * n + 1
        /\ (3 * n - 1) + 3 = 3 * n + 2
        BY <1>1
  <2>4. /\ s[3 * n - 1] = b[3 * n - 1] /\ s[3 * n] = b[3 * n]
        /\ s[3 * n + 1] = b[3 * n + 1] /\ s[3 * n + 2] = b[3 * n + 2]
        BY <1>1, <1>4, <1>8
  <2>q. QED
        BY <1>2, <2>2, <2>3, <2>4 DEF EndAt
<1>10. p <= 3 * n - 1
      BY <1>3, <1>8, <1>9
<1>11. p = 3 * n - 1
      BY <1>1, <1>5, <1>7, <1>10
<1>q. QED
      BY <1>8, <1>11 DEF p, n

\* The lines found before it are the lines of the request.
LEMMA HeaderLinesAre ==
  ASSUME NEW r \in Requests, NEW s \in Seq(Tokens), NEW len \in Nat,
         Begins(s, len, Bytes(r)), 3 * Len(r.lines) + 2 <= len
  PROVE  HeaderLines(s, len, 3 * Len(r.lines) - 1) = r.lines
<1> DEFINE n == Len(r.lines)
<1> DEFINE m == 3 * n - 2
<1> DEFINE I == {i \in 1 .. m : IsLine(s[i])}
<1> DEFINE f == [j \in 1 .. n |-> 3 * j - 2]
<1>1. /\ n \in Nat \ {0} /\ r.lines \in Seq(Tokens)
      /\ \A j \in 1 .. n : IsLine(r.lines[j])
      BY LinesAreTokens
<1>2. \A j \in 1 .. n :
         /\ Bytes(r)[3 * j - 2] = r.lines[j] /\ Bytes(r)[3 * j - 1] = CR
         /\ Bytes(r)[3 * j] = LF
      BY BytesFacts DEF OnWire
<1>3. HeaderLines(s, len, 3 * n - 1) = Pick(s, I)
  <2>1. (IF 3 * n - 1 - 1 < len - 3 THEN 3 * n - 1 - 1 ELSE len - 3) = m
        BY <1>1
  <2>q. QED
        BY <2>1 DEF HeaderLines
<1>4. Len(s) \in Nat /\ \A i \in 1 .. m : i \in 1 .. Len(s) /\ s[i] = Bytes(r)[i]
      BY <1>1 DEF Begins
<1>5. ~IsLine(CR) /\ ~IsLine(LF)
      BY DEF IsLine, LineKinds, CR, LF, Token
<1>6. I = {f[j] : j \in 1 .. n}
  <2>1. ASSUME NEW j \in 1 .. n PROVE 3 * j - 2 \in I
    <3>1. 3 * j - 2 \in 1 .. m
          BY <1>1
    <3>2. s[3 * j - 2] = r.lines[j]
          BY <1>2, <1>4, <3>1
    <3>q. QED
          BY <1>1, <3>1, <3>2
  <2>2. ASSUME NEW i \in I PROVE \E j \in 1 .. n : i = 3 * j - 2
    <3>1. i \in 1 .. 3 * n /\ s[i] = Bytes(r)[i] /\ IsLine(s[i])
          BY <1>1, <1>4
    <3>2. PICK j \in 1 .. n : i = 3 * j - 2 \/ i = 3 * j - 1 \/ i = 3 * j
          BY <1>1, <3>1, Thirds
    <3>3. i # 3 * j - 1 /\ i # 3 * j
          BY <1>2, <1>5, <3>1
    <3>q. QED
          BY <3>2, <3>3
  <2>q. QED
        BY <2>1, <2>2
<1>7. f \in [1 .. n -> Int] /\ \A k, l \in 1 .. n : k < l => f[k] < f[l]
      BY <1>1
<1>8. I \subseteq DOMAIN s
      BY <1>4
<1>9. ASSUME NEW j \in 1 .. n PROVE f[j] \in 1 .. m /\ s[f[j]] = r.lines[j]
  <2>1. f[j] = 3 * j - 2 /\ 3 * j - 2 \in 1 .. m
        BY <1>1
  <2>q. QED
        BY <1>2, <1>4, <2>1
<1> HIDE DEF I, f, m
<1>10. Cardinality(I) = n /\ \A k \in 1 .. n : Ascending(I)[k] = f[k]
  <2>1. n \in Nat
        BY <1>1
  <2>q. QED
        BY <1>6, <1>7, <2>1, AscendingIs
<1>11. /\ Pick(s, I) \in Seq(Tokens) /\ Len(Pick(s, I)) = n
       /\ \A k \in 1 .. n : Pick(s, I)[k] = s[Ascending(I)[k]]
  <2>1. /\ Pick(s, I) \in Seq(Tokens) /\ Len(Pick(s, I)) = Cardinality(I)
        /\ \A k \in 1 .. Cardinality(I) : Pick(s, I)[k] = s[Ascending(I)[k]]
        BY <1>8, PickFacts
  <2>q. QED
        BY <1>10, <2>1, Zenon
<1>12. \A k \in 1 .. n : Pick(s, I)[k] = r.lines[k]
      BY <1>9, <1>10, <1>11
<1>13. Pick(s, I) = r.lines
      BY <1>1, <1>11, <1>12, SameElements
<1>q. QED
      BY <1>3, <1>13

\* The tokens after it are of the content.
LEMMA ContentIs ==
  ASSUME NEW r \in Requests, NEW s \in Seq(Tokens), NEW len \in Nat,
         Begins(s, len, Bytes(r)), 3 * Len(r.lines) + 2 <= len
  PROVE  LET m == len - 3 * Len(r.lines) - 2
             c == SubSeq(s, (3 * Len(r.lines) - 1) + 4, len)
         IN  /\ m \in 0 .. Len(r.content) /\ c \in Seq(Tokens) /\ Len(c) = m
             /\ c = SubSeq(r.content, 1, m)
<1> DEFINE a == 3 * Len(r.lines) + 2
<1> DEFINE m == len - 3 * Len(r.lines) - 2
<1> DEFINE c == SubSeq(s, (3 * Len(r.lines) - 1) + 4, len)
<1> DEFINE d == SubSeq(r.content, 1, m)
<1>1. /\ Len(r.lines) \in Nat \ {0} /\ r.content \in Seq(Tokens)
      /\ Len(r.content) \in Nat
      BY LinesAreTokens
<1>2. /\ Len(Bytes(r)) = a + Len(r.content)
      /\ \A i \in 1 .. Len(r.content) : Bytes(r)[a + i] = r.content[i]
      BY BytesFacts DEF OnWire
<1>3. /\ len <= Len(s) /\ len <= Len(Bytes(r)) /\ Len(s) \in Nat
      /\ \A i \in 1 .. len : s[i] = Bytes(r)[i]
      BY DEF Begins
<1>4. /\ m \in 0 .. Len(r.content) /\ a \in Nat /\ len = a + m
      /\ (3 * Len(r.lines) - 1) + 4 = a + 1
  <2>1. len <= a + Len(r.content)
        BY <1>2, <1>3
  <2>2. \A n \in Nat \ {0}, l \in Nat : 3 * n + 2 <= len /\ len <= 3 * n + 2 + l =>
           /\ len - 3 * n - 2 \in 0 .. l /\ 3 * n + 2 \in Nat
           /\ len = 3 * n + 2 + (len - 3 * n - 2) /\ (3 * n - 1) + 4 = 3 * n + 2 + 1
        OBVIOUS
  <2>q. QED
        BY <1>1, <2>1, <2>2
<1>5. c = SubSeq(s, a + 1, a + m)
      BY <1>4
<1> HIDE DEF a, m, c
<1>6. c \in Seq(Tokens) /\ Len(c) = m /\ \A i \in 1 .. m : c[i] = s[a + i]
  <2>1. a \in Nat /\ m \in Nat /\ a + m <= Len(s) /\ Len(s) \in Nat
        BY <1>1, <1>3, <1>4
  <2>2. \A i \in a + 1 .. a + m : i \in 1 .. Len(s)
        BY <2>1
  <2>3. c \in Seq(Tokens) /\ Len(c) = m
        BY <1>5, <2>1, <2>2
  <2>4. \A i \in 1 .. m : c[i] = s[a + i]
        BY <1>5, <2>1, <2>2
  <2>q. QED
        BY <2>3, <2>4
<1>7. d \in Seq(Tokens) /\ Len(d) = m /\ \A i \in 1 .. m : d[i] = r.content[i]
      BY <1>1, <1>4, Cut
<1> HIDE DEF d
<1>8. ASSUME NEW i \in 1 .. m PROVE c[i] = d[i]
  <2>1. a + i \in 1 .. len /\ i \in 1 .. Len(r.content)
        BY <1>1, <1>4
  <2>q. QED
        BY <1>2, <1>3, <1>6, <1>7, <2>1
<1>9. c = d
      BY <1>6, <1>7, <1>8, SameElements
<1>q. QED
      BY <1>4, <1>6, <1>9 DEF m, c, d

-----------------------------------------------------------------------------
(* Content-Length *)

\* What is declared is the value of a line.
LEMMA DeclaredIs ==
  ASSUME NEW r \in Requests, Sizes(r.lines) # {}
  PROVE  \E i \in Sizes(r.lines) : Declared(r.lines) = r.lines[i].value
<1> DEFINE J == Sizes(r.lines)
<1> DEFINE n == Len(r.lines)
<1> DEFINE T == {n - i : i \in J}
<1>1. n \in Nat /\ \A i \in J : i \in 1 .. n
  <2>1. r.lines \in Seq(Tokens) /\ n \in Nat
        BY LinesAreTokens
  <2>q. QED
        BY <2>1 DEF Sizes
<1>2. T \in SUBSET Nat /\ T # {}
      BY <1>1
<1>3. PICK x \in T : \A y \in T : x <= y
      BY <1>2, LeastNumber
<1>4. PICK i \in J : x = n - i
      BY <1>3
<1>5. ASSUME NEW j \in J PROVE i >= j
  <2>1. n - i <= n - j
        BY <1>3, <1>4
  <2>q. QED
        BY <1>1, <2>1
<1>6. Max(J) \in J
      BY <1>5 DEF Max
<1>q. QED
      BY <1>6 DEF Declared

\* If every Content-Length is a number, so is what is declared.
LEMMA DeclaredIsNat ==
  ASSUME NEW r \in Requests, Sizes(r.lines) # {},
         \A i \in Sizes(r.lines) : r.lines[i] # NoSize
  PROVE  Declared(r.lines) \in Nat
<1>1. PICK i \in Sizes(r.lines) : Declared(r.lines) = r.lines[i].value
      BY DeclaredIs
<1>2. i \in 1 .. Len(r.lines) /\ r.lines[i].kind = "size"
  <2>1. r.lines \in Seq(Tokens)
        BY LinesAreTokens
  <2>q. QED
        BY <2>1 DEF Sizes
<1>3. /\ r.lines[i].value \in Nat \cup {-1}
      /\ r.lines[i] = Token(r.lines[i].kind, r.lines[i].value)
      BY <1>2, LinesAreTokens
<1>4. r.lines[i] # NoSize
      OBVIOUS
<1>5. r.lines[i].value # -1
      BY <1>2, <1>3, <1>4 DEF NoSize
<1>q. QED
      BY <1>1, <1>3, <1>5

\* When the parser takes the content for complete, it is.
LEMMA CompleteIs ==
  ASSUME NEW r \in Requests, Fits(r), NEW cl \in Nat, NEW m \in 0 .. Len(r.content),
         \A i \in Sizes(r.lines) : r.lines[i] # NoSize
  PROVE  LET size == IF Sizes(r.lines) = {} THEN cl ELSE Declared(r.lines)
         IN  /\ size \in Nat
             /\ Sizes(r.lines) = {} => r.content = <<>>
             /\ m >= size => m = Len(r.content)
             /\ m >= size /\ Sizes(r.lines) # {} => Declared(r.lines) = Len(r.content)
<1>1. r.content \in Seq(Tokens) /\ Len(r.content) \in Nat
      BY LinesAreTokens
<1>2. r.content = <<>> => Len(r.content) = 0
      OBVIOUS
<1>3. CASE Sizes(r.lines) = {}
  <2>1. Declared(r.lines) = -1
        BY <1>3 DEF Declared
  <2>2. r.content = <<>>
        BY <1>1, <2>1 DEF Fits
  <2>q. QED
        BY <1>2, <1>3, <2>2
<1>4. CASE Sizes(r.lines) # {}
  <2>1. Declared(r.lines) \in Nat
        BY <1>4, DeclaredIsNat
  <2>2. Len(r.content) = 0 \/ Len(r.content) <= Declared(r.lines)
        BY <1>2 DEF Fits
  <2>q. QED
        BY <1>1, <1>4, <2>1, <2>2
<1>q. QED
      BY <1>3, <1>4

\* What is then delivered is valid.
LEMMA ValidIs ==
  ASSUME NEW r \in Requests, LinesAccepted(r.lines), Declared(r.lines) = Len(r.content),
         \A i \in Sizes(r.lines) : r.lines[i] # NoSize
  PROVE  Valid(r)
<1>1. r.lines \in Seq(Tokens) /\ Len(r.lines) \in Nat \ {0}
      BY LinesAreTokens
<1>2. DOMAIN r.lines = 1 .. Len(r.lines) /\ 1 \in DOMAIN r.lines /\ 1 .. 1 - 1 = {}
      BY <1>1
<1>3. r.lines[1].kind = "post"
      BY <1>2 DEF LinesAccepted
<1>4. ASSUME NEW i \in DOMAIN r.lines
      PROVE  r.lines[i].kind # "junk" /\ r.lines[i] # NoSize
  <2>1. r.lines[i].kind # "junk"
        BY DEF LinesAccepted
  <2>2. r.lines[i] = NoSize => i \in Sizes(r.lines)
        BY DEF Sizes, NoSize, Token
  <2>q. QED
        BY <2>1, <2>2
<1>q. QED
      BY <1>3, <1>4 DEF Valid

-----------------------------------------------------------------------------
(* The invariant *)

\* A request was sent and is not delivered; Current is the one.
Waiting == Len(sent) = Len(delivered) + 1
Current == sent[Len(sent)]

\* The requests are requests, what was read and what is kept are tokens.
TypeInv ==
    /\ todo \in Seq(Requests) /\ \A i \in DOMAIN todo : Fits(todo[i])
    /\ sent \in Seq(Requests) /\ \A i \in DOMAIN sent : Fits(sent[i])
    /\ stream \in Seq(Tokens) /\ m_buffer \in [1 .. BufSize -> Tokens]
    /\ place \in {"start", "header", "content"} /\ m_httpheader \in Seq(Tokens)
    /\ bheader \in BOOLEAN /\ content_length_ \in Nat
    /\ content \in Seq(Tokens)
    /\ delivered \in Seq(Requests) /\ refused \in BOOLEAN

\* The coroutine continues where the data it has seen leaves it.
PlaceInv ==
    /\ place = "header" => strstr(m_httpheader) = 0
    /\ place = "content" => ~refused /\ Len(content) < content_length_

\* What the header of r declares is what the parser waits for; without a
\* declaration it is the first request, and has no content.
Awaited(r) ==
    /\ LinesAccepted(r.lines) /\ \A i \in Sizes(r.lines) : r.lines[i] # NoSize
    /\ IF Sizes(r.lines) = {} THEN delivered = <<>> /\ r.content = <<>>
       ELSE content_length_ = Declared(r.lines)

\* What was read of the current request and what is still in the stream make up
\* the request, whichever way it is cut.
ReadInv ==
    ~refused =>
        /\ Waiting \/ Len(sent) = Len(delivered)
        /\ place = "start" =>
              /\ m_httpheader = <<>> /\ lines = <<>> /\ content = <<>>
              /\ stream = IF Waiting THEN Bytes(Current) ELSE <<>>
        /\ place = "header" =>
              /\ Waiting /\ lines = <<>> /\ content = <<>>
              /\ m_httpheader \o stream = Bytes(Current)
        /\ place = "content" =>
              /\ Waiting /\ lines = Current.lines /\ Awaited(Current)
              /\ content \o stream = Current.content
        /\ place # "content" /\ delivered # <<>> => ~bheader

\* What was delivered was sent, and was judged by what it is from the second on.
DeliveredInv ==
    /\ Len(delivered) <= Len(sent)
    /\ \A i \in 1 .. Len(delivered) : delivered[i] = sent[i]
    /\ \A i \in 2 .. Len(delivered) : Valid(delivered[i])

Inv == TypeInv /\ PlaceInv /\ ReadInv /\ DeliveredInv

\* A new connection has read nothing.
LEMMA InitInv == Init => Inv
<1> SUFFICES ASSUME Init PROVE Inv
    OBVIOUS
<1>1. Len(<<>>) = 0 /\ \A S : <<>> \in Seq(S)
      OBVIOUS
<1>2. todo \in Seq(Requests) /\ \A i \in DOMAIN todo : Fits(todo[i])
      BY ScriptsAssumption DEF Init
<1>3. TypeInv
  <2>1. m_buffer \in [1 .. BufSize -> Tokens] /\ content_length_ \in Nat
        BY BufferAssumption, LengthsAssumption DEF Init
  <2>2. sent = <<>> /\ DOMAIN <<>> = {}
        BY DEF Init
  <2>3. \A i \in DOMAIN sent : Fits(sent[i])
        BY <2>2
  <2>q. QED
        BY <1>1, <1>2, <2>1, <2>3 DEF Init, TypeInv
<1>4. PlaceInv
      BY DEF Init, PlaceInv
<1>5. ReadInv
      BY <1>1 DEF Init, ReadInv, Waiting
<1>6. DeliveredInv
      BY <1>1 DEF Init, DeliveredInv
<1>q. QED
      BY <1>3, <1>4, <1>5, <1>6 DEF Inv

\* A peer that waits sends into an empty stream.
LEMMA PeerSendInv ==
  ASSUME Inv, ~Pipelined, PeerSend
  PROVE  Inv'
<1> DEFINE r == Head(todo)
<1>1. /\ todo \in Seq(Requests) /\ todo # <<>> /\ sent \in Seq(Requests)
      /\ ~refused /\ Len(sent) = Len(delivered)
      BY DEF PeerSend, Inv, TypeInv
<1>2. r = todo[1] /\ 1 \in DOMAIN todo /\ r \in Requests
      BY <1>1
<1>3. Fits(r)
      BY <1>2 DEF Inv, TypeInv
<1>4. /\ todo' \in Seq(Requests) /\ Len(todo') = Len(todo) - 1
      /\ \A i \in 1 .. Len(todo') : todo'[i] = todo[i + 1]
      BY <1>1 DEF PeerSend
<1> HIDE DEF r
<1>5. sent' = Append(sent, r) /\ stream' = stream \o Bytes(r)
      BY DEF PeerSend, r
<1>6. /\ sent' \in Seq(Requests) /\ Len(sent') = Len(sent) + 1 /\ sent'[Len(sent')] = r
      /\ \A i \in 1 .. Len(sent) : sent'[i] = sent[i]
      BY <1>1, <1>2, <1>5
<1>7. UNCHANGED <<m_buffer, place, m_httpheader, lines, bheader, content_length_, content,
                  delivered, refused>>
      BY DEF PeerSend, parserVars, requestVars
<1>8. Bytes(r) \in Seq(Tokens)
      BY <1>2, BytesFacts DEF OnWire
<1>9. ~Waiting /\ stream = <<>> /\ place = "start"
  <2>1. Len(delivered) \in Nat
        BY DEF Inv, TypeInv
  <2>2. ~Waiting
        BY <1>1, <2>1 DEF Waiting
  <2>q. QED
        BY <1>1, <2>2 DEF Inv, TypeInv, ReadInv
<1>10. stream' = Bytes(r)
      BY <1>5, <1>8, <1>9
<1>11. TypeInv'
  <2>1. ASSUME NEW i \in DOMAIN todo' PROVE Fits(todo'[i])
    <3>1. i \in 1 .. Len(todo') /\ i + 1 \in DOMAIN todo
          BY <1>1, <1>4
    <3>q. QED
          BY <1>4, <3>1 DEF Inv, TypeInv
  <2>2. ASSUME NEW i \in DOMAIN sent' PROVE Fits(sent'[i])
    <3>1. CASE i = Len(sent')
          BY <1>3, <1>6, <3>1
    <3>2. CASE i # Len(sent')
      <4>1. i \in 1 .. Len(sent) /\ i \in DOMAIN sent
            BY <1>1, <1>6, <3>2
      <4>q. QED
            BY <1>6, <4>1 DEF Inv, TypeInv
    <3>q. QED
          BY <3>1, <3>2
  <2>q. QED
        BY <1>4, <1>6, <1>7, <1>8, <1>10, <2>1, <2>2 DEF Inv, TypeInv
<1>12. PlaceInv'
      BY <1>7, <1>9 DEF Inv, PlaceInv
<1>13. ReadInv'
  <2>1. Waiting' /\ Current' = r
        BY <1>1, <1>6, <1>7 DEF Waiting, Current
  <2>q. QED
        BY <1>1, <1>7, <1>9, <1>10, <2>1 DEF Inv, ReadInv
<1>14. DeliveredInv'
      BY <1>1, <1>6, <1>7 DEF Inv, DeliveredInv
<1>q. QED
      BY <1>11, <1>12, <1>13, <1>14 DEF Inv

\* What a read leaves alone, and what it puts into the stream and the buffer.
ReadFrame ==
    /\ UNCHANGED peerVars
    /\ stream' \in Seq(Tokens) /\ m_buffer' \in [1 .. BufSize -> Tokens]

\* A request is refused.
LEMMA RefuseInv ==
  ASSUME Inv, place # "content", ReadFrame, Refuse
  PROVE  Inv'
<1>1. UNCHANGED <<todo, sent, place, m_httpheader, delivered>>
      BY DEF ReadFrame, Refuse, peerVars, parserVars
<1>2. TypeInv'
  <2>1. <<>> \in Seq(Tokens)
        OBVIOUS
  <2>q. QED
        BY <1>1, <2>1 DEF Inv, TypeInv, ReadFrame, Refuse
<1>3. PlaceInv'
      BY <1>1 DEF Inv, PlaceInv
<1>4. ReadInv'
      BY DEF Refuse, ReadInv
<1>5. DeliveredInv'
      BY <1>1 DEF Inv, DeliveredInv
<1>q. QED
      BY <1>2, <1>3, <1>4, <1>5 DEF Inv

\* A request is delivered.
LEMMA CompleteInv ==
  ASSUME Inv, ~refused, Waiting, ReadFrame, stream' = <<>>,
         delivered # <<>> => Valid(Current),
         Complete(Current.lines, Current.content)
  PROVE  Inv'
<1> DEFINE r == Current
<1>1. /\ sent \in Seq(Requests) /\ delivered \in Seq(Requests)
      /\ Len(sent) = Len(delivered) + 1 /\ Len(sent) \in 1 .. Len(sent)
      BY DEF Inv, TypeInv, Waiting
<1>2. r \in Requests
      BY <1>1 DEF Current
<1>3. [lines |-> r.lines, content |-> r.content] = r
      BY <1>2 DEF Requests
<1>4. delivered' = Append(delivered, r)
      BY <1>3 DEF Complete
<1>5. /\ place' = "start" /\ m_httpheader' = <<>> /\ lines' = <<>> /\ bheader' = FALSE
      /\ content_length_' = 0 /\ content' = <<>> /\ refused' = refused
      BY DEF Complete, Reset
<1>6. todo' = todo /\ sent' = sent
      BY DEF ReadFrame, peerVars
<1> HIDE DEF r
<1>7. /\ delivered' \in Seq(Requests) /\ Len(delivered') = Len(delivered) + 1
      /\ delivered'[Len(delivered) + 1] = r
      /\ \A i \in 1 .. Len(delivered) : delivered'[i] = delivered[i]
      BY <1>1, <1>2, <1>4
<1>8. TypeInv'
  <2>1. <<>> \in Seq(Tokens)
        OBVIOUS
  <2>q. QED
        BY <1>5, <1>6, <1>7, <2>1 DEF Inv, TypeInv, ReadFrame
<1>9. PlaceInv'
      BY <1>5 DEF PlaceInv
<1>10. ReadInv'
  <2>1. ~Waiting' /\ Len(sent') = Len(delivered')
        BY <1>1, <1>6, <1>7 DEF Waiting
  <2>q. QED
        BY <1>5, <2>1 DEF ReadInv
<1>11. DeliveredInv'
  <2>1. sent[Len(delivered) + 1] = r
        BY <1>1 DEF r, Current
  <2>2. ASSUME NEW i \in 1 .. Len(delivered') PROVE delivered'[i] = sent'[i]
        BY <1>1, <1>6, <1>7, <2>1 DEF Inv, DeliveredInv
  <2>3. ASSUME NEW i \in 2 .. Len(delivered') PROVE Valid(delivered'[i])
    <3>1. CASE i = Len(delivered) + 1
      <4>1. delivered # <<>>
            BY <1>1, <3>1
      <4>q. QED
            BY <1>7, <3>1, <4>1 DEF r
    <3>2. CASE i # Len(delivered) + 1
      <4>1. i \in 2 .. Len(delivered) /\ i \in 1 .. Len(delivered)
            BY <1>1, <1>7, <3>2
      <4>q. QED
            BY <1>7, <4>1 DEF Inv, DeliveredInv
    <3>q. QED
          BY <3>1, <3>2
  <2>q. QED
        BY <1>1, <1>6, <1>7, <2>2, <2>3 DEF DeliveredInv
<1>q. QED
      BY <1>8, <1>9, <1>10, <1>11 DEF Inv

\* A read of len tokens has left the rest of b in the stream.
Rest(len, b) ==
    /\ Len(stream') = Len(b) - len
    /\ \A i \in 1 .. Len(b) - len : stream'[i] = b[len + i]

\* The header of the current request is complete.
LEMMA ParseHeaderInv ==
  ASSUME Inv, ~refused, place # "content", Waiting, ReadFrame,
         NEW s \in Seq(Tokens), NEW len \in Nat, Begins(s, len, Bytes(Current)),
         Rest(len, Bytes(Current)), strstr(s) # 0, ParseHeader(s, len, strstr(s))
  PROVE  Inv'
<1>0. PICK r : r = Current
      OBVIOUS
<1> DEFINE pend == strstr(s)
<1> DEFINE ls == lines \o HeaderLines(s, len, pend)
<1> DEFINE size == IF Sizes(ls) = {} THEN content_length_ ELSE Declared(ls)
<1> DEFINE c == content \o SubSeq(s, pend + 4, len)
<1> DEFINE ok == /\ LinesAccepted(ls) /\ \A i \in Sizes(ls) : ls[i] # NoSize
                 /\ Sizes(ls) # {} \/ bheader
                 /\ pend + 3 <= len
<1>1. \/ Refuse
      \/ ok /\ Len(c) >= size /\ Complete(ls, c)
      \/ /\ ok /\ Len(c) < size /\ Continue("content")
         /\ lines' = ls /\ bheader' = TRUE
         /\ content_length_' = size /\ content' = c
         /\ UNCHANGED m_httpheader
      BY DEF ParseHeader
<1>2. r \in Requests /\ Fits(r)
  <2>1. sent \in Seq(Requests) /\ delivered \in Seq(Requests) /\ Len(sent) \in DOMAIN sent
        BY DEF Inv, TypeInv, Waiting
  <2>q. QED
        BY <1>0, <2>1 DEF Current, Inv, TypeInv
<1>3. lines = <<>> /\ content = <<>> /\ (delivered # <<>> => ~bheader)
  <2>1. place = "start" \/ place = "header"
        BY DEF Inv, TypeInv
  <2>q. QED
        BY <2>1 DEF Inv, ReadInv
<1>4. content_length_ \in Nat
      BY DEF Inv, TypeInv
<1>5. CASE Refuse
      BY <1>5, RefuseInv
<1> DEFINE n == Len(r.lines)
<1> DEFINE m == len - 3 * n - 2
<1>6. ASSUME ok
      PROVE  /\ ls = r.lines /\ m \in 0 .. Len(r.content)
             /\ c \in Seq(Tokens) /\ Len(c) = m /\ c = SubSeq(r.content, 1, m)
             /\ 3 * n + 2 <= len
  <2>1. Begins(s, len, Bytes(r))
        BY <1>0
  <2>2. pend = 3 * n - 1 /\ 3 * n + 2 <= len
        BY <1>2, <1>6, <2>1, HeaderEnd
  <2>3. HeaderLines(s, len, pend) = r.lines
        BY <1>2, <2>1, <2>2, HeaderLinesAre
  <2>4. ls = r.lines
    <3>1. r.lines \in Seq(Tokens)
          BY <1>2, LinesAreTokens
    <3>q. QED
          BY <1>3, <2>3, <3>1
  <2> DEFINE d == SubSeq(s, pend + 4, len)
  <2>5. /\ m \in 0 .. Len(r.content) /\ d \in Seq(Tokens) /\ Len(d) = m
        /\ d = SubSeq(r.content, 1, m)
    <3> DEFINE e == SubSeq(s, (3 * n - 1) + 4, len)
    <3>1. /\ m \in 0 .. Len(r.content) /\ e \in Seq(Tokens) /\ Len(e) = m
          /\ e = SubSeq(r.content, 1, m)
          BY <1>2, <2>1, <2>2, ContentIs
    <3>2. d = e
          BY <2>2
    <3> HIDE DEF d, e, m
    <3>q. QED
          BY <3>1, <3>2
  <2>6. c = d
    <3> HIDE DEF d
    <3>1. <<>> \o d = d
          BY <2>5
    <3>q. QED
          BY <1>3, <3>1 DEF d
  <2>q. QED
        BY <2>2, <2>4, <2>5, <2>6
<1>7. ASSUME ok
      PROVE  /\ size \in Nat /\ (Sizes(r.lines) = {} => r.content = <<>>)
             /\ m >= size => m = Len(r.content)
             /\ m >= size /\ Sizes(r.lines) # {} => Declared(r.lines) = Len(r.content)
             /\ size = IF Sizes(r.lines) = {} THEN content_length_ ELSE Declared(r.lines)
             /\ LinesAccepted(r.lines) /\ \A i \in Sizes(r.lines) : r.lines[i] # NoSize
             /\ Sizes(r.lines) # {} \/ bheader
  <2>1. ls = r.lines /\ m \in 0 .. Len(r.content)
        BY <1>6, <1>7
  <2>2. /\ LinesAccepted(r.lines) /\ \A i \in Sizes(r.lines) : r.lines[i] # NoSize
        /\ Sizes(r.lines) # {} \/ bheader
        /\ size = IF Sizes(r.lines) = {} THEN content_length_ ELSE Declared(r.lines)
        BY <1>7, <2>1
  <2> HIDE DEF ls, ok, size, m
  <2>q. QED
        BY <1>2, <1>4, <2>1, <2>2, CompleteIs
<1>8. ASSUME ok
      PROVE  /\ Len(stream') = Len(r.content) - m
             /\ \A i \in 1 .. Len(r.content) - m : stream'[i] = r.content[m + i]
  <2>1. m \in 0 .. Len(r.content) /\ 3 * n + 2 <= len
        BY <1>6, <1>8
  <2>2. /\ Len(Bytes(r)) = 3 * n + 2 + Len(r.content)
        /\ \A i \in 1 .. Len(r.content) : Bytes(r)[3 * n + 2 + i] = r.content[i]
        BY <1>2, BytesFacts DEF OnWire
  <2>3. Rest(len, Bytes(r))
        BY <1>0
  <2>4. n \in Nat /\ Len(r.content) \in Nat /\ len \in Nat
        BY <1>2, LinesAreTokens
  <2>0. m \in Int /\ len = 3 * n + 2 + m
    <3>1. \A k \in Nat : len - 3 * k - 2 \in Int /\ len = 3 * k + 2 + (len - 3 * k - 2)
          OBVIOUS
    <3>q. QED
          BY <2>4, <3>1
  <2> HIDE DEF m, n
  <2>5. Len(Bytes(r)) - len = Len(r.content) - m
        BY <2>0, <2>2, <2>4
  <2>6. ASSUME NEW i \in 1 .. Len(r.content) - m PROVE stream'[i] = r.content[m + i]
    <3>1. m + i \in 1 .. Len(r.content) /\ len + i = 3 * n + 2 + (m + i)
          BY <2>0, <2>1, <2>4
    <3>2. stream'[i] = Bytes(r)[len + i]
          BY <2>3, <2>5 DEF Rest
    <3>q. QED
          BY <2>2, <3>1, <3>2
  <2>q. QED
        BY <2>3, <2>5, <2>6 DEF Rest
<1> HIDE DEF ls, ok, size, m, c
<1>9. r.content \in Seq(Tokens) /\ Len(r.content) \in Nat
      BY <1>2, LinesAreTokens
<1>10. CASE ok /\ Len(c) >= size /\ Complete(ls, c)
  <2>1. m = Len(r.content)
        BY <1>6, <1>7, <1>10
  <2>2. c = r.content
    <3>1. c = SubSeq(r.content, 1, Len(r.content))
          BY <1>6, <1>10, <2>1
    <3>q. QED
          BY <1>9, <3>1
  <2>3. stream' = <<>>
    <3>1. Len(stream') = 0 /\ stream' \in Seq(Tokens)
          BY <1>8, <1>9, <1>10, <2>1 DEF ReadFrame
    <3>q. QED
          BY <3>1
  <2>4. delivered # <<>> => Valid(r)
        BY <1>2, <1>3, <1>6, <1>7, <1>10, ValidIs
  <2>5. ls = r.lines
        BY <1>6, <1>10
  <2>q. QED
        BY <1>0, <1>10, <2>2, <2>3, <2>4, <2>5, CompleteInv
<1>11. CASE /\ ok /\ Len(c) < size /\ Continue("content")
            /\ lines' = ls /\ bheader' = TRUE
            /\ content_length_' = size /\ content' = c
            /\ UNCHANGED m_httpheader
  <2>1. /\ todo' = todo /\ sent' = sent /\ delivered' = delivered /\ refused' = refused
        /\ place' = "content" /\ lines' = r.lines /\ bheader' = TRUE
        /\ content_length_' = size /\ content' = c /\ m_httpheader' = m_httpheader
        /\ stream' \in Seq(Tokens) /\ m_buffer' \in [1 .. BufSize -> Tokens]
        BY <1>6, <1>11 DEF Continue, ReadFrame, peerVars
  <2>2. c \in Seq(Tokens) /\ size \in Nat /\ Len(c) < size
        BY <1>6, <1>7, <1>11
  <2>3. TypeInv'
        BY <2>1, <2>2 DEF Inv, TypeInv
  <2>4. PlaceInv'
        BY <2>1, <2>2 DEF PlaceInv
  <2>5. Waiting' /\ Current' = r
        BY <1>0, <2>1 DEF Waiting, Current
  <2>6. Awaited(r)'
        BY <1>3, <1>7, <1>11, <2>1 DEF Awaited
  <2>7. content' \o stream' = r.content
    <3> DEFINE z == c \o stream'
    <3>1. z \in Seq(Tokens) /\ Joined(c, stream', z)
          BY <2>1, <2>2, Joining
    <3>2. m \in 0 .. Len(r.content) /\ Len(c) = m /\ c = SubSeq(r.content, 1, m)
          BY <1>6, <1>11
    <3>3. \A i \in 1 .. m : c[i] = r.content[i]
          BY <1>9, <3>2, Cut
    <3>4. /\ Len(stream') = Len(r.content) - m
          /\ \A i \in 1 .. Len(r.content) - m : stream'[i] = r.content[m + i]
          BY <1>8, <1>11
    <3> HIDE DEF z
    <3>5. Len(z) = Len(r.content)
          BY <1>9, <3>1, <3>2, <3>4 DEF Joined
    <3>6. ASSUME NEW i \in 1 .. Len(z) PROVE z[i] = r.content[i]
      <4>1. CASE i <= m
        <5>1. i \in 1 .. m
              BY <3>2, <4>1
        <5>q. QED
              BY <3>1, <3>2, <3>3, <5>1 DEF Joined
      <4>2. CASE ~(i <= m)
        <5>1. i - m \in 1 .. Len(r.content) - m /\ m + (i - m) = i
              BY <1>9, <3>2, <3>5, <4>2
        <5>2. z[m + (i - m)] = stream'[i - m]
              BY <3>1, <3>2, <3>4, <5>1 DEF Joined
        <5>q. QED
              BY <3>4, <5>1, <5>2
      <4>q. QED
            BY <4>1, <4>2
    <3>7. z = r.content
          BY <1>9, <3>1, <3>5, <3>6, SameElements
    <3>q. QED
          BY <2>1, <3>7 DEF z
  <2>8. ReadInv'
        BY <2>1, <2>5, <2>6, <2>7 DEF ReadInv
  <2>9. DeliveredInv'
        BY <2>1 DEF Inv, DeliveredInv
  <2>q. QED
        BY <2>3, <2>4, <2>8, <2>9 DEF Inv
<1>q. QED
      BY <1>1, <1>5, <1>10, <1>11

\* A part of the header has been read.
LEMMA ParseMoreInv ==
  ASSUME Inv, ~refused, place # "content", Waiting, ReadFrame, NEW data \in Seq(Tokens),
         (m_httpheader \o data) \o stream' = Bytes(Current), ParseMore(data)
  PROVE  Inv'
<1> DEFINE h == m_httpheader \o data
<1>0. PICK r : r = Current
      OBVIOUS
<1>1. h \in Seq(Tokens) /\ stream' \in Seq(Tokens)
      BY DEF Inv, TypeInv, ReadFrame
<1>2. h \o stream' = Bytes(r)
      BY <1>0
<1>3. \/ /\ strstr(h) = 0 /\ Continue("header")
         /\ m_httpheader' = h /\ UNCHANGED requestVars
      \/ strstr(h) # 0 /\ ParseHeader(h, Len(h), strstr(h))
      BY DEF ParseMore
<1> HIDE DEF h
<1>4. Joined(h, stream', Bytes(r))
      BY <1>1, <1>2, Joining
<1>5. Len(h) \in Nat /\ Len(stream') \in Nat
      BY <1>1
<1>6. Begins(h, Len(h), Bytes(r)) /\ Rest(Len(h), Bytes(r))
  <2>1. Len(Bytes(r)) = Len(h) + Len(stream') /\ Len(Bytes(r)) - Len(h) = Len(stream')
        BY <1>4, <1>5 DEF Joined
  <2>q. QED
        BY <1>4, <1>5, <2>1 DEF Joined, Begins, Rest
<1>7. CASE strstr(h) # 0 /\ ParseHeader(h, Len(h), strstr(h))
      BY <1>0, <1>1, <1>5, <1>6, <1>7, ParseHeaderInv
<1>8. CASE /\ strstr(h) = 0 /\ Continue("header")
           /\ m_httpheader' = h /\ UNCHANGED requestVars
  <2>1. /\ UNCHANGED <<todo, sent, lines, bheader, content_length_, content, delivered, refused>>
        /\ place' = "header" /\ m_httpheader' = h
        /\ stream' \in Seq(Tokens) /\ m_buffer' \in [1 .. BufSize -> Tokens]
        BY <1>8 DEF Continue, ReadFrame, peerVars, requestVars
  <2>2. TypeInv'
        BY <1>1, <2>1 DEF Inv, TypeInv
  <2>3. PlaceInv'
        BY <1>8, <2>1 DEF PlaceInv
  <2>4. Waiting' /\ Current' = r
        BY <1>0, <2>1 DEF Waiting, Current
  <2>5. lines = <<>> /\ content = <<>> /\ (delivered # <<>> => ~bheader)
    <3>1. place = "start" \/ place = "header"
          BY DEF Inv, TypeInv
    <3>q. QED
          BY <3>1 DEF Inv, ReadInv
  <2>6. ReadInv'
        BY <1>2, <2>1, <2>4, <2>5 DEF ReadInv
  <2>7. DeliveredInv'
        BY <2>1 DEF Inv, DeliveredInv
  <2>q. QED
        BY <2>2, <2>3, <2>6, <2>7 DEF Inv
<1>q. QED
      BY <1>3, <1>7, <1>8

\* A part of the content has been read.
LEMMA ParseContentInv ==
  ASSUME Inv, ~refused, place = "content", ReadFrame, NEW data \in Seq(Tokens),
         (content \o data) \o stream' = Current.content, ParseContent(data)
  PROVE  Inv'
<1>0. PICK r : r = Current
      OBVIOUS
<1> DEFINE need == content_length_ - Len(content)
<1> DEFINE c == content \o (IF Len(data) < need THEN data ELSE SubSeq(data, 1, need))
<1> DEFINE d == content \o data
<1>1. \/ Len(c) >= content_length_ /\ Complete(lines, c)
      \/ /\ Len(c) < content_length_ /\ Continue("content")
         /\ content' = c
         /\ UNCHANGED <<m_httpheader, lines, bheader, content_length_>>
      BY DEF ParseContent
<1>2. Waiting /\ lines = r.lines /\ Awaited(r)
      BY <1>0 DEF Inv, ReadInv
<1>3. r \in Requests /\ Fits(r)
  <2>1. sent \in Seq(Requests) /\ delivered \in Seq(Requests) /\ Len(sent) \in DOMAIN sent
        BY <1>2 DEF Inv, TypeInv, Waiting
  <2>q. QED
        BY <1>0, <2>1 DEF Current, Inv, TypeInv
<1>4. /\ content \in Seq(Tokens) /\ content_length_ \in Nat /\ stream' \in Seq(Tokens)
      /\ Len(content) \in Nat /\ Len(data) \in Nat /\ Len(stream') \in Nat
      /\ Len(content) < content_length_
      BY DEF Inv, TypeInv, PlaceInv, ReadFrame
<1>5. d \in Seq(Tokens) /\ Joined(content, data, d)
      BY <1>4, Joining
<1>6. Joined(d, stream', r.content)
  <2> HIDE DEF d
  <2>1. Joined(d, stream', d \o stream')
        BY <1>4, <1>5, Joining
  <2>q. QED
        BY <1>0, <2>1 DEF d
<1>7. Len(r.content) = Len(content) + Len(data) + Len(stream')
  <2> HIDE DEF d
  <2>q. QED
        BY <1>4, <1>5, <1>6 DEF Joined
<1>8. LinesAccepted(r.lines) /\ \A i \in Sizes(r.lines) : r.lines[i] # NoSize
      BY <1>2 DEF Awaited
<1>9. /\ IF Sizes(r.lines) = {} THEN delivered = <<>> /\ Len(r.content) = 0
          ELSE content_length_ = Declared(r.lines)
      /\ Len(r.content) <= content_length_
  <2>1. r.content = <<>> => Len(r.content) = 0
        OBVIOUS
  <2>q. QED
        BY <1>2, <1>3, <1>4, <2>1 DEF Awaited, Fits
<1>10. c = d
  <2>1. Len(data) <= need /\ need \in Nat
        BY <1>4, <1>7, <1>9
  <2>2. ~(Len(data) < need) => SubSeq(data, 1, need) = data
    <3>1. ~(Len(data) < need) => need = Len(data)
      <4> HIDE DEF need
      <4>q. QED
            BY <1>4, <2>1
    <3>2. SubSeq(data, 1, Len(data)) = data
          OBVIOUS
    <3>q. QED
          BY <3>1, <3>2
  <2> HIDE DEF need
  <2>q. QED
        BY <2>2
<1> HIDE DEF c, d, need
<1>11. Len(d) = Len(content) + Len(data)
      BY <1>5 DEF Joined
<1>12. CASE Len(c) >= content_length_ /\ Complete(lines, c)
  <2>1. Len(stream') = 0 /\ Len(r.content) = content_length_ /\ Len(d) = Len(r.content)
    <3>1. Len(d) >= content_length_
          BY <1>10, <1>12
    <3>2. /\ Len(content) + Len(data) >= content_length_
          /\ Len(content) + Len(data) + Len(stream') <= content_length_
          BY <1>7, <1>9, <1>11, <3>1
    <3>3. Len(stream') = 0 /\ Len(content) + Len(data) = content_length_
      <4>1. \A x, y, z, w \in Nat : x + y >= w /\ x + y + z <= w => z = 0 /\ x + y = w
            OBVIOUS
      <4>q. QED
            BY <1>4, <3>2, <4>1
    <3>q. QED
          BY <1>4, <1>7, <1>11, <3>3
  <2>2. stream' = <<>>
        BY <1>4, <2>1
  <2>3. c = r.content
    <3>1. r.content \in Seq(Tokens)
          BY <1>3, LinesAreTokens
    <3>2. \A i \in 1 .. Len(d) : d[i] = r.content[i]
          BY <1>6 DEF Joined
    <3>q. QED
          BY <1>5, <1>10, <2>1, <3>1, <3>2, SameElements
  <2>4. delivered # <<>> => Valid(r)
        BY <1>3, <1>8, <1>9, <2>1, ValidIs
  <2>q. QED
        BY <1>0, <1>2, <1>12, <2>2, <2>3, <2>4, CompleteInv
<1>13. CASE /\ Len(c) < content_length_ /\ Continue("content")
            /\ content' = c
            /\ UNCHANGED <<m_httpheader, lines, bheader, content_length_>>
  <2>1. /\ UNCHANGED <<todo, sent, m_httpheader, lines, bheader, content_length_,
                       delivered, refused>>
        /\ place' = "content" /\ content' = d
        /\ stream' \in Seq(Tokens) /\ m_buffer' \in [1 .. BufSize -> Tokens]
        BY <1>10, <1>13 DEF Continue, ReadFrame, peerVars
  <2>2. TypeInv'
        BY <1>5, <2>1 DEF Inv, TypeInv
  <2>3. PlaceInv'
        BY <1>10, <1>13, <2>1 DEF PlaceInv
  <2>4. Waiting' /\ Current' = r
        BY <1>0, <1>2, <2>1 DEF Waiting, Current
  <2>5. Awaited(r)'
        BY <1>2, <2>1 DEF Awaited
  <2>6. content' \o stream' = r.content
        BY <1>0, <2>1 DEF d
  <2>7. ReadInv'
        BY <1>2, <2>1, <2>4, <2>5, <2>6 DEF ReadInv
  <2>8. DeliveredInv'
        BY <2>1 DEF Inv, DeliveredInv
  <2>q. QED
        BY <2>2, <2>3, <2>7, <2>8 DEF Inv
<1>q. QED
      BY <1>1, <1>12, <1>13

\* A read completes.
LEMMA HandleReadInv ==
  ASSUME Inv, NEW k \in 1 .. BufSize, HandleRead(k)
  PROVE  Inv'
<1> DEFINE data == SubSeq(stream, 1, k)
<1> DEFINE rest == SubSeq(stream, k + 1, Len(stream))
<1> DEFINE old == SubSeq(m_buffer, k + 1, BufSize)
<1> DEFINE buf == data \o old
<1>1. /\ ~refused /\ k <= Len(stream) /\ stream' = rest /\ m_buffer' = buf
      /\ \/ place = "start" /\ ParseStart(buf, k)
         \/ place = "header" /\ ParseMore(data)
         \/ place = "content" /\ ParseContent(data)
      /\ UNCHANGED peerVars
      BY DEF HandleRead
<1>2. /\ stream \in Seq(Tokens) /\ m_buffer \in [1 .. BufSize -> Tokens]
      /\ BufSize \in Nat /\ Len(stream) \in Nat /\ k \in 0 .. Len(stream)
      BY <1>1, BufferAssumption DEF Inv, TypeInv
<1>3. /\ data \in Seq(Tokens) /\ Len(data) = k /\ \A i \in 1 .. k : data[i] = stream[i]
      /\ rest \in Seq(Tokens) /\ Len(rest) = Len(stream) - k
      /\ \A i \in 1 .. Len(stream) - k : rest[i] = stream[k + i]
      BY <1>2, Cut
<1>4. old \in Seq(Tokens) /\ Len(old) = BufSize - k
  <2>1. m_buffer \in Seq(Tokens) /\ Len(m_buffer) = BufSize /\ k \in 0 .. Len(m_buffer)
        BY <1>2
  <2>2. /\ SubSeq(m_buffer, k + 1, Len(m_buffer)) \in Seq(Tokens)
        /\ Len(SubSeq(m_buffer, k + 1, Len(m_buffer))) = Len(m_buffer) - k
        BY <2>1, Cut
  <2>q. QED
        BY <2>1, <2>2
<1> HIDE DEF data, rest, old
<1>5. buf \in Seq(Tokens) /\ Joined(data, old, buf)
      BY <1>3, <1>4, Joining
<1> HIDE DEF buf
<1>6. Len(buf) = BufSize /\ \A i \in 1 .. k : buf[i] = data[i]
      BY <1>2, <1>3, <1>4, <1>5 DEF Joined
<1>7. ReadFrame
  <2>1. buf \in [1 .. BufSize -> Tokens]
        BY <1>5, <1>6
  <2>q. QED
        BY <1>1, <1>3, <2>1 DEF ReadFrame
<1>8. ASSUME NEW s \in Seq(Tokens) PROVE (s \o data) \o stream' = s \o stream
      BY <1>1, <1>2, Moved DEF data, rest
<1>9. CASE place = "content" /\ ParseContent(data)
  <2>1. content \in Seq(Tokens) /\ content \o stream = Current.content
        BY <1>1, <1>9 DEF Inv, TypeInv, ReadInv
  <2>q. QED
        BY <1>1, <1>3, <1>7, <1>8, <1>9, <2>1, ParseContentInv
<1>10. CASE place = "header" /\ ParseMore(data)
  <2>1. /\ m_httpheader \in Seq(Tokens) /\ m_httpheader \o stream = Bytes(Current)
        /\ Waiting
        BY <1>1, <1>10 DEF Inv, TypeInv, ReadInv
  <2>q. QED
        BY <1>1, <1>3, <1>7, <1>8, <1>10, <2>1, ParseMoreInv
<1>11. CASE place = "start" /\ ParseStart(buf, k)
  <2>0. PICK r : r = Current
        OBVIOUS
  <2>1. Waiting /\ m_httpheader = <<>> /\ stream = Bytes(r)
    <3>1. stream # <<>>
          BY <1>2
    <3>q. QED
          BY <1>1, <1>11, <2>0, <3>1 DEF Inv, ReadInv
  <2>2. Begins(buf, k, Bytes(r)) /\ Rest(k, Bytes(r))
        BY <1>1, <1>2, <1>3, <1>6, <2>1 DEF Begins, Rest
  <2>3. SubSeq(buf, 1, k) = data
    <3>1. k \in 0 .. Len(buf)
          BY <1>2, <1>6
    <3>2. /\ SubSeq(buf, 1, k) \in Seq(Tokens) /\ Len(SubSeq(buf, 1, k)) = k
          /\ \A i \in 1 .. k : SubSeq(buf, 1, k)[i] = buf[i]
          BY <1>5, <3>1, Cut
    <3>q. QED
          BY <1>3, <1>6, <3>2, SameElements
  <2>4. CASE strstr(buf) # 0 /\ ParseHeader(buf, k, strstr(buf))
        BY <1>1, <1>5, <1>7, <1>11, <2>0, <2>1, <2>2, <2>4, ParseHeaderInv
  <2>5. CASE ParseMore(data)
    <3>1. (m_httpheader \o data) \o stream' = Bytes(Current)
      <4>1. <<>> \in Seq(Tokens) /\ <<>> \o stream = stream
            BY <1>2
      <4>q. QED
            BY <1>8, <2>0, <2>1, <4>1
    <3>q. QED
          BY <1>1, <1>3, <1>7, <1>11, <2>1, <2>5, <3>1, ParseMoreInv
  <2>q. QED
        BY <1>11, <2>3, <2>4, <2>5 DEF ParseStart
<1>q. QED
      BY <1>1, <1>9, <1>10, <1>11

\* The invariant holds, for peers that wait.
THEOREM Invariance == ~Pipelined => (Spec => []Inv)
<1> SUFFICES ASSUME ~Pipelined PROVE Spec => []Inv
    OBVIOUS
<1>1. Init => Inv
      BY InitInv
<1>2. Inv /\ [Next]_vars => Inv'
  <2> SUFFICES ASSUME Inv, [Next]_vars PROVE Inv'
      OBVIOUS
  <2>1. CASE PeerSend
        BY <2>1, PeerSendInv
  <2>2. ASSUME NEW k \in 1 .. BufSize, HandleRead(k) PROVE Inv'
        BY <2>2, HandleReadInv
  <2>3. CASE UNCHANGED vars
    <3>1. /\ UNCHANGED <<todo, sent, stream, m_buffer, place, m_httpheader>>
          /\ UNCHANGED <<lines, bheader, content_length_, content, delivered, refused>>
          BY <2>3 DEF vars, peerVars, parserVars, requestVars
    <3>2. TypeInv'
          BY <3>1 DEF Inv, TypeInv
    <3>3. PlaceInv'
          BY <3>1 DEF Inv, PlaceInv
    <3>4. ReadInv'
          BY <3>1 DEF Inv, ReadInv, Waiting, Current, Awaited
    <3>5. DeliveredInv'
          BY <3>1 DEF Inv, DeliveredInv
    <3>q. QED
          BY <3>2, <3>3, <3>4, <3>5 DEF Inv
  <2>q. QED
        BY <2>1, <2>2, <2>3 DEF Next
<1>q. QED
      BY <1>1, <1>2, PTL DEF Spec

-----------------------------------------------------------------------------
(* What the run checks *)

\* Every variable has its type: in the middle of a header its end has not been
\* read, and in the middle of a content some of it is missing.
THEOREM TypeCorrect == ~Pipelined => (Spec => []TypeOK)
<1> SUFFICES ASSUME ~Pipelined PROVE Spec => []TypeOK
    OBVIOUS
<1>1. Inv => TypeOK
  <2> SUFFICES ASSUME Inv PROVE TypeOK
      OBVIOUS
  <2>1. Len(m_buffer) = BufSize
    <3>1. m_buffer \in [1 .. BufSize -> Tokens] /\ BufSize \in Nat
          BY BufferAssumption DEF Inv, TypeInv
    <3>q. QED
          BY <3>1
  <2>q. QED
        BY <2>1 DEF Inv, TypeInv, PlaceInv, TypeOK
<1>q. QED
      BY <1>1, Invariance, PTL

\* The requests given to the handlers are those that were sent, in order, however
\* the stream is cut and whatever the buffer held.
THEOREM DeliveredInOrder == ~Pipelined => (Spec => []DeliveredIsSent)
<1> SUFFICES ASSUME ~Pipelined PROVE Spec => []DeliveredIsSent
    OBVIOUS
<1>1. Inv => DeliveredIsSent
  <2> SUFFICES ASSUME Inv PROVE DeliveredIsSent
      OBVIOUS
  <2> DEFINE n == Len(delivered)
  <2>1. /\ delivered \in Seq(Requests) /\ sent \in Seq(Requests)
        /\ n \in Nat /\ n \in 0 .. n /\ n \in 0 .. Len(sent)
        BY DEF Inv, TypeInv, DeliveredInv
  <2>2. /\ SubSeq(delivered, 1, n) \in Seq(Requests) /\ Len(SubSeq(delivered, 1, n)) = n
        /\ \A i \in 1 .. n : SubSeq(delivered, 1, n)[i] = delivered[i]
        BY <2>1, Cut
  <2>3. /\ SubSeq(sent, 1, n) \in Seq(Requests) /\ Len(SubSeq(sent, 1, n)) = n
        /\ \A i \in 1 .. n : SubSeq(sent, 1, n)[i] = sent[i]
        BY <2>1, Cut
  <2>4. \A i \in 1 .. n : delivered[i] = sent[i]
        BY DEF Inv, DeliveredInv
  <2>5. SubSeq(delivered, 1, n) = SubSeq(sent, 1, n)
        BY <2>2, <2>3, <2>4, SameElements
  <2>q. QED
        BY <2>1, <2>5 DEF DeliveredIsSent, IsPrefix
<1>q. QED
      BY <1>1, Invariance, PTL

\* Between two requests the server has read what belongs to the delivered ones
\* and nothing of the next.
THEOREM ConsumedExactly == ~Pipelined => (Spec => []ConsumedIsExact)
<1> SUFFICES ASSUME ~Pipelined PROVE Spec => []ConsumedIsExact
    OBVIOUS
<1>1. Inv => ConsumedIsExact
  <2> SUFFICES ASSUME Inv, place = "start", ~refused
               PROVE  stream = FlattenSeq([i \in 1 .. Len(sent) - Len(delivered) |->
                                              Bytes(sent[Len(delivered) + i])])
      BY DEF ConsumedIsExact
  <2> DEFINE n == Len(delivered)
  <2> DEFINE q == [i \in 1 .. Len(sent) - n |-> Bytes(sent[n + i])]
  <2>1. sent \in Seq(Requests) /\ n \in Nat /\ Len(sent) \in Nat
        BY DEF Inv, TypeInv
  <2>2. CASE Len(sent) = n
    <3>1. ~Waiting /\ Len(sent) - n = 0
          BY <2>1, <2>2 DEF Waiting
    <3>2. q = <<>> /\ Len(q) = 0
      <4>1. 1 .. 0 = {}
            OBVIOUS
      <4>q. QED
            BY <3>1, <4>1
    <3>3. FlattenSeq(q) = <<>>
      <4> HIDE DEF q
      <4>q. QED
            BY <3>2 DEF FlattenSeq
    <3>4. stream = <<>>
          BY <3>1 DEF Inv, ReadInv
    <3>q. QED
          BY <3>3, <3>4
  <2>3. CASE Waiting
    <3>1. Len(sent) = n + 1 /\ Len(sent) - n = 1 /\ n + 1 \in DOMAIN sent
          BY <2>1, <2>3 DEF Waiting
    <3>2. sent[n + 1] \in Requests /\ Current = sent[n + 1]
          BY <2>1, <3>1 DEF Current
    <3>3. Bytes(Current) \in Seq(Tokens)
          BY <3>2, BytesFacts DEF OnWire
    <3>4. q = [i \in 1 .. 1 |-> Bytes(sent[n + i])]
          BY <3>1
    <3>5. q[1] = Bytes(Current)
      <4>0. 1 \in 1 .. Len(sent) - n
            BY <3>1
      <4>1. q[1] = Bytes(sent[n + 1])
            BY <4>0, Zenon
      <4>q. QED
            BY <3>2, <4>1
    <3>6. q \in Seq(Seq(Tokens)) /\ Len(q) = 1 /\ q # <<>>
      <4> DEFINE b == Bytes(Current)
      <4>1. \A i \in 1 .. 1 : Bytes(sent[n + i]) = b
            BY <3>2
      <4>2. q = [i \in 1 .. 1 |-> b]
            BY <3>4, <4>1
      <4> HIDE DEF b, q
      <4>q. QED
            BY <3>3, <4>2 DEF b
    <3> HIDE DEF q
    <3>7. FlattenSeq(q) = q[1]
      <4>1. PICK g : IsJoin(q, g, Len(q)) /\ FlattenSeq(q) = g[Len(q)]
            BY <3>6, FlattenIsJoin
      <4>q. QED
            BY <3>6, <4>1 DEF IsJoin
    <3>8. stream = Bytes(Current)
          BY <2>3 DEF Inv, ReadInv
    <3>q. QED
          BY <3>5, <3>7, <3>8 DEF q
  <2>q. QED
        BY <2>2, <2>3 DEF Inv, ReadInv
<1>q. QED
      BY <1>1, Invariance, PTL

\* From the second request of a connection on, only complete and valid requests
\* are delivered.
THEOREM LaterAreValid == ~Pipelined => (Spec => []LaterIsValid)
<1> SUFFICES ASSUME ~Pipelined PROVE Spec => []LaterIsValid
    OBVIOUS
<1>1. Inv => LaterIsValid
  <2> SUFFICES ASSUME Inv, NEW i \in DOMAIN delivered \ {1} PROVE Valid(delivered[i])
      BY DEF LaterIsValid
  <2>1. i \in 2 .. Len(delivered)
    <3>1. delivered \in Seq(Requests)
          BY DEF Inv, TypeInv
    <3>q. QED
          BY <3>1
  <2>q. QED
        BY <2>1 DEF Inv, DeliveredInv
<1>q. QED
      BY <1>1, Invariance, PTL
=============================================================================
