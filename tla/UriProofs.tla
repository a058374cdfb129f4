----------------------------- MODULE UriProofs -----------------------------
(***************************************************************************)
(* Which handler a uri leads to: what TrimUri leaves of a uri of any       *)
(* length, and which uris UrlDecode turns into the name of a handler.      *)
(***************************************************************************)
EXTENDS Dispatch, ListFacts

-----------------------------------------------------------------------------
(* UrlDecode *)

\* The characters of a decoded uri.
Characters == STRING \cup {" ", "/", "control", "bad"}

\* What UrlDecode makes of u from place i on, if f is what it makes of the rest.
Decoding(u, f, i) ==
    IF i > Len(u) THEN <<>>
    ELSE IF u[i] # "%" THEN <<IF u[i] = "+" THEN " " ELSE u[i]>> \o f[i + 1]
    ELSE IF i + 2 > Len(u) THEN <<"bad">>
    ELSE <<Unescaped(u[i + 1], u[i + 2])>> \o f[i + 3]

\* f is what UrlDecode makes of u from every place of lo .. Len(u) + 1 on.
Decodes(u, f, lo) ==
    /\ f = [i \in lo .. Len(u) + 1 |-> f[i]]
    /\ \A i \in lo .. Len(u) + 1 : f[i] = Decoding(u, f, i)

\* There is such an f ...
LEMMA DecodesExists ==
  ASSUME NEW u \in Seq(STRING)
  PROVE  \E f : Decodes(u, f, 1)
<1> DEFINE n == Len(u)
<1> DEFINE H == {m \in 0 .. n : \E f : Decodes(u, f, n + 1 - m)}
<1>1. n \in Nat
      OBVIOUS
<1>2. 0 \in H
  <2> DEFINE f == [i \in n + 1 .. n + 1 |-> <<>>]
  <2>1. n + 1 - 0 = n + 1 /\ 0 \in 0 .. n
        BY <1>1
  <2>2. f = [i \in n + 1 .. n + 1 |-> f[i]]
        OBVIOUS
  <2>3. ASSUME NEW i \in n + 1 .. n + 1 PROVE f[i] = Decoding(u, f, i)
    <3>1. i > Len(u)
          BY <1>1
    <3>q. QED
          BY <3>1 DEF Decoding
  <2>4. Decodes(u, f, n + 1)
        BY <2>2, <2>3 DEF Decodes
  <2>q. QED
        BY <2>1, <2>4
<1>3. ASSUME NEW m \in 1 .. n, m - 1 \in H PROVE m \in H
  <2> DEFINE lo == n + 1 - m
  <2>1. n + 1 - (m - 1) = lo + 1 /\ lo \in 1 .. n
        BY <1>1
  <2>2. PICK g : Decodes(u, g, lo + 1)
        BY <1>3, <2>1
  <2> DEFINE f == [i \in lo .. n + 1 |-> IF i = lo THEN Decoding(u, g, lo) ELSE g[i]]
  <2> HIDE DEF lo
  <2>3. f = [i \in lo .. n + 1 |-> f[i]]
        OBVIOUS
  <2>4. \A i \in lo + 1 .. n + 1 : f[i] = g[i]
    <3>1. \A i \in lo + 1 .. n + 1 : i \in lo .. n + 1 /\ i # lo
          BY <1>1, <2>1
    <3>q. QED
          BY <3>1
  <2>5. f[lo] = Decoding(u, g, lo)
    <3>1. lo \in lo .. n + 1
          BY <1>1, <2>1
    <3>q. QED
          BY <3>1
  <2>6. \A i \in lo .. n + 1 : i = lo \/ i \in lo + 1 .. n + 1
        BY <1>1, <2>1
  <2> HIDE DEF f
  <2>7. ASSUME NEW i \in lo .. n + 1 PROVE Decoding(u, f, i) = Decoding(u, g, i)
    <3>1. CASE i > n
          BY <3>1 DEF Decoding
    <3>2. CASE i <= n
      <4>1. i \in Int /\ i + 1 \in lo + 1 .. n + 1
            BY <1>1, <2>1, <3>2
      <4>2. i + 2 <= n => i + 3 \in lo + 1 .. n + 1
            BY <1>1, <2>1, <3>2
      <4>3. f[i + 1] = g[i + 1] /\ (i + 2 <= n => f[i + 3] = g[i + 3])
            BY <2>4, <4>1, <4>2
      <4>4. ~(i + 2 > n) => i + 2 <= n
            BY <1>1, <4>1
      <4>q. QED
            BY <4>3, <4>4 DEF Decoding
    <3>q. QED
          BY <1>1, <2>1, <3>1, <3>2
  <2>8. ASSUME NEW i \in lo .. n + 1 PROVE f[i] = Decoding(u, f, i)
    <3>1. CASE i = lo
          BY <2>5, <2>7, <3>1
    <3>2. CASE i \in lo + 1 .. n + 1
      <4>1. g[i] = Decoding(u, g, i)
            BY <2>2, <3>2 DEF Decodes
      <4>q. QED
            BY <2>4, <2>7, <3>2, <4>1
    <3>q. QED
          BY <2>6, <3>1, <3>2
  <2>9. Decodes(u, f, lo)
        BY <2>3, <2>8 DEF Decodes
  <2>q. QED
        BY <2>9 DEF lo
<1> HIDE DEF H
<1>4. n \in H
  <2>1. \A k \in 0 .. n : k \in H
        BY <1>1, <1>2, <1>3, Induction
  <2>q. QED
        BY <1>1, <2>1
<1>5. PICK f : Decodes(u, f, n + 1 - n)
      BY <1>4 DEF H
<1>6. n + 1 - n = 1
      BY <1>1
<1>q. QED
      BY <1>5, <1>6

\* ... and UrlDecode returns what it is for the first place.
LEMMA UrlDecodeIs ==
  ASSUME NEW u \in Seq(STRING)
  PROVE  \E f : Decodes(u, f, 1) /\ UrlDecode(u) = f[1]
<1> DEFINE P(f) == f = [i \in 1 .. Len(u) + 1 |->
            IF i > Len(u) THEN <<>>
            ELSE IF u[i] # "%" THEN <<IF u[i] = "+" THEN " " ELSE u[i]>> \o f[i + 1]
            ELSE IF i + 2 > Len(u) THEN <<"bad">>
            ELSE <<Unescaped(u[i + 1], u[i + 2])>> \o f[i + 3]]
<1> DEFINE f == CHOOSE f : P(f)
<1>1. PICK g : Decodes(u, g, 1)
      BY DecodesExists
<1>2. g = [i \in 1 .. Len(u) + 1 |-> Decoding(u, g, i)]
  <2>1. \A i \in 1 .. Len(u) + 1 : g[i] = Decoding(u, g, i)
        BY <1>1 DEF Decodes
  <2>2. g = [i \in 1 .. Len(u) + 1 |-> g[i]]
        BY <1>1 DEF Decodes
  <2>q. QED
        BY <2>1, <2>2, Zenon
<1>3. P(g)
      BY <1>2, Zenon DEF Decoding
<1>4. P(f)
      BY <1>3, Zenon
<1>5. UrlDecode(u) = f[1]
      BY Zenon DEF UrlDecode
<1>6. f = [i \in 1 .. Len(u) + 1 |-> Decoding(u, f, i)]
  <2> HIDE DEF f
  <2>q. QED
        BY <1>4, Zenon DEF Decoding
<1> HIDE DEF f
<1>7. \A i \in 1 .. Len(u) + 1 : f[i] = Decoding(u, f, i)
      BY <1>6, Zenon
<1>8. f = [i \in 1 .. Len(u) + 1 |-> f[i]]
      BY <1>6, <1>7, Zenon
<1>q. QED
      BY <1>5, <1>7, <1>8 DEF Decodes

\* One token and what follows it.
LEMMA TokenFirst ==
  ASSUME NEW S, NEW x \in S, NEW t \in Seq(S)
  PROVE  /\ <<x>> \o t \in Seq(S) /\ Len(t) \in Nat /\ Len(<<x>> \o t) = 1 + Len(t)
         /\ (<<x>> \o t)[1] = x
         /\ \A i \in 1 .. Len(t) : (<<x>> \o t)[1 + i] = t[i]
<1>1. Len(t) \in Nat
      OBVIOUS
<1>2. <<x>> \o t \in Seq(S) /\ Len(<<x>> \o t) = 1 + Len(t)
      OBVIOUS
<1>3. (<<x>> \o t)[1] = x
      OBVIOUS
<1>4. \A i \in 1 .. Len(t) : (<<x>> \o t)[1 + i] = t[i]
      OBVIOUS
<1>q. QED
      BY <1>1, <1>2, <1>3, <1>4

\* If one token and what follows make up a name, nothing follows; ...
LEMMA ConsOne ==
  ASSUME NEW S, NEW x \in S, NEW t \in Seq(S), NEW a, <<x>> \o t = <<a>>
  PROVE  x = a /\ Len(t) = 0
<1> DEFINE s == <<x>> \o t
<1>1. Len(s) = 1 + Len(t) /\ s[1] = x /\ Len(t) \in Nat
      BY TokenFirst
<1>2. Len(<<a>>) = 1 /\ <<a>>[1] = a
      OBVIOUS
<1>3. s = <<a>>
      OBVIOUS
<1> HIDE DEF s
<1>q. QED
      BY <1>1, <1>2, <1>3

\* ... if they make up two tokens, the second follows.
LEMMA ConsTwo ==
  ASSUME NEW S, NEW x \in S, NEW t \in Seq(S), NEW a, NEW b, <<x>> \o t = <<b, a>>
  PROVE  x = b /\ t = <<a>>
<1> DEFINE s == <<x>> \o t
<1>1. /\ Len(s) = 1 + Len(t) /\ s[1] = x /\ Len(t) \in Nat
      /\ \A i \in 1 .. Len(t) : s[1 + i] = t[i]
      BY TokenFirst
<1>2. Len(<<b, a>>) = 2 /\ <<b, a>>[1] = b /\ <<b, a>>[2] = a
      OBVIOUS
<1>3. s = <<b, a>>
      OBVIOUS
<1> HIDE DEF s
<1>4. Len(t) = 1 /\ x = b
      BY <1>1, <1>2, <1>3
<1>5. t[1] = a
  <2>1. 1 \in 1 .. Len(t) /\ 1 + 1 = 2
        BY <1>4
  <2>q. QED
        BY <1>1, <1>2, <1>3, <2>1
<1>q. QED
      BY <1>4, <1>5

\* Names of handlers are none of the characters.
LEMMA NameIs ==
  ASSUME NEW a \in Apis
  PROVE  /\ a # "/" /\ a # "?" /\ a # "%" /\ a # "+" /\ a # " " /\ a # "http://"
         /\ a # "control" /\ a # "bad"
  BY NamesAssumption

\* What an escape stands for.
LEMMA UnescapedIs ==
  ASSUME NEW x, NEW y
  PROVE  /\ Unescaped(x, y) \in {"/", "control", "bad"}
         /\ Unescaped(x, y) = "/" => x = "2" /\ y = "F"
  BY DEF Unescaped

\* The tokens of a uri are characters of a decoded one.
LEMMA Tokens ==
  ASSUME NEW u \in Seq(STRING)
  PROVE  Len(u) \in Nat /\ \A i \in 1 .. Len(u) : u[i] \in STRING /\ u[i] \in Characters
<1>1. Len(u) \in Nat /\ \A i \in 1 .. Len(u) : u[i] \in STRING
      OBVIOUS
<1>2. STRING \subseteq Characters
      BY Zenon DEF Characters
<1>q. QED
      BY <1>1, <1>2

\* From every place on something is decoded, until the end.
LEMMA DecodedTyped ==
  ASSUME NEW u \in Seq(STRING), NEW f, Decodes(u, f, 1)
  PROVE  \A i \in 1 .. Len(u) + 1 :
            /\ f[i] \in Seq(Characters)
            /\ i <= Len(u) => Len(f[i]) >= 1
            /\ i > Len(u) => f[i] = <<>>
<1> DEFINE n == Len(u)
<1> DEFINE Good(i) == /\ f[i] \in Seq(Characters) /\ (i <= n => Len(f[i]) >= 1)
                      /\ i > n => f[i] = <<>>
<1> DEFINE H == {m \in 0 .. n : \A j \in 0 .. m : Good(n + 1 - j)}
<1>1. n \in Nat /\ \A i \in 1 .. n : u[i] \in Characters
      BY Tokens
<1>2. \A i \in 1 .. n + 1 : f[i] = Decoding(u, f, i)
      BY DEF Decodes
<1>3. 0 \in H
  <2>1. n + 1 \in 1 .. n + 1 /\ n + 1 > n /\ ~(n + 1 <= n)
        BY <1>1
  <2>2. f[n + 1] = <<>>
        BY <1>2, <2>1 DEF Decoding
  <2>3. Good(n + 1)
        BY <2>1, <2>2
  <2>4. \A j \in 0 .. 0 : n + 1 - j = n + 1
        BY <1>1
  <2> HIDE DEF Good
  <2>q. QED
        BY <1>1, <2>3, <2>4
<1>4. ASSUME NEW m \in 1 .. n, m - 1 \in H PROVE m \in H
  <2> DEFINE i == n + 1 - m
  <2>1. \A j \in 0 .. m - 1 : Good(n + 1 - j)
        BY <1>4
  <2>2. i \in 1 .. n /\ i \in 1 .. n + 1 /\ ~(i > n)
        BY <1>1
  <2>3. ASSUME NEW k \in i + 1 .. n + 1 PROVE f[k] \in Seq(Characters)
    <3>1. n + 1 - k \in 0 .. m - 1 /\ n + 1 - (n + 1 - k) = k
          BY <1>1
    <3>q. QED
          BY <2>1, <3>1
  <2> HIDE DEF i
  <2>4. Good(i)
    <3>1. CASE u[i] # "%"
      <4> DEFINE x == IF u[i] = "+" THEN " " ELSE u[i]
      <4>1. x \in Characters
            BY <1>1, <2>2 DEF Characters
      <4>2. i + 1 \in i + 1 .. n + 1
            BY <1>1, <2>2
      <4>3. f[i + 1] \in Seq(Characters)
            BY <2>3, <4>2
      <4>4. f[i] = <<x>> \o f[i + 1]
            BY <1>2, <2>2, <3>1 DEF Decoding
      <4> HIDE DEF x
      <4>5. f[i] \in Seq(Characters) /\ Len(f[i]) = 1 + Len(f[i + 1])
            BY <4>1, <4>3, <4>4, TokenFirst
      <4>q. QED
            BY <2>2, <4>3, <4>5
    <3>2. CASE u[i] = "%" /\ i + 2 > n
      <4>1. f[i] = <<"bad">>
            BY <1>2, <2>2, <3>2 DEF Decoding
      <4>2. "bad" \in Characters
            BY DEF Characters
      <4>q. QED
            BY <2>2, <4>1, <4>2
    <3>3. CASE u[i] = "%" /\ ~(i + 2 > n)
      <4> DEFINE x == Unescaped(u[i + 1], u[i + 2])
      <4>1. x \in Characters
        <5>1. x \in {"/", "control", "bad"}
              BY UnescapedIs
        <5> HIDE DEF x
        <5>q. QED
              BY <5>1 DEF Characters
      <4>2. i + 3 \in i + 1 .. n + 1
            BY <1>1, <2>2, <3>3
      <4>3. f[i + 3] \in Seq(Characters)
            BY <2>3, <4>2
      <4>4. f[i] = <<x>> \o f[i + 3]
            BY <1>2, <2>2, <3>3 DEF Decoding
      <4> HIDE DEF x
      <4>5. f[i] \in Seq(Characters) /\ Len(f[i]) = 1 + Len(f[i + 3])
            BY <4>1, <4>3, <4>4, TokenFirst
      <4>q. QED
            BY <2>2, <4>3, <4>5
    <3>q. QED
          BY <3>1, <3>2, <3>3
  <2> HIDE DEF Good
  <2>5. ASSUME NEW j \in 0 .. m PROVE Good(n + 1 - j)
    <3>1. j = m \/ j \in 0 .. m - 1
          OBVIOUS
    <3>q. QED
          BY <2>1, <2>4, <3>1 DEF i
  <2>q. QED
        BY <2>5
<1>5. ASSUME NEW i \in 1 .. n + 1 PROVE Good(i)
  <2> HIDE DEF H, Good
  <2>1. \A k \in 0 .. n : k \in H
        BY <1>1, <1>3, <1>4, Induction
  <2>2. n \in H
        BY <1>1, <2>1
  <2>3. \A j \in 0 .. n : Good(n + 1 - j)
        BY <2>2 DEF H
  <2>4. n + 1 - i \in 0 .. n /\ n + 1 - (n + 1 - i) = i
        BY <1>1
  <2>q. QED
        BY <2>3, <2>4
<1>q. QED
      BY <1>5

\* From place i on, f has only the name a.
EndsIn(u, f, i, a) == i \in 1 .. Len(u) + 1 /\ f[i] = <<a>>

\* Only a name decodes to a name.
LEMMA NameLast ==
  ASSUME NEW u \in Seq(STRING), NEW f, Decodes(u, f, 1), NEW a \in Apis,
         NEW i, EndsIn(u, f, i, a)
  PROVE  i = Len(u) /\ u[i] = a
<1> USE DEF EndsIn
<1> DEFINE n == Len(u)
<1>1. n \in Nat /\ \A k \in 1 .. n : u[k] \in Characters
      BY Tokens
<1>2. \A k \in 1 .. n + 1 :
         /\ f[k] = Decoding(u, f, k) /\ f[k] \in Seq(Characters)
         /\ k <= n => Len(f[k]) >= 1
         /\ k > n => f[k] = <<>>
      BY DecodedTyped DEF Decodes
<1>3. /\ a # "%" /\ a # "+" /\ a # " " /\ a # "/" /\ a # "control" /\ a # "bad"
      BY NameIs
<1>4. Len(<<a>>) = 1 /\ Len(<<>>) = 0 /\ <<a>>[1] = a
      OBVIOUS
<1>5. i \in 1 .. n /\ ~(i > n)
  <2>1. ASSUME i > n PROVE FALSE
    <3>1. f[i] = <<>>
          BY <1>2, <2>1
    <3>2. <<a>> = <<>>
          BY <3>1
    <3>q. QED
          BY <1>4, <3>2
  <2>q. QED
        BY <1>1, <2>1
<1>6. CASE u[i] # "%"
  <2> DEFINE x == IF u[i] = "+" THEN " " ELSE u[i]
  <2>1. x \in Characters
        BY <1>1, <1>5 DEF Characters
  <2>2. i + 1 \in 1 .. n + 1
        BY <1>1, <1>5
  <2>3. f[i + 1] \in Seq(Characters)
        BY <1>2, <2>2
  <2>4. <<x>> \o f[i + 1] = <<a>>
        BY <1>2, <1>5, <1>6 DEF Decoding
  <2>5. x = a /\ Len(f[i + 1]) = 0
    <3> HIDE DEF x
    <3>q. QED
          BY <2>1, <2>3, <2>4, ConsOne
  <2>6. ASSUME i + 1 <= n PROVE FALSE
    <3>1. Len(f[i + 1]) >= 1
          BY <1>2, <2>2, <2>6
    <3>2. Len(f[i + 1]) = 0
          BY <2>5
    <3>q. QED
          BY <3>1, <3>2
  <2>7. i = n
        BY <1>1, <1>5, <2>6
  <2>8. u[i] = a
        BY <1>3, <2>5
  <2>q. QED
        BY <2>7, <2>8
<1>7. CASE u[i] = "%" /\ i + 2 > n
  <2>1. f[i] = <<"bad">> /\ <<"bad">>[1] = "bad"
        BY <1>2, <1>5, <1>7 DEF Decoding
  <2>q. QED
        BY <1>3, <1>4, <2>1
<1>8. CASE u[i] = "%" /\ ~(i + 2 > n)
  <2> DEFINE x == Unescaped(u[i + 1], u[i + 2])
  <2>1. x \in {"/", "control", "bad"}
        BY UnescapedIs
  <2>2. i + 3 \in 1 .. n + 1
        BY <1>1, <1>5, <1>8
  <2>3. f[i + 3] \in Seq(Characters)
        BY <1>2, <2>2
  <2>4. <<x>> \o f[i + 3] = <<a>>
        BY <1>2, <1>5, <1>8 DEF Decoding
  <2>5. x = a
    <3> HIDE DEF x
    <3>1. x \in Characters
          BY <2>1 DEF Characters
    <3>q. QED
          BY <2>3, <2>4, <3>1, ConsOne
  <2> HIDE DEF x
  <2>q. QED
        BY <1>3, <2>1, <2>5
<1>q. QED
      BY <1>6, <1>7, <1>8

\* What decodes to a name is the name, alone or after a slash or its escape.
LEMMA DecodedName ==
  ASSUME NEW u \in Seq(STRING), NEW a \in Apis,
         UrlDecode(u) = <<a>> \/ UrlDecode(u) = <<"/", a>>
  PROVE  \/ u = <<a>>
         \/ u = <<"/", a>> /\ UrlDecode(u) = <<"/", a>>
         \/ u = <<"%", "2", "F", a>> /\ UrlDecode(u) = <<"/", a>>
<1> DEFINE n == Len(u)
<1>1. PICK f : Decodes(u, f, 1) /\ UrlDecode(u) = f[1]
      BY UrlDecodeIs
<1>2. n \in Nat /\ \A k \in 1 .. n : u[k] \in Characters
      BY Tokens
<1>3. \A k \in 1 .. n + 1 :
         /\ f[k] = Decoding(u, f, k) /\ f[k] \in Seq(Characters)
         /\ k > n => f[k] = <<>>
      BY <1>1, DecodedTyped DEF Decodes
<1>4. CASE f[1] = <<a>>
  <2>1. 1 \in 1 .. n + 1
        BY <1>2
  <2>2. EndsIn(u, f, 1, a)
        BY <1>4, <2>1 DEF EndsIn
  <2>3. 1 = n /\ u[1] = a
        BY <1>1, <2>2, NameLast
  <2>q. QED
        BY <2>3
<1>5. CASE f[1] = <<"/", a>>
  <2>1. 1 \in 1 .. n /\ 1 \in 1 .. n + 1 /\ ~(1 > n)
    <3>1. ASSUME 1 > n PROVE FALSE
      <4>1. 1 \in 1 .. n + 1
            BY <1>2
      <4>2. <<"/", a>> = <<>>
            BY <1>3, <1>5, <3>1, <4>1
      <4>q. QED
            BY <4>2
    <3>q. QED
          BY <1>2, <3>1
  <2>2. CASE u[1] # "%"
    <3> DEFINE x == IF u[1] = "+" THEN " " ELSE u[1]
    <3>1. x \in Characters
          BY <1>2, <2>1 DEF Characters
    <3>2. 1 + 1 \in 1 .. n + 1 /\ 1 + 1 = 2
          BY <1>2, <2>1
    <3>3. f[1 + 1] \in Seq(Characters)
          BY <1>3, <3>2
    <3>4. <<x>> \o f[1 + 1] = <<"/", a>>
          BY <1>3, <1>5, <2>1, <2>2 DEF Decoding
    <3>5. x = "/" /\ f[1 + 1] = <<a>>
      <4> HIDE DEF x
      <4>q. QED
            BY <3>1, <3>3, <3>4, ConsTwo
    <3>6. u[1] = "/"
          BY <3>5
    <3>7. 2 = n /\ u[2] = a
      <4>1. EndsIn(u, f, 2, a)
            BY <3>2, <3>5 DEF EndsIn
      <4>q. QED
            BY <1>1, <4>1, NameLast
    <3>8. u = <<"/", a>>
          BY <3>6, <3>7
    <3>q. QED
          BY <1>1, <1>5, <3>8
  <2>3. CASE u[1] = "%" /\ 1 + 2 > n
    <3>1. f[1] = <<"bad">>
          BY <1>3, <2>1, <2>3 DEF Decoding
    <3>2. <<"bad">>[1] = "bad" /\ <<"/", a>>[1] = "/"
          OBVIOUS
    <3>q. QED
          BY <1>5, <3>1, <3>2
  <2>4. CASE u[1] = "%" /\ ~(1 + 2 > n)
    <3> DEFINE x == Unescaped(u[1 + 1], u[1 + 2])
    <3>1. x \in {"/", "control", "bad"} /\ (x = "/" => u[1 + 1] = "2" /\ u[1 + 2] = "F")
          BY UnescapedIs
    <3>2. 1 + 3 \in 1 .. n + 1 /\ 1 + 3 = 4 /\ 1 + 1 = 2 /\ 1 + 2 = 3
          BY <1>2, <2>1, <2>4
    <3>3. f[1 + 3] \in Seq(Characters)
          BY <1>3, <3>2
    <3>4. <<x>> \o f[1 + 3] = <<"/", a>>
          BY <1>3, <1>5, <2>1, <2>4 DEF Decoding
    <3> HIDE DEF x
    <3>5. x = "/" /\ f[1 + 3] = <<a>>
      <4>1. x \in Characters
            BY <3>1 DEF Characters
      <4>q. QED
            BY <3>3, <3>4, <4>1, ConsTwo
    <3>6. u[2] = "2" /\ u[3] = "F"
          BY <3>1, <3>2, <3>5
    <3>7. 4 = n /\ u[4] = a
      <4>1. EndsIn(u, f, 4, a)
            BY <3>2, <3>5 DEF EndsIn
      <4>q. QED
            BY <1>1, <4>1, NameLast
    <3>8. u = <<"%", "2", "F", a>>
          BY <2>4, <3>6, <3>7
    <3>q. QED
          BY <1>1, <1>5, <3>8
  <2>q. QED
        BY <2>2, <2>3, <2>4
<1>q. QED
      BY <1>1, <1>4, <1>5

\* A name decodes to itself.
LEMMA NameDecoded ==
  ASSUME NEW u \in Seq(STRING), NEW a \in Apis, u = <<a>>
  PROVE  UrlDecode(u) = <<a>>
<1>1. PICK f : Decodes(u, f, 1) /\ UrlDecode(u) = f[1]
      BY UrlDecodeIs
<1>2. Len(u) = 1 /\ u[1] = a /\ a # "%" /\ a # "+"
      BY NameIs
<1>3. 1 \in 1 .. Len(u) + 1 /\ 2 \in 1 .. Len(u) + 1 /\ 2 > Len(u) /\ ~(1 > Len(u)) /\ 1 + 1 = 2
      BY <1>2
<1>4. f[2] = <<>>
      BY <1>1, <1>3 DEF Decodes, Decoding
<1>5. f[1] = <<a>> \o <<>>
  <2>1. f[1] = Decoding(u, f, 1)
        BY <1>1, <1>3 DEF Decodes
  <2>2. Decoding(u, f, 1) = <<u[1]>> \o f[1 + 1]
        BY <1>2, <1>3 DEF Decoding
  <2>q. QED
        BY <1>2, <1>3, <1>4, <2>1, <2>2
<1>q. QED
      BY <1>1, <1>5

-----------------------------------------------------------------------------
(* TrimUri *)

\* What CutAfterFirst leaves of a sequence.
LEMMA CutAfterFirstIs ==
  ASSUME NEW s \in Seq(STRING), s # <<>>, NEW c
  PROVE  \E m \in 1 .. Len(s) :
            /\ CutAfterFirst(s, c) = SubSeq(s, 1, m)
            /\ s[1] # c => \A i \in 1 .. m : s[i] # c
            /\ m = Len(s) \/ (s[1] # c /\ s[m + 1] = c)
<1> DEFINE n == Len(s)
<1> DEFINE I == {i \in 1 .. n : s[i] = c}
<1>1. n \in Nat /\ n >= 1 /\ SubSeq(s, 1, n) = s /\ n \in 1 .. n
      OBVIOUS
<1>2. CASE s[1] = c
  <2>1. CutAfterFirst(s, c) = s
        BY <1>2 DEF CutAfterFirst
  <2>q. QED
        BY <1>1, <1>2, <2>1
<1>3. CASE s[1] # c /\ I = {}
  <2>1. ~Contains(s, c)
        BY <1>3 DEF Contains
  <2>2. CutAfterFirst(s, c) = s
        BY <2>1 DEF CutAfterFirst
  <2>q. QED
        BY <1>1, <1>3, <2>2
<1>4. CASE s[1] # c /\ I # {}
  <2> DEFINE j == Min(I)
  <2>1. j \in I /\ \A i \in I : j <= i
    <3>1. I \in SUBSET Nat
          BY <1>1
    <3>2. \E i \in I : \A k \in I : i <= k
          BY <1>4, <3>1, LeastNumber
    <3> HIDE DEF I
    <3>q. QED
          BY <3>2 DEF Min
  <2>2. Contains(s, c)
        BY <1>4 DEF Contains
  <2>3. SelectInSeq(s, LAMBDA x : x = c) = j
        BY <1>4 DEF SelectInSeq
  <2>4. CutAfterFirst(s, c) = SubSeq(s, 1, j - 1)
        BY <1>4, <2>2, <2>3 DEF CutAfterFirst
  <2> HIDE DEF j
  <2>5. j \in 1 .. n /\ s[j] = c /\ j # 1
        BY <1>4, <2>1
  <2>6. j - 1 \in 1 .. n /\ j - 1 + 1 = j
        BY <1>1, <2>5
  <2>7. \A i \in 1 .. j - 1 : s[i] # c
        BY <1>1, <2>1, <2>5
  <2>q. QED
        BY <1>4, <2>4, <2>5, <2>6, <2>7
<1>q. QED
      BY <1>2, <1>3, <1>4

\* What TrimUri leaves of a uri that does not begin with a question mark: all
\* until the first question mark, or the first slash after the beginning.
LEMMA TrimIs ==
  ASSUME NEW v \in Seq(STRING), NEW w \in Seq(STRING), w = Stripped(v),
         w # <<>>, w[1] # "?"
  PROVE  \E m \in 1 .. Len(w) :
            /\ TrimUri(v) = SubSeq(w, 1, m)
            /\ \A i \in 1 .. m : w[i] # "?" /\ (w[1] # "/" => w[i] # "/")
            /\ m = Len(w) \/ w[m + 1] \in Separators
<1>1. PICK k \in 1 .. Len(w) :
         /\ CutAfterFirst(w, "?") = SubSeq(w, 1, k)
         /\ \A i \in 1 .. k : w[i] # "?"
         /\ k = Len(w) \/ w[k + 1] = "?"
      BY CutAfterFirstIs
<1> DEFINE s == SubSeq(w, 1, k)
<1>2. CutAt(Stripped(v), "?") = s
      BY <1>1 DEF CutAt
<1>3. k \in 0 .. Len(w) /\ Len(w) \in Nat
      OBVIOUS
<1>4. s \in Seq(STRING) /\ Len(s) = k /\ \A i \in 1 .. k : s[i] = w[i]
      BY <1>3, Cut
<1>5. s # <<>> /\ 1 \in 1 .. k
      BY <1>3, <1>4
<1>6. PICK m \in 1 .. k :
         /\ CutAfterFirst(s, "/") = SubSeq(s, 1, m)
         /\ s[1] # "/" => \A i \in 1 .. m : s[i] # "/"
         /\ m = k \/ (s[1] # "/" /\ s[m + 1] = "/")
  <2> HIDE DEF s
  <2>1. s \in Seq(STRING) /\ s # <<>>
        BY <1>4, <1>5
  <2>2. PICK m \in 1 .. Len(s) :
           /\ CutAfterFirst(s, "/") = SubSeq(s, 1, m)
           /\ s[1] # "/" => \A i \in 1 .. m : s[i] # "/"
           /\ m = Len(s) \/ (s[1] # "/" /\ s[m + 1] = "/")
        BY <2>1, CutAfterFirstIs
  <2>3. Len(s) = k
        BY <1>4
  <2>q. QED
        BY <2>2, <2>3
<1>7. TrimUri(v) = SubSeq(s, 1, m)
      BY <1>2, <1>6 DEF TrimUri
<1>8. m \in 1 .. Len(w) /\ \A i \in 1 .. m : i \in 1 .. k
      BY <1>3
<1>9. SubSeq(s, 1, m) = SubSeq(w, 1, m)
  <2>1. m \in 0 .. Len(s) /\ m \in 0 .. Len(w)
        BY <1>3, <1>4
  <2> DEFINE x == SubSeq(s, 1, m)
  <2> DEFINE y == SubSeq(w, 1, m)
  <2>2. x \in Seq(STRING) /\ Len(x) = m /\ \A i \in 1 .. m : x[i] = s[i]
    <3> HIDE DEF s
    <3>q. QED
          BY <1>4, <2>1, Cut
  <2>3. y \in Seq(STRING) /\ Len(y) = m /\ \A i \in 1 .. m : y[i] = w[i]
        BY <2>1, Cut
  <2> HIDE DEF x, y, s
  <2>4. \A i \in 1 .. m : x[i] = y[i]
        BY <1>4, <1>8, <2>2, <2>3
  <2>5. x = y
        BY <2>2, <2>3, <2>4, SameElements
  <2>q. QED
        BY <2>5 DEF x, y
<1> HIDE DEF s
<1>10. \A i \in 1 .. m : w[i] # "?" /\ (w[1] # "/" => w[i] # "/")
      BY <1>1, <1>4, <1>5, <1>6, <1>8
<1>11. m = Len(w) \/ w[m + 1] \in Separators
  <2>1. CASE m = k
        BY <1>1, <2>1 DEF Separators
  <2>2. CASE m # k
    <3>1. m + 1 \in 1 .. k
          BY <1>3, <2>2
    <3>q. QED
          BY <1>4, <1>6, <2>2, <3>1 DEF Separators
  <2>q. QED
        BY <2>1, <2>2
<1>q. QED
      BY <1>7, <1>8, <1>9, <1>10, <1>11

-----------------------------------------------------------------------------
(* The first segment *)

\* The tokens of a uri that Stripped keeps.
Kept(v) == {i \in DOMAIN v : v[i] # "http://"}

\* What Stripped returns.
LEMMA StrippedIs ==
  ASSUME NEW v \in Seq(STRING)
  PROVE  /\ Cardinality(Kept(v)) \in Nat /\ Len(v) \in Nat
         /\ Stripped(v) \in Seq(STRING) /\ Len(Stripped(v)) = Cardinality(Kept(v))
         /\ \A k \in 1 .. Len(Stripped(v)) :
               /\ Ascending(Kept(v))[k] \in 1 .. Len(v)
               /\ Ascending(Kept(v))[k] \in Kept(v)
               /\ Stripped(v)[k] = v[Ascending(Kept(v))[k]]
         /\ \A i \in Kept(v) : \E k \in 1 .. Len(Stripped(v)) : Ascending(Kept(v))[k] = i
         /\ \A k, l \in 1 .. Len(Stripped(v)) :
               k < l => Ascending(Kept(v))[k] < Ascending(Kept(v))[l]
<1> DEFINE I == Kept(v)
<1>1. I \subseteq DOMAIN v /\ DOMAIN v = 1 .. Len(v) /\ Len(v) \in Nat
      BY DEF Kept
<1>2. I \subseteq Int /\ Stripped(v) = Pick(v, I)
      BY <1>1 DEF Stripped, Kept
<1> HIDE DEF I
<1>3. /\ IsFiniteSet(I) /\ Cardinality(I) \in Nat
      /\ Pick(v, I) \in Seq(STRING) /\ Len(Pick(v, I)) = Cardinality(I)
      /\ \A k \in 1 .. Cardinality(I) :
            Ascending(I)[k] \in I /\ Pick(v, I)[k] = v[Ascending(I)[k]]
      BY <1>1, PickFacts
<1>4. /\ \A i \in I : \E k \in 1 .. Cardinality(I) : Ascending(I)[k] = i
      /\ \A k, l \in 1 .. Cardinality(I) : k < l => Ascending(I)[k] < Ascending(I)[l]
      BY <1>2, <1>3, AscendingFacts
<1>q. QED
      BY <1>1, <1>2, <1>3, <1>4 DEF I

\* z is the part of s between two places, element by element.
PartIs(s, lo, hi, z) ==
    /\ Len(z) = hi - lo + 1 /\ DOMAIN z = 1 .. hi - lo + 1
    /\ \A i \in 1 .. hi - lo + 1 : z[i] = s[lo + i - 1]
    /\ \A i \in 1 .. hi - lo + 1 : lo + i - 1 \in lo .. hi /\ lo + i - 1 \in 1 .. Len(s)
    /\ \A q \in lo .. hi : q - lo + 1 \in 1 .. hi - lo + 1 /\ lo + (q - lo + 1) - 1 = q

\* SubSeq returns it.
LEMMA Part ==
  ASSUME NEW S, NEW s \in Seq(S), NEW lo \in 1 .. Len(s), NEW hi \in lo .. Len(s)
  PROVE  SubSeq(s, lo, hi) \in Seq(S) /\ PartIs(s, lo, hi, SubSeq(s, lo, hi))
<1>0. lo \in Int /\ hi \in Int /\ Len(s) \in Nat /\ lo >= 1 /\ hi <= Len(s)
      OBVIOUS
<1>1. SubSeq(s, lo, hi) \in Seq(S) /\ Len(SubSeq(s, lo, hi)) = hi - lo + 1
      OBVIOUS
<1>2. \A i \in 1 .. hi - lo + 1 : SubSeq(s, lo, hi)[i] = s[lo + i - 1]
      OBVIOUS
<1>3. \A i \in 1 .. hi - lo + 1 : lo + i - 1 \in lo .. hi /\ lo + i - 1 \in 1 .. Len(s)
      BY <1>0
<1>4. \A q \in lo .. hi : q - lo + 1 \in 1 .. hi - lo + 1 /\ lo + (q - lo + 1) - 1 = q
      BY <1>0
<1>5. DOMAIN SubSeq(s, lo, hi) = 1 .. hi - lo + 1
      BY <1>1
<1>q. QED
      BY <1>1, <1>2, <1>3, <1>4, <1>5 DEF PartIs

\* The part lo .. hi of v stripped is the part x .. y of w; before it there are
\* only tokens of w that come before, and after it comes the next one.
StripsTo(v, w, x, y, lo, hi) ==
    /\ Stripped(SubSeq(v, lo, hi)) = SubSeq(w, x, y)
    /\ \A k \in lo .. hi : v[k] = "http://" \/ \E i \in x .. y : v[k] = w[i]
    /\ \A k \in 1 .. lo - 1 : v[k] = "http://" \/ \E i \in 1 .. x - 1 : v[k] = w[i]
    /\ hi = Len(v) \/ (hi < Len(v) /\ y < Len(w) /\ v[hi + 1] = w[y + 1])

\* A part of a uri that begins with a token that is kept and ends before one, or
\* with the uri, is stripped to the part of the stripped uri between them.
LEMMA PartStripped ==
  ASSUME NEW v \in Seq(STRING), NEW w, w = Stripped(v),
         NEW x \in 1 .. Len(w), NEW y \in x .. Len(w)
  PROVE  \E lo \in 1 .. Len(v) : \E hi \in lo .. Len(v) : StripsTo(v, w, x, y, lo, hi)
<1> DEFINE n == Len(w)
<1>A. PICK A : A = Ascending(Kept(v))
      OBVIOUS
<1>lo. PICK lo : lo = A[x]
      OBVIOUS
<1>hi. PICK hi : hi = IF y = Len(w) THEN Len(v) ELSE A[y + 1] - 1
      OBVIOUS
<1>1. /\ Len(v) \in Nat /\ w \in Seq(STRING) /\ n \in Nat
      /\ \A k \in 1 .. n : A[k] \in 1 .. Len(v) /\ A[k] \in Kept(v) /\ w[k] = v[A[k]]
      /\ \A i \in Kept(v) : \E k \in 1 .. n : A[k] = i
      /\ \A k, l \in 1 .. n : k < l => A[k] < A[l]
      BY <1>A, StrippedIs
<1>2. x \in Int /\ y \in Int /\ y \in 1 .. n /\ (y # n => y + 1 \in 1 .. n)
      BY <1>1
<1>3. lo \in 1 .. Len(v) /\ hi \in lo .. Len(v)
  <2>1. lo \in 1 .. Len(v)
        BY <1>lo, <1>1
  <2>2. CASE y = n
        BY <1>hi, <1>1, <2>1, <2>2
  <2>3. CASE y # n
    <3>1. y + 1 \in 1 .. n /\ x < y + 1
          BY <1>2, <2>3
    <3>2. A[x] < A[y + 1] /\ A[y + 1] \in 1 .. Len(v)
          BY <1>1, <3>1
    <3>q. QED
          BY <1>lo, <1>hi, <1>1, <2>1, <2>3, <3>2
  <2>q. QED
        BY <2>1, <2>2, <2>3
<1>4. ASSUME NEW k \in 1 .. n, A[k] \in lo .. hi PROVE k \in x .. y
  <2>1. ~(k < x)
        BY <1>lo, <1>1, <1>3, <1>4
  <2>2. ~(k > y)
    <3>1. ASSUME k > y PROVE FALSE
      <4>1. y # n /\ y + 1 \in 1 .. n
            BY <1>2, <3>1
      <4>2. y + 1 = k \/ y + 1 < k
            BY <1>2, <3>1
      <4>3. A[y + 1] <= A[k]
            BY <1>1, <4>1, <4>2
      <4>4. hi = A[y + 1] - 1 /\ A[y + 1] \in Int /\ A[k] \in Int
            BY <1>hi, <1>1, <4>1
      <4>q. QED
            BY <1>4, <4>3, <4>4
    <3>q. QED
          BY <3>1
  <2>q. QED
        BY <1>2, <2>1, <2>2
<1>5. ASSUME NEW k \in x .. y PROVE k \in 1 .. n /\ A[k] \in lo .. hi
  <2>1. k \in 1 .. n /\ (x = k \/ x < k)
        BY <1>2
  <2>2. A[k] \in 1 .. Len(v) /\ A[x] \in 1 .. Len(v) /\ A[x] <= A[k]
        BY <1>1, <2>1
  <2>3. A[k] <= hi
    <3>1. CASE y = n
          BY <1>hi, <1>1, <2>2, <3>1
    <3>2. CASE y # n
      <4>1. y + 1 \in 1 .. n /\ k < y + 1
            BY <1>2, <3>2
      <4>2. A[k] < A[y + 1] /\ A[y + 1] \in 1 .. Len(v)
            BY <1>1, <2>1, <4>1
      <4>q. QED
            BY <1>hi, <1>1, <2>2, <3>2, <4>2
    <3>q. QED
          BY <3>1, <3>2
  <2>q. QED
        BY <1>lo, <1>3, <2>1, <2>2, <2>3
<1>6. ASSUME NEW k \in 1 .. Len(v), v[k] # "http://" PROVE \E i \in 1 .. n : A[i] = k
  <2>1. k \in Kept(v)
        BY <1>6 DEF Kept
  <2>q. QED
        BY <1>1, <2>1
<1>7. ASSUME NEW k \in lo .. hi PROVE v[k] = "http://" \/ \E i \in x .. y : v[k] = w[i]
  <2>1. k \in 1 .. Len(v)
        BY <1>1, <1>3
  <2>2. ASSUME v[k] # "http://" PROVE \E i \in x .. y : v[k] = w[i]
    <3>1. PICK i \in 1 .. n : A[i] = k
          BY <1>6, <2>1, <2>2
    <3>2. i \in x .. y
          BY <1>4, <3>1
    <3>q. QED
          BY <1>1, <3>1, <3>2
  <2>q. QED
        BY <2>2
<1>8. ASSUME NEW k \in 1 .. lo - 1 PROVE v[k] = "http://" \/ \E i \in 1 .. x - 1 : v[k] = w[i]
  <2>1. k \in 1 .. Len(v)
        BY <1>1, <1>3
  <2>2. ASSUME v[k] # "http://" PROVE \E i \in 1 .. x - 1 : v[k] = w[i]
    <3>1. PICK i \in 1 .. n : A[i] = k
          BY <1>6, <2>1, <2>2
    <3>2. ~(x = i) /\ ~(x < i)
          BY <1>lo, <1>1, <1>3, <3>1
    <3>3. i \in 1 .. x - 1
          BY <1>2, <3>2
    <3>q. QED
          BY <1>1, <3>1, <3>3
  <2>q. QED
        BY <2>2
<1>9. hi = Len(v) \/ (hi < Len(v) /\ y < n /\ v[hi + 1] = w[y + 1])
  <2>1. CASE y = n
        BY <1>hi, <2>1
  <2>2. CASE y # n
    <3>1. y + 1 \in 1 .. n /\ y < n
          BY <1>2, <2>2
    <3>2. A[y + 1] \in 1 .. Len(v) /\ w[y + 1] = v[A[y + 1]]
          BY <1>1, <3>1
    <3>3. hi + 1 = A[y + 1] /\ hi < Len(v)
          BY <1>hi, <1>1, <2>2, <3>2
    <3>q. QED
          BY <3>1, <3>2, <3>3
  <2>q. QED
        BY <2>1, <2>2
<1> DEFINE s == SubSeq(v, lo, hi)
<1>10. s \in Seq(STRING) /\ PartIs(v, lo, hi, s)
      BY <1>3, Part
<1> HIDE DEF s
<1>11. /\ Len(s) = hi - lo + 1 /\ DOMAIN s = 1 .. hi - lo + 1
       /\ \A i \in 1 .. hi - lo + 1 : s[i] = v[lo + i - 1]
       /\ \A i \in 1 .. hi - lo + 1 : lo + i - 1 \in lo .. hi /\ lo + i - 1 \in 1 .. Len(v)
      BY <1>10 DEF PartIs
<1>12. \A q \in lo .. hi : q - lo + 1 \in 1 .. hi - lo + 1 /\ lo + (q - lo + 1) - 1 = q
      BY <1>10 DEF PartIs
<1> DEFINE d == y - x + 1
<1> DEFINE f == [j \in 1 .. d |-> A[x + j - 1] - lo + 1]
<1>13. d \in Nat /\ \A j \in 1 .. d : j \in Int /\ x + j - 1 \in x .. y /\ x + j - 1 \in 1 .. n
      BY <1>2
<1>14. ASSUME NEW j \in 1 .. d
       PROVE  /\ f[j] \in 1 .. hi - lo + 1 /\ lo + f[j] - 1 = A[x + j - 1]
              /\ s[f[j]] = w[x + j - 1]
  <2>1. x + j - 1 \in x .. y /\ x + j - 1 \in 1 .. n
        BY <1>13
  <2>2. A[x + j - 1] \in lo .. hi /\ w[x + j - 1] = v[A[x + j - 1]]
        BY <1>1, <1>5, <2>1
  <2>3. f[j] = A[x + j - 1] - lo + 1
        OBVIOUS
  <2> HIDE DEF f
  <2>4. f[j] \in 1 .. hi - lo + 1 /\ lo + f[j] - 1 = A[x + j - 1]
        BY <1>12, <2>2, <2>3
  <2>q. QED
        BY <1>11, <2>2, <2>4
<1>15. ASSUME NEW j \in 1 .. d, NEW k \in 1 .. d, j < k PROVE f[j] < f[k]
  <2>1. x + j - 1 < x + k - 1 /\ x + j - 1 \in 1 .. n /\ x + k - 1 \in 1 .. n
        BY <1>2, <1>13, <1>15
  <2>2. A[x + j - 1] < A[x + k - 1] /\ A[x + j - 1] \in Int /\ A[x + k - 1] \in Int
        BY <1>1, <2>1
  <2>q. QED
        BY <1>3, <2>2
<1>16. f \in [1 .. d -> Int]
  <2>1. \A j \in 1 .. d : f[j] \in Int
    <3> HIDE DEF f
    <3>q. QED
          BY <1>3, <1>14
  <2>q. QED
        BY <2>1
<1>17. Kept(s) = {f[j] : j \in 1 .. d}
  <2>1. ASSUME NEW i \in Kept(s) PROVE \E j \in 1 .. d : i = f[j]
    <3>1. i \in 1 .. hi - lo + 1 /\ s[i] # "http://"
          BY <1>11 DEF Kept
    <3>2. lo + i - 1 \in lo .. hi /\ lo + i - 1 \in 1 .. Len(v) /\ s[i] = v[lo + i - 1]
          BY <1>11, <3>1
    <3>3. PICK k \in 1 .. n : A[k] = lo + i - 1
          BY <1>6, <3>1, <3>2
    <3>4. k \in x .. y
          BY <1>4, <3>2, <3>3
    <3>5. k - x + 1 \in 1 .. d /\ x + (k - x + 1) - 1 = k
          BY <1>2, <3>4
    <3>6. f[k - x + 1] = A[k] - lo + 1
          BY <3>5
    <3> HIDE DEF d, f
    <3>7. f[k - x + 1] = i
          BY <1>3, <3>1, <3>3, <3>6
    <3>q. QED
          BY <3>5, <3>7
  <2>2. ASSUME NEW j \in 1 .. d PROVE f[j] \in Kept(s)
    <3>1. f[j] \in DOMAIN s /\ s[f[j]] = w[x + j - 1]
          BY <1>11, <1>14
    <3>2. x + j - 1 \in 1 .. n
          BY <1>13
    <3>3. A[x + j - 1] \in Kept(v) /\ w[x + j - 1] = v[A[x + j - 1]]
          BY <1>1, <3>2
    <3>4. w[x + j - 1] # "http://"
          BY <3>3 DEF Kept
    <3> HIDE DEF f
    <3>q. QED
          BY <3>1, <3>4 DEF Kept
  <2> HIDE DEF f, d
  <2>q. QED
        BY <2>1, <2>2
<1> HIDE DEF f
<1>18. Cardinality(Kept(s)) = d /\ \A j \in 1 .. d : Ascending(Kept(s))[j] = f[j]
  <2>1. d \in Nat
        BY <1>13
  <2> HIDE DEF d
  <2>2. \A j, k \in 1 .. d : j < k => f[j] < f[k]
        BY <1>15
  <2> DEFINE I == Kept(s)
  <2>3. I = {f[j] : j \in 1 .. d}
        BY <1>17
  <2> HIDE DEF I
  <2>4. Cardinality(I) = d /\ \A j \in 1 .. d : Ascending(I)[j] = f[j]
        BY <1>16, <2>1, <2>2, <2>3, AscendingIs
  <2>q. QED
        BY <2>4 DEF I
<1>19. /\ Stripped(s) \in Seq(STRING) /\ Len(Stripped(s)) = d
       /\ \A j \in 1 .. d : Stripped(s)[j] = w[x + j - 1]
  <2> HIDE DEF d
  <2>1. /\ Stripped(s) \in Seq(STRING) /\ Len(Stripped(s)) = d
        /\ \A j \in 1 .. d : Stripped(s)[j] = s[Ascending(Kept(s))[j]]
    <3>1. /\ Stripped(s) \in Seq(STRING) /\ Len(Stripped(s)) = Cardinality(Kept(s))
          /\ \A j \in 1 .. Len(Stripped(s)) : Stripped(s)[j] = s[Ascending(Kept(s))[j]]
          BY <1>10, StrippedIs
    <3>q. QED
          BY <1>18, <3>1
  <2>q. QED
        BY <1>14, <1>18, <2>1
<1> DEFINE t == SubSeq(w, x, y)
<1>20. t \in Seq(STRING) /\ Len(t) = d /\ \A j \in 1 .. d : t[j] = w[x + j - 1]
  <2>1. t \in Seq(STRING) /\ PartIs(w, x, y, t)
        BY <1>1, Part
  <2> HIDE DEF t
  <2>q. QED
        BY <2>1 DEF PartIs
<1>21. Stripped(s) = t
  <2> HIDE DEF t, d
  <2>1. \A j \in 1 .. d : Stripped(s)[j] = t[j]
        BY <1>19, <1>20
  <2>q. QED
        BY <1>19, <1>20, <2>1, SameElements
<1>q. QED
      BY <1>3, <1>7, <1>8, <1>9, <1>21 DEF s, StripsTo

\* Unslashed leaves out one slash in front, or nothing.
LEMMA UnslashedIs ==
  ASSUME NEW u \in Seq(STRING)
  PROVE  /\ Unslashed(u) \in Seq(STRING)
         /\ \E e \in 0 .. 1 :
               /\ Len(u) = e + Len(Unslashed(u))
               /\ \A i \in 1 .. Len(Unslashed(u)) : Unslashed(u)[i] = u[e + i]
               /\ e = 1 => u[1] = "/"
<1>1. CASE u # <<>> /\ u[1] = "/"
  <2>1. Unslashed(u) = Tail(u)
        BY <1>1 DEF Unslashed
  <2>2. /\ Tail(u) \in Seq(STRING) /\ Len(u) = 1 + Len(Tail(u))
        /\ \A i \in 1 .. Len(Tail(u)) : Tail(u)[i] = u[1 + i]
        BY <1>1
  <2> DEFINE v == Unslashed(u)
  <2>3. v \in Seq(STRING) /\ Len(u) = 1 + Len(v) /\ \A i \in 1 .. Len(v) : v[i] = u[1 + i]
        BY <2>1, <2>2
  <2>4. 1 \in 0 .. 1 /\ u[1] = "/"
        BY <1>1
  <2> HIDE DEF v
  <2>5. v \in Seq(STRING) /\ \E e \in 0 .. 1 :
           /\ Len(u) = e + Len(v)
           /\ \A i \in 1 .. Len(v) : v[i] = u[e + i]
           /\ e = 1 => u[1] = "/"
        BY <2>3, <2>4
  <2>q. QED
        BY <2>5 DEF v
<1>2. CASE ~(u # <<>> /\ u[1] = "/")
  <2>1. Unslashed(u) = u
        BY <1>2 DEF Unslashed
  <2>2. Len(u) = 0 + Len(u) /\ \A i \in 1 .. Len(u) : u[i] = u[0 + i]
        OBVIOUS
  <2>q. QED
        BY <2>1, <2>2
<1>q. QED
      BY <1>1, <1>2

\* Between x and y are no separators, before them at most slashes, and after
\* them a separator or the end.
Delimited(w, x, y) ==
    /\ \A i \in 1 .. x - 1 : w[i] = "/"
    /\ \A i \in x .. y : w[i] \notin Separators
    /\ y = Len(w) \/ w[y + 1] \in Separators

\* Such tokens of the stripped uri are those of a segment of the uri.
LEMMA SegmentOf ==
  ASSUME NEW u \in Seq(STRING), NEW w, w = Stripped(Unslashed(u)),
         NEW x \in 1 .. Len(w), NEW y \in x .. Len(w), Delimited(w, x, y)
  PROVE  \E s \in Segments(u) : Stripped(s) = SubSeq(w, x, y)
<1> DEFINE v == Unslashed(u)
<1>1. v \in Seq(STRING) /\ Len(v) \in Nat /\ Len(u) \in Nat
      BY UnslashedIs
<1>2. PICK e \in 0 .. 1 :
         /\ Len(u) = e + Len(v)
         /\ \A i \in 1 .. Len(v) : v[i] = u[e + i]
         /\ e = 1 => u[1] = "/"
      BY UnslashedIs
<1> HIDE DEF v
<1>3. w = Stripped(v)
      BY DEF v
<1>4. PICK lo \in 1 .. Len(v) : \E h \in lo .. Len(v) : StripsTo(v, w, x, y, lo, h)
      BY <1>1, <1>3, PartStripped
<1>5. PICK hi \in lo .. Len(v) : StripsTo(v, w, x, y, lo, hi)
      BY <1>4
<1>6. /\ \A k \in lo .. hi : v[k] = "http://" \/ \E i \in x .. y : v[k] = w[i]
      /\ \A k \in 1 .. lo - 1 : v[k] = "http://" \/ \E i \in 1 .. x - 1 : v[k] = w[i]
      /\ hi = Len(v) \/ (hi < Len(v) /\ y < Len(w) /\ v[hi + 1] = w[y + 1])
      BY <1>5 DEF StripsTo
<1>7. /\ e \in Int /\ lo \in Int /\ hi \in Int /\ 1 <= lo /\ lo <= hi /\ hi <= Len(v)
      /\ 0 <= e /\ e <= 1
      BY <1>1
<1> DEFINE p == e + lo
<1> DEFINE q == e + hi
<1>8. p \in 1 .. Len(u) /\ q \in p .. Len(u) /\ q \in 1 .. Len(u)
      BY <1>1, <1>2, <1>7
<1>9. ASSUME NEW k \in 1 .. p - 1 PROVE u[k] \in {"/", "http://"}
  <2>1. CASE k <= e
    <3>1. k = 1 /\ e = 1
          BY <1>7, <2>1
    <3>q. QED
          BY <1>2, <3>1
  <2>2. CASE k > e
    <3>1. k - e \in 1 .. lo - 1 /\ k - e \in 1 .. Len(v) /\ e + (k - e) = k
          BY <1>1, <1>7, <2>2
    <3>2. u[k] = v[k - e]
          BY <1>2, <3>1
    <3>3. v[k - e] = "http://" \/ \E i \in 1 .. x - 1 : v[k - e] = w[i]
          BY <1>6, <3>1
    <3>q. QED
          BY <3>2, <3>3 DEF Delimited
  <2>q. QED
        BY <1>7, <2>1, <2>2
<1>10. ASSUME NEW k \in p .. q PROVE u[k] \notin Separators
  <2>1. k - e \in lo .. hi /\ k - e \in 1 .. Len(v) /\ e + (k - e) = k
        BY <1>1, <1>7
  <2>2. u[k] = v[k - e]
        BY <1>2, <2>1
  <2>3. v[k - e] = "http://" \/ \E i \in x .. y : v[k - e] = w[i]
        BY <1>6, <2>1
  <2>4. "http://" \notin Separators
        BY DEF Separators
  <2>q. QED
        BY <2>2, <2>3, <2>4 DEF Delimited
<1>11. q = Len(u) \/ u[q + 1] \in Separators
  <2>1. CASE hi = Len(v)
        BY <1>2, <2>1
  <2>2. CASE hi # Len(v)
    <3>1. hi < Len(v) /\ y < Len(w) /\ v[hi + 1] = w[y + 1]
          BY <1>6, <2>2
    <3>2. w[y + 1] \in Separators
          BY <3>1 DEF Delimited
    <3>3. hi + 1 \in 1 .. Len(v) /\ e + (hi + 1) = q + 1
          BY <1>1, <1>7, <3>1
    <3>4. v[hi + 1] = u[e + (hi + 1)]
          BY <1>2, <3>3
    <3>q. QED
          BY <3>1, <3>2, <3>3, <3>4
  <2>q. QED
        BY <2>1, <2>2
<1>12. SubSeq(u, p, q) = SubSeq(v, lo, hi)
  <2> DEFINE s == SubSeq(u, p, q)
  <2> DEFINE t == SubSeq(v, lo, hi)
  <2>1. q - p = hi - lo /\ \A i \in 1 .. hi - lo + 1 : p + i - 1 = e + (lo + i - 1)
        BY <1>7
  <2> HIDE DEF p, q
  <2>2. s \in Seq(STRING) /\ PartIs(u, p, q, s)
        BY <1>8, Part
  <2>3. t \in Seq(STRING) /\ PartIs(v, lo, hi, t)
        BY <1>1, Part
  <2> HIDE DEF s, t
  <2>4. Len(s) = hi - lo + 1 /\ \A i \in 1 .. hi - lo + 1 : s[i] = u[p + i - 1]
        BY <2>1, <2>2 DEF PartIs
  <2>5. /\ Len(t) = hi - lo + 1
        /\ \A i \in 1 .. hi - lo + 1 : t[i] = v[lo + i - 1] /\ lo + i - 1 \in 1 .. Len(v)
        BY <2>3 DEF PartIs
  <2>6. \A i \in 1 .. hi - lo + 1 : s[i] = t[i]
    <3> SUFFICES ASSUME NEW i \in 1 .. hi - lo + 1 PROVE s[i] = t[i]
        OBVIOUS
    <3>1. t[i] = v[lo + i - 1] /\ lo + i - 1 \in 1 .. Len(v)
          BY <2>5
    <3>2. v[lo + i - 1] = u[e + (lo + i - 1)]
          BY <1>2, <3>1
    <3>3. s[i] = u[p + i - 1] /\ p + i - 1 = e + (lo + i - 1)
          BY <2>1, <2>4
    <3>q. QED
          BY <3>1, <3>2, <3>3
  <2>7. Len(s) = Len(t) /\ \A i \in 1 .. Len(s) : s[i] = t[i]
        BY <2>6, <2>4, <2>5
  <2>8. s = t
        BY <2>2, <2>3, <2>7, SameElements
  <2>q. QED
        BY <2>8 DEF s, t
<1> HIDE DEF p, q
<1>13. SubSeq(u, p, q) \in Segments(u)
  <2> DEFINE r == <<p, q>>
  <2>1. r[1] = p /\ r[2] = q /\ r \in (1 .. Len(u)) \X (1 .. Len(u))
        BY <1>8
  <2> HIDE DEF r
  <2>2. r \in {r1 \in (1 .. Len(u)) \X (1 .. Len(u)) :
                  /\ \A k \in 1 .. r1[1] - 1 : u[k] \in {"/", "http://"}
                  /\ \A k \in r1[1] .. r1[2] : u[k] \notin Separators
                  /\ r1[2] = Len(u) \/ u[r1[2] + 1] \in Separators}
        BY <1>9, <1>10, <1>11, <2>1
  <2>q. QED
        BY <2>1, <2>2 DEF Segments
<1>q. QED
      BY <1>5, <1>12, <1>13 DEF StripsTo

\* The handler that is found under the path of a uri is one the uri names.
LEMMA PathIsNamed ==
  ASSUME NEW u \in Seq(STRING), HasUri(u), NEW a \in m_handle_map(Path(u))
  PROVE  a \in Named(u)
<1> DEFINE v == Unslashed(u)
<1> DEFINE w == Stripped(v)
<1>1. v \in Seq(STRING) /\ w \in Seq(STRING) /\ Len(w) \in Nat
  <2>1. v \in Seq(STRING)
        BY UnslashedIs
  <2> HIDE DEF v
  <2>q. QED
        BY <2>1, StrippedIs
<1>2. w # <<>> /\ w[1] # "?"
  <2>1. TrimUri(v) # <<>>
        BY DEF HasUri
  <2>2. CutAfterFirst(<<>>, "/") = <<>> /\ CutAfterFirst(<<>>, "?") = <<>>
        BY DEF CutAfterFirst
  <2> HIDE DEF v
  <2>3. w = <<>> => CutAt(w, "?") = <<>>
        BY <2>2 DEF CutAt
  <2>4. w # <<>> /\ w[1] = "?" => CutAt(w, "?") = <<>>
        BY DEF CutAt
  <2>q. QED
        BY <2>1, <2>2, <2>3, <2>4 DEF TrimUri
<1>3. PICK m \in 1 .. Len(w) :
         /\ TrimUri(v) = SubSeq(w, 1, m)
         /\ \A i \in 1 .. m : w[i] # "?" /\ (w[1] # "/" => w[i] # "/")
         /\ m = Len(w) \/ w[m + 1] \in Separators
  <2> HIDE DEF v
  <2>q. QED
        BY <1>1, <1>2, TrimIs
<1> DEFINE t == SubSeq(w, 1, m)
<1>4. t \in Seq(STRING) /\ Len(t) = m /\ \A i \in 1 .. m : t[i] = w[i]
  <2> HIDE DEF w
  <2>1. m \in 0 .. Len(w)
        BY <1>1
  <2>q. QED
        BY <1>1, <2>1, Cut
<1>5. a \in Apis /\ (UrlDecode(t) = <<a>> \/ UrlDecode(t) = <<"/", a>>)
  <2>1. Path(u) = UrlDecode(t)
        BY <1>3 DEF Path
  <2>q. QED
        BY <2>1 DEF m_handle_map
<1>6. a \notin Separators
      BY <1>5, NameIs DEF Separators
<1> HIDE DEF t
<1>7. \/ t = <<a>>
      \/ t = <<"/", a>> /\ UrlDecode(t) = <<"/", a>>
      \/ t = <<"%", "2", "F", a>> /\ UrlDecode(t) = <<"/", a>>
      BY <1>4, <1>5, DecodedName
<1> SUFFICES \E s \in Segments(u) : UrlDecode(Stripped(s)) \in {<<a>>, <<"/", a>>}
  <2>1. \A s \in Segments(u) : UrlDecode(Stripped(s)) \in {<<a>>, <<"/", a>>}
           => a \in m_handle_map(UrlDecode(Stripped(s)))
        BY <1>5 DEF m_handle_map
  <2>q. QED
        BY <2>1 DEF Named
<1>8. ASSUME \A i \in 1 .. m : w[i] \notin Separators
      PROVE  \E s \in Segments(u) : Stripped(s) = t
  <2>1. 1 \in 1 .. Len(w)
        BY <1>1
  <2>2. Delimited(w, 1, m)
        BY <1>3, <1>8 DEF Delimited
  <2>3. w = Stripped(Unslashed(u))
        OBVIOUS
  <2> HIDE DEF w
  <2>q. QED
        BY <2>1, <2>2, <2>3, SegmentOf DEF t
<1>9. CASE t = <<a>>
  <2>1. m = 1 /\ w[1] = a
        BY <1>4, <1>9
  <2>2. \A i \in 1 .. m : w[i] \notin Separators
        BY <1>6, <2>1
  <2>3. UrlDecode(t) = <<a>>
        BY <1>4, <1>5, <1>9, NameDecoded
  <2>q. QED
        BY <1>8, <2>2, <2>3
<1>10. CASE t = <<"%", "2", "F", a>> /\ UrlDecode(t) = <<"/", a>>
  <2>1. m = 4 /\ w[1] = "%" /\ w[2] = "2" /\ w[3] = "F" /\ w[4] = a
        BY <1>4, <1>10
  <2>2. "%" \notin Separators /\ "2" \notin Separators /\ "F" \notin Separators
        BY DEF Separators
  <2> HIDE DEF w
  <2>3. \A i \in 1 .. m : i = 1 \/ i = 2 \/ i = 3 \/ i = 4
        BY <2>1
  <2>4. \A i \in 1 .. m : w[i] \notin Separators
        BY <1>6, <2>1, <2>2, <2>3
  <2>q. QED
        BY <1>8, <1>10, <2>4
<1>11. CASE t = <<"/", a>>
  <2> DEFINE b == SubSeq(w, 2, 2)
  <2>1. m = 2 /\ w[1] = "/" /\ w[2] = a
        BY <1>4, <1>11
  <2>2. 2 \in 1 .. Len(w) /\ 2 \in 2 .. Len(w) /\ \A i \in 1 .. 2 - 1 : w[i] = "/"
        BY <1>1, <2>1
  <2>3. \A i \in 2 .. m : w[i] \notin Separators
        BY <1>6, <2>1
  <2>4. \E s \in Segments(u) : Stripped(s) = b
    <3>1. PICK x \in 1 .. Len(w) : x = 2
          BY <2>2
    <3>2. m \in x .. Len(w)
          BY <1>1, <2>1, <3>1
    <3>3. Delimited(w, x, m)
          BY <1>3, <2>2, <2>3, <3>1 DEF Delimited
    <3>4. w = Stripped(Unslashed(u))
          OBVIOUS
    <3> HIDE DEF w
    <3>5. \E s \in Segments(u) : Stripped(s) = SubSeq(w, x, m)
          BY <3>2, <3>3, <3>4, SegmentOf
    <3>q. QED
          BY <2>1, <3>1, <3>5
  <2>5. b \in Seq(STRING) /\ b = <<a>>
    <3> HIDE DEF w
    <3>1. b \in Seq(STRING) /\ PartIs(w, 2, 2, b)
          BY <1>1, <2>2, Part
    <3> HIDE DEF b
    <3>2. Len(b) = 1 /\ b[1] = w[2]
          BY <3>1 DEF PartIs
    <3>q. QED
          BY <2>1, <3>1, <3>2
  <2> HIDE DEF b
  <2>6. UrlDecode(b) = <<a>>
        BY <1>5, <2>5, NameDecoded
  <2>q. QED
        BY <2>4, <2>6
<1>q. QED
      BY <1>7, <1>9, <1>10, <1>11

\* A plain uri leads to the handler it names and to no other.
LEMMA PlainIs ==
  ASSUME NEW u \in Seq(STRING), NEW a \in Apis, Plain(u, a)
  PROVE  /\ HasUri(u) /\ ~Contains(Path(u), "bad")
         /\ m_handle_map(Path(u)) = {a}
<1> DEFINE v == Unslashed(u)
<1> DEFINE w == Stripped(v)
<1> DEFINE A == Ascending(Kept(v))
<1>1. v # <<>> /\ v[1] = a /\ (Len(v) = 1 \/ v[2] \in Separators)
      BY DEF Plain
<1>2. v \in Seq(STRING) /\ Len(v) \in Nat /\ DOMAIN v = 1 .. Len(v) /\ Len(v) >= 1
  <2>1. v \in Seq(STRING)
        BY UnslashedIs
  <2> HIDE DEF v
  <2>q. QED
        BY <1>1, <2>1
<1>3. a # "http://" /\ a # "?" /\ a # "/" /\ a # "bad"
      BY NameIs
<1> HIDE DEF v
<1>4. /\ w \in Seq(STRING) /\ Len(w) \in Nat
      /\ \A k \in 1 .. Len(w) : A[k] \in 1 .. Len(v) /\ w[k] = v[A[k]]
      /\ \A i \in Kept(v) : \E k \in 1 .. Len(w) : A[k] = i
      /\ \A k, l \in 1 .. Len(w) : k < l => A[k] < A[l]
      BY <1>2, StrippedIs
<1>5. w = Stripped(v)
      OBVIOUS
<1> HIDE DEF w, A
<1>6. 1 \in 1 .. Len(w) /\ A[1] = 1
  <2>1. 1 \in Kept(v)
        BY <1>1, <1>2, <1>3 DEF Kept
  <2>2. PICK k \in 1 .. Len(w) : A[k] = 1
        BY <1>4, <2>1
  <2>3. 1 \in 1 .. Len(w)
        BY <1>4
  <2>4. ASSUME 1 < k PROVE FALSE
    <3>1. A[1] < A[k] /\ A[1] \in 1 .. Len(v)
          BY <1>4, <2>3, <2>4
    <3>q. QED
          BY <1>2, <2>2, <3>1
  <2>5. k = 1
        BY <1>4, <2>4
  <2>q. QED
        BY <2>2, <2>3, <2>5
<1>7. w # <<>> /\ w[1] = a
      BY <1>1, <1>4, <1>6
<1>8. PICK m \in 1 .. Len(w) :
         /\ TrimUri(v) = SubSeq(w, 1, m)
         /\ \A i \in 1 .. m : w[i] # "?" /\ (w[1] # "/" => w[i] # "/")
         /\ m = Len(w) \/ w[m + 1] \in Separators
  <2>1. v \in Seq(STRING) /\ w \in Seq(STRING) /\ w = Stripped(v)
        BY <1>2, <1>4, <1>5
  <2>2. w # <<>> /\ w[1] # "?"
        BY <1>3, <1>7
  <2>q. QED
        BY <2>1, <2>2, TrimIs
<1>9. m = 1
  <2>1. ASSUME m # 1 PROVE FALSE
    <3>1. 2 \in 1 .. m /\ 2 \in 1 .. Len(w)
          BY <1>4, <2>1
    <3>2. A[2] \in 1 .. Len(v) /\ A[1] < A[2]
          BY <1>4, <1>6, <3>1
    <3>3. Len(v) # 1 /\ 2 \in 1 .. Len(v)
          BY <1>2, <1>6, <3>2
    <3>4. v[2] \in Separators
          BY <1>1, <3>3
    <3>5. 2 \in Kept(v)
          BY <1>2, <3>3, <3>4 DEF Kept, Separators
    <3>6. PICK k \in 1 .. Len(w) : A[k] = 2
          BY <1>4, <3>5
    <3>7. ~(2 < k)
      <4>1. ASSUME 2 < k PROVE FALSE
        <5>1. A[2] < A[k]
              BY <1>4, <3>1, <4>1
        <5>q. QED
              BY <1>2, <1>6, <3>2, <3>6, <5>1
      <4>q. QED
            BY <4>1
    <3>8. k # 1
          BY <1>6, <3>6
    <3>9. k = 2
          BY <1>4, <3>7, <3>8
    <3>10. w[2] = v[2]
          BY <1>4, <3>1, <3>6, <3>9
    <3>11. w[2] # "?" /\ w[2] # "/"
          BY <1>3, <1>7, <1>8, <3>1
    <3>q. QED
          BY <3>4, <3>10, <3>11 DEF Separators
  <2>q. QED
        BY <2>1
<1> DEFINE t == SubSeq(w, 1, m)
<1>10. t \in Seq(STRING) /\ Len(t) = m /\ \A i \in 1 .. m : t[i] = w[i]
  <2>1. m \in 0 .. Len(w)
        BY <1>4
  <2>q. QED
        BY <1>4, <2>1, Cut
<1>11. TrimUri(v) = t
      BY <1>8
<1> HIDE DEF t
<1>12. t = <<a>>
      BY <1>6, <1>7, <1>9, <1>10
<1>13. UrlDecode(t) = <<a>>
      BY <1>10, <1>12, NameDecoded
<1>14. Path(u) = <<a>>
      BY <1>11, <1>13 DEF Path, v
<1>15. HasUri(u)
      BY <1>1, <1>11, <1>12 DEF HasUri, v
<1>16. ~Contains(<<a>>, "bad")
      BY <1>3 DEF Contains
<1>17. ASSUME NEW b \in Apis PROVE <<a>> \in {<<b>>, <<"/", b>>} <=> b = a
  <2>1. <<a>>[1] = a /\ <<b>>[1] = b /\ Len(<<a>>) = 1 /\ Len(<<"/", b>>) = 2
        OBVIOUS
  <2>q. QED
        BY <2>1
<1>q. QED
      BY <1>14, <1>15, <1>16, <1>17 DEF m_handle_map
=============================================================================
