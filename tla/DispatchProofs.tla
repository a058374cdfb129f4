-------------------------- MODULE DispatchProofs --------------------------
(***************************************************************************)
(* The replies of a connection are its own and delimited, a search never   *)
(* mixes its tries, and a request is routed by the first segment of its    *)
(* uri, for any uris, answers and number of tries.                         *)
(***************************************************************************)
EXTENDS UriProofs

Transfer == [body : Bodies, got : Nat, ok : BOOLEAN]

\* The types of a search.
SearchType ==
    /\ strRst \in Seq(STRING) /\ tried \in Seq(Transfer)
    /\ try_nums \in 0 .. TryNums /\ Len(tried) + try_nums <= TryNums
    /\ \A i \in DOMAIN tried : tried[i].got <= Len(tried[i].body)

\* The first text of transfer t is the value b: a scalar at its beginning, or all
\* of an array or object.
Brings(t, b) ==
    /\ t.got > 0
    /\ IF b = <<Scalar>> THEN t.body[1] = Scalar ELSE t.got = Len(t.body) /\ b = t.body

\* A value that can be read is one that came first.
FirstIsWhole ==
    \A b \in FirstValue(strRst) :
        \E i \in DOMAIN tried : FirstText(i) /\ Brings(tried[i], b)

\* Nothing is tried again after a success.
OkIsLast ==
    \A i \in DOMAIN tried : tried[i].ok => i = Len(tried) /\ try_nums = 0

\* The string begins with what arrived first.
Begins(s, t) == t.got <= Len(s) /\ \A k \in 1 .. t.got : s[k] = t.body[k]
StoredFirst ==
    /\ strRst = <<>> <=> \A i \in DOMAIN tried : tried[i].got = 0
    /\ \A i \in DOMAIN tried : FirstText(i) => Begins(strRst, tried[i])

SearchInv == SearchType /\ FirstIsWhole /\ OkIsLast /\ StoredFirst

\* The reply is that of the handler that was called, for this request, and is
\* as long as it says.
ReplyInv ==
    /\ m_reply = Reply(m_reply.status, m_reply.length, m_reply.content)
    /\ state = "searching" => called = {SearchApi}
    /\ state = "writing" /\ m_reply.status = "ok" =>
          /\ m_reply.length = m_reply.content.size
          /\ called = {SearchApi} =>
                m_reply.content.result = SearchResult /\ ~(Succeeded /\ Throws(strRst))

Inv == TypeOK /\ SearchInv /\ ReplyInv /\ OwnContent

-----------------------------------------------------------------------------
(* The search *)

\* A value, and one in brackets.
IsEnclosed(b) == IsArray(b) \/ IsObject(b)
IsValue(b)    == IsEnclosed(b) \/ b = <<Scalar>>

\* What the reader can find at the beginning of a string.
LEMMA FirstValueIs ==
  ASSUME NEW s \in Seq(STRING), NEW b
  PROVE  b \in FirstValue(s) <=> IsValue(b) /\ \E n \in 0 .. Len(s) : b = SubSeq(s, 1, n)
  BY DEF FirstValue, Prefixes, IsValue, IsEnclosed

\* Brackets are in pairs.
LEMMA EnclosedIs ==
  ASSUME NEW b, IsEnclosed(b)
  PROVE  /\ Len(b) >= 2 /\ b[1] \in {Open, OpenO} /\ b[Len(b)] \in {Close, CloseO}
         /\ \A i \in 2 .. Len(b) - 1 : b[i] \notin Brackets
  BY DEF IsEnclosed, IsArray, IsObject, Enclosed

\* An opening bracket is no closing one, and both are brackets.
LEMMA BracketsDiffer ==
  /\ {Open, OpenO} \cap {Close, CloseO} = {} /\ Scalar \notin Brackets
  /\ {Open, OpenO} \subseteq Brackets /\ {Close, CloseO} \subseteq Brackets
  BY DEF Open, OpenO, Close, CloseO, Brackets, Scalar

\* A transfer adds its part to the string; a value that ends in that part is
\* the beginning of it, and nothing was there before.
LEMMA FirstOfBoth ==
  ASSUME NEW s \in Seq(STRING), NEW body \in Bodies, NEW k \in 0 .. Len(body),
         NEW b \in FirstValue(s \o SubSeq(body, 1, k)), b \notin FirstValue(s)
  PROVE  /\ s = <<>> /\ k > 0
         /\ IF b = <<Scalar>> THEN body[1] = Scalar ELSE k = Len(body) /\ b = body
<1> DEFINE part == SubSeq(body, 1, k)
<1> DEFINE all == s \o part
<1>1. body \in Seq(STRING) /\ (IsEnclosed(body) \/ \A i \in DOMAIN body : body[i] \notin Brackets)
      BY BodiesAssumption DEF IsEnclosed
<1>2. part \in Seq(STRING) /\ Len(part) = k /\ (\A i \in 1 .. k : part[i] = body[i])
      BY <1>1
<1>3. /\ all \in Seq(STRING) /\ Len(all) = Len(s) + k
      /\ \A i \in 1 .. Len(s) : all[i] = s[i]
      /\ \A i \in 1 .. k : all[Len(s) + i] = body[i]
      BY <1>2
<1> HIDE DEF part, all
<1>4. b \in FirstValue(all)
      BY DEF all, part
<1>5. PICK n \in 0 .. Len(all) : b = SubSeq(all, 1, n)
      BY <1>3, <1>4, FirstValueIs
<1>6. IsValue(b)
      BY <1>3, <1>4, FirstValueIs
<1>7. Len(b) = n /\ \A i \in 1 .. n : b[i] = all[i]
      BY <1>3, <1>5
<1>8. n > Len(s)
  <2>1. ASSUME n <= Len(s) PROVE FALSE
    <3>1. n \in 0 .. Len(s)
          BY <2>1, <1>3, <1>5
    <3>2. SubSeq(s, 1, n) = SubSeq(all, 1, n)
          BY <1>3, <3>1
    <3>q. QED
          BY <1>5, <1>6, <3>1, <3>2, FirstValueIs
  <2>q. QED
        BY <2>1, <1>3, <1>5
<1> DEFINE j == n - Len(s)
<1>9. j \in 1 .. k /\ n = Len(s) + j /\ Len(s) \in Nat
      BY <1>3, <1>5, <1>8
<1>10. CASE b = <<Scalar>>
  <2>1. Len(b) = 1 /\ b[1] = Scalar
        BY <1>10
  <2>2. Len(s) = 0 /\ n = 1 /\ 1 \in 1 .. k
        BY <1>7, <1>9, <2>1
  <2>3. all[1] = body[1]
        BY <1>3, <2>2
  <2>4. body[1] = Scalar
        BY <1>7, <2>1, <2>2, <2>3
  <2>q. QED
        BY <1>10, <2>2, <2>4
<1>11. CASE IsEnclosed(b)
  <2>1. /\ n >= 2 /\ b[1] \in {Open, OpenO} /\ b[n] \in {Close, CloseO}
        /\ \A i \in 2 .. n - 1 : b[i] \notin Brackets
        BY <1>7, <1>11, EnclosedIs
  <2>2. j \in DOMAIN body /\ body[j] \in {Close, CloseO}
        BY <1>1, <1>3, <1>7, <1>9, <2>1
  <2>3. IsEnclosed(body)
        BY <1>1, <2>2, BracketsDiffer
  <2>4. /\ Len(body) \in Nat /\ Len(body) >= 2 /\ body[1] \in {Open, OpenO}
        /\ \A i \in 2 .. Len(body) - 1 : body[i] \notin Brackets
        BY <1>1, <2>3, EnclosedIs
  <2>5. j = Len(body)
    <3>1. j # 1 /\ j \notin 2 .. Len(body) - 1
          BY <2>2, <2>4, BracketsDiffer
    <3>2. j \in 1 .. Len(body)
          BY <1>1, <2>2
    <3> HIDE DEF j
    <3>q. QED
          BY <2>4, <3>1, <3>2
  <2>6. b[Len(s) + 1] = body[1]
    <3>1. 1 \in 1 .. k /\ Len(s) + 1 \in 1 .. n
          BY <1>9
    <3>q. QED
          BY <1>3, <1>7, <3>1
  <2>7. Len(s) = 0
    <3>1. Len(s) + 1 # n
          BY <2>1, <2>4, <2>6, BracketsDiffer
    <3>2. Len(s) + 1 \notin 2 .. n - 1
          BY <2>1, <2>4, <2>6, BracketsDiffer
    <3>q. QED
          BY <1>9, <3>1, <3>2
  <2>8. n = k /\ k = Len(body) /\ k > 0
        BY <1>9, <2>5, <2>7
  <2>9. b = body
    <3>1. b \in Seq(STRING) /\ Len(b) = Len(body)
          BY <1>3, <1>5, <1>7, <2>8
    <3>2. \A i \in 1 .. n : b[i] = body[i]
          BY <1>3, <1>7, <2>7, <2>8
    <3>q. QED
          BY <1>1, <2>8, <3>1, <3>2
  <2>10. b # <<Scalar>>
    <3>1. n # 1 /\ Len(b) = n
          BY <1>5, <1>7, <2>1
    <3>2. Len(<<Scalar>>) = 1
          OBVIOUS
    <3>q. QED
          BY <3>1, <3>2
  <2>q. QED
        BY <2>7, <2>8, <2>9, <2>10
<1>q. QED
      BY <1>6, <1>10, <1>11 DEF IsValue

\* A transfer keeps the invariant of the search.
LEMMA CurlPerformStep ==
  ASSUME SearchInv, NEW b \in Bodies, NEW k \in 0 .. Len(b), NEW ok \in BOOLEAN,
         CurlPerform(b, k, ok)
  PROVE  SearchInv'
<1> DEFINE t == [body |-> b, got |-> k, ok |-> ok]
<1>0. PICK n \in Nat : n = Len(tried)
      BY DEF SearchInv, SearchType
<1>1. /\ try_nums > 0 /\ strRst' = strRst \o SubSeq(b, 1, k)
      /\ try_nums' = IF ok THEN 0 ELSE try_nums - 1
      /\ tried' = Append(tried, t)
      BY DEF CurlPerform
<1>2. b \in Seq(STRING) /\ Len(b) \in Nat
      BY BodiesAssumption
<1>3. /\ strRst \in Seq(STRING) /\ tried \in Seq(Transfer)
      /\ n \in Nat /\ n = Len(tried)
      BY <1>0 DEF SearchInv, SearchType
<1>4. t \in Transfer /\ t.body = b /\ t.got = k /\ t.ok = ok
      BY <1>2 DEF Transfer
<1> HIDE DEF t
<1>5. /\ tried' \in Seq(Transfer) /\ Len(tried') = n + 1 /\ tried'[n + 1] = t
      /\ \A i \in 1 .. n : tried'[i] = tried[i]
      /\ DOMAIN tried' = 1 .. n + 1 /\ DOMAIN tried = 1 .. n
      /\ tried' # <<>>
  <2>1. /\ tried' \in Seq(Transfer) /\ Len(tried') = Len(tried) + 1
        /\ tried'[Len(tried) + 1] = t
        /\ \A i \in 1 .. Len(tried) : tried'[i] = tried[i]
        BY <1>1, <1>3, <1>4
  <2>2. tried' # <<>> /\ DOMAIN tried' = 1 .. Len(tried') /\ DOMAIN tried = 1 .. Len(tried)
        BY <1>3, <2>1
  <2>q. QED
        BY <1>0, <2>1, <2>2
<1>6. SubSeq(b, 1, k) \in Seq(STRING) /\ (k = 0 => SubSeq(b, 1, k) = <<>>)
      BY <1>2
<1>7. SearchType'
  <2>1. try_nums' \in 0 .. TryNums /\ n + 1 + try_nums' <= TryNums
        BY <1>1, <1>3, TryNumsAssumption DEF SearchInv, SearchType
  <2>2. \A i \in 1 .. n + 1 : tried'[i].got <= Len(tried'[i].body)
    <3>1. ASSUME NEW i \in 1 .. n + 1, i # n + 1 PROVE tried'[i].got <= Len(tried'[i].body)
      <4>1. i \in DOMAIN tried /\ tried'[i] = tried[i]
            BY <1>3, <1>5, <3>1
      <4>q. QED
            BY <4>1 DEF SearchInv, SearchType
    <3>2. tried'[n + 1].got <= Len(tried'[n + 1].body)
          BY <1>2, <1>4, <1>5
    <3>q. QED
          BY <3>1, <3>2
  <2>3. strRst' \in Seq(STRING)
        BY <1>1, <1>3, <1>6
  <2>q. QED
        BY <1>5, <2>1, <2>2, <2>3 DEF SearchType
<1>h. /\ Len(strRst') = Len(strRst) + k /\ Len(strRst) \in Nat /\ strRst' \in Seq(STRING)
      /\ \A l \in 1 .. Len(strRst) : strRst'[l] = strRst[l]
  <2> DEFINE part == SubSeq(b, 1, k)
  <2>1. part \in Seq(STRING) /\ Len(part) = k
        BY <1>2
  <2> HIDE DEF part
  <2>2. strRst' = strRst \o part
        BY <1>1 DEF part
  <2> DEFINE s == strRst \o part
  <2>3. s \in Seq(STRING) /\ Len(s) = Len(strRst) + Len(part) /\ Len(strRst) \in Nat
        BY <1>3, <2>1
  <2>4. \A l \in 1 .. Len(strRst) : s[l] = strRst[l]
        BY <1>3, <2>1
  <2> HIDE DEF s
  <2>5. strRst' = s
        BY <2>2 DEF s
  <2>q. QED
        BY <2>1, <2>3, <2>4, <2>5
<1>f. ASSUME NEW i \in 1 .. n PROVE FirstText(i)' <=> FirstText(i)
  <2>1. \A j \in 1 .. i - 1 : j \in 1 .. n
        BY <1>3
  <2>q. QED
        BY <1>5, <2>1 DEF FirstText
<1>e. strRst = <<>> <=> \A i \in 1 .. n : tried[i].got = 0
      BY <1>5 DEF SearchInv, StoredFirst
<1>g. ASSUME strRst = <<>>, k > 0 PROVE FirstText(n + 1)' /\ n + 1 \in 1 .. n + 1
  <2>1. n + 1 - 1 = n /\ n + 1 \in 1 .. n + 1
        BY <1>3
  <2>2. tried'[n + 1].got > 0
        BY <1>4, <1>5, <1>g
  <2>3. \A j \in 1 .. n : tried'[j].got = 0
        BY <1>5, <1>e, <1>g
  <2>q. QED
        BY <2>1, <2>2, <2>3 DEF FirstText
<1>8. FirstIsWhole'
  <2>1. ASSUME NEW a \in FirstValue(strRst')
        PROVE  \E i \in 1 .. n + 1 : FirstText(i)' /\ Brings(tried'[i], a)
    <3>1. CASE a \in FirstValue(strRst)
      <4>1. PICK i \in 1 .. n : FirstText(i) /\ Brings(tried[i], a)
            BY <1>5, <3>1 DEF SearchInv, FirstIsWhole
      <4>2. i \in 1 .. n + 1 /\ tried'[i] = tried[i] /\ FirstText(i)'
            BY <1>3, <1>5, <1>f, <4>1
      <4>q. QED
            BY <4>1, <4>2
    <3>2. CASE a \notin FirstValue(strRst)
      <4>1. /\ strRst = <<>> /\ k > 0
            /\ IF a = <<Scalar>> THEN b[1] = Scalar ELSE k = Len(b) /\ a = b
            BY <1>1, <1>3, <3>2, FirstOfBoth
      <4>2. Brings(t, a)
            BY <1>4, <4>1 DEF Brings
      <4>q. QED
            BY <1>5, <1>g, <4>1, <4>2
    <3>q. QED
          BY <3>1, <3>2
  <2>q. QED
        BY <1>5, <2>1 DEF FirstIsWhole, FirstValue, Brings
<1>9. OkIsLast'
  <2>1. ASSUME NEW i \in 1 .. n + 1, tried'[i].ok PROVE i = n + 1 /\ try_nums' = 0
    <3>1. CASE i = n + 1
          BY <1>1, <1>4, <1>5, <2>1, <3>1
    <3>2. CASE i # n + 1
      <4>1. i \in 1 .. n /\ tried'[i] = tried[i]
            BY <1>3, <1>5, <3>2
      <4>2. try_nums = 0
            BY <1>5, <2>1, <4>1 DEF SearchInv, OkIsLast
      <4>q. QED
            BY <1>1, <4>2
    <3>q. QED
          BY <3>1, <3>2
  <2>q. QED
        BY <1>5, <2>1 DEF OkIsLast
<1>10. StoredFirst'
  <2>1. strRst' = <<>> <=> strRst = <<>> /\ k = 0
    <3>1. Len(strRst') = Len(strRst) + k /\ Len(strRst) \in Nat /\ strRst' \in Seq(STRING)
          BY <1>h
    <3>2. (strRst = <<>> <=> Len(strRst) = 0) /\ (strRst' = <<>> <=> Len(strRst') = 0)
          BY <1>3, <3>1
    <3>q. QED
          BY <3>1, <3>2
  <2>2. (\A i \in 1 .. n + 1 : tried'[i].got = 0) <=> strRst = <<>> /\ k = 0
    <3>1. (\A i \in 1 .. n + 1 : tried'[i].got = 0)
             <=> tried'[n + 1].got = 0 /\ \A i \in 1 .. n : tried'[i].got = 0
          BY <1>3
    <3>2. (\A i \in 1 .. n : tried'[i].got = 0) <=> strRst = <<>>
          BY <1>5, <1>e
    <3>q. QED
          BY <1>4, <1>5, <3>1, <3>2
  <2>3. ASSUME NEW i \in 1 .. n + 1, FirstText(i)' PROVE Begins(strRst', tried'[i])
    <3>1. CASE i = n + 1
      <4>1. \A l \in 1 .. n : tried[l].got = 0
        <5>1. n + 1 - 1 = n
              BY <1>3
        <5>q. QED
              BY <1>5, <2>3, <3>1, <5>1 DEF FirstText
      <4>2. strRst' = SubSeq(b, 1, k)
            BY <1>1, <1>6, <1>e, <4>1
      <4>q. QED
            BY <1>2, <1>4, <1>5, <3>1, <4>2 DEF Begins
    <3>2. CASE i # n + 1
      <4>1. i \in 1 .. n /\ tried'[i] = tried[i]
            BY <1>3, <1>5, <3>2
      <4>2. Begins(strRst, tried[i])
            BY <1>5, <1>f, <2>3, <4>1 DEF SearchInv, StoredFirst
      <4>3. tried[i] \in Transfer
            BY <1>3, <4>1
      <4>5. tried[i].got \in Nat
            BY <4>3 DEF Transfer
      <4>4. Begins(strRst', tried[i])
            BY <1>h, <4>2, <4>5 DEF Begins
      <4>q. QED
            BY <4>1, <4>4
    <3>q. QED
          BY <3>1, <3>2
  <2>q. QED
        BY <1>5, <2>1, <2>2, <2>3 DEF StoredFirst, Begins
<1>q. QED
      BY <1>7, <1>8, <1>9, <1>10 DEF SearchInv

\* A success that a transfer justifies.
Justifies(t, symbols) ==
    \/ /\ IsArray(t.body) /\ t.got = Len(t.body)
       /\ symbols = SubSeq(t.body, 2, Len(t.body) - 1)
    \/ /\ \/ t.body[1] = Scalar
          \/ t.body = <<OpenO, CloseO>> /\ t.got = Len(t.body)
       /\ symbols = <<>>

\* A transfer that is no JSON, or not all of it.
Unreadable(t) ==
    /\ t.body[1] # Scalar
    /\ IsArray(t.body) \/ IsObject(t.body) => t.got # Len(t.body)

\* The result says of the transfers what it should.
LEMMA SearchResultIs ==
  ASSUME SearchInv, ~(Succeeded /\ Throws(strRst))
  PROVE  /\ SearchResult.code = "SUCCESS" =>
               /\ Succeeded
               /\ \E i \in DOMAIN tried :
                     FirstText(i) /\ Justifies(tried[i], SearchResult.symbols)
         /\ SearchResult.code = "INFO_BUSY" => \A i \in DOMAIN tried : ~tried[i].ok
         /\ SearchResult.code = "UNKNOWN" =>
               /\ Succeeded
               /\ \A i \in DOMAIN tried : FirstText(i) => Unreadable(tried[i])
<1>1. strRst \in Seq(STRING) /\ tried \in Seq(Transfer)
      BY DEF SearchInv, SearchType
<1>2. CASE ~Succeeded
  <2>1. SearchResult.code = "INFO_BUSY"
        BY <1>2 DEF SearchResult, Result
  <2>2. ASSUME NEW i \in DOMAIN tried PROVE ~tried[i].ok
        BY <1>1, <1>2 DEF SearchInv, OkIsLast, Succeeded, Last
  <2>q. QED
        BY <2>1, <2>2
<1>3. CASE Succeeded /\ FirstValue(strRst) = {}
  <2>1. SearchResult.code = "UNKNOWN"
        BY <1>3 DEF SearchResult, Parsed, Result
  <2>2. ASSUME NEW i \in DOMAIN tried, FirstText(i) PROVE Unreadable(tried[i])
    <3> DEFINE t == tried[i]
    <3>1. t \in Transfer /\ t.got > 0 /\ Begins(strRst, t)
          BY <1>1, <2>2 DEF SearchInv, StoredFirst, FirstText
    <3>2. t.body \in Seq(STRING) /\ t.got \in Nat
          BY <3>1, BodiesAssumption DEF Transfer
    <3> HIDE DEF t
    <3>3. t.got <= Len(strRst) /\ Len(strRst) \in Nat /\ \A k \in 1 .. t.got : strRst[k] = t.body[k]
          BY <1>1, <3>1 DEF Begins
    <3>4. t.body[1] # Scalar
      <4>1. ASSUME t.body[1] = Scalar PROVE FALSE
        <5>1. 1 \in 0 .. Len(strRst) /\ strRst[1] = Scalar
              BY <3>1, <3>2, <3>3, <4>1
        <5>2. <<Scalar>> = SubSeq(strRst, 1, 1)
              BY <1>1, <5>1
        <5>3. <<Scalar>> \in FirstValue(strRst)
              BY <1>1, <5>1, <5>2, FirstValueIs DEF IsValue
        <5>q. QED
              BY <1>3, <5>3
      <4>q. QED
            BY <4>1
    <3>5. ASSUME IsArray(t.body) \/ IsObject(t.body), t.got = Len(t.body) PROVE FALSE
      <4>1. Len(t.body) \in 0 .. Len(strRst)
            BY <3>2, <3>3, <3>5
      <4>2. t.body = SubSeq(strRst, 1, Len(t.body))
        <5> DEFINE n == Len(t.body)
        <5> DEFINE c == t.body
        <5>1. c \in Seq(STRING) /\ n = Len(c) /\ n \in 0 .. Len(strRst)
              BY <3>2, <4>1
        <5>2. \A k \in 1 .. n : strRst[k] = c[k]
              BY <3>3, <3>5
        <5> HIDE DEF n, c
        <5>3. /\ SubSeq(strRst, 1, n) \in Seq(STRING) /\ Len(SubSeq(strRst, 1, n)) = n
              /\ \A k \in 1 .. n : SubSeq(strRst, 1, n)[k] = strRst[k]
              BY <1>1, <5>1
        <5>4. c = SubSeq(strRst, 1, n)
              BY <5>1, <5>2, <5>3
        <5>q. QED
              BY <5>4 DEF n, c
      <4>3. IsValue(t.body)
            BY <3>5 DEF IsValue, IsEnclosed
      <4>4. t.body \in FirstValue(strRst)
            BY <1>1, <4>1, <4>2, <4>3, FirstValueIs
      <4>q. QED
            BY <1>3, <4>4
    <3>q. QED
          BY <3>4, <3>5 DEF Unreadable, t
  <2>q. QED
        BY <1>3, <2>1, <2>2
<1>4. CASE Succeeded /\ FirstValue(strRst) # {}
  <2> DEFINE b == CHOOSE b \in FirstValue(strRst) : TRUE
  <2>1. b \in FirstValue(strRst)
        BY <1>4
  <2>2. SearchResult.code = "SUCCESS" /\ SearchResult.symbols = ToProtoSymbolByName(b)
        BY <1>4 DEF SearchResult, Parsed, Result
  <2>3. ~(IsObject(b) /\ Len(b) > 2)
        BY <1>4, <2>1 DEF Throws
  <2> HIDE DEF b
  <2>4. PICK i \in DOMAIN tried : FirstText(i) /\ Brings(tried[i], b)
        BY <2>1 DEF SearchInv, FirstIsWhole
  <2> DEFINE t == tried[i]
  <2>5. Justifies(t, ToProtoSymbolByName(b))
    <3>1. CASE b = <<Scalar>>
      <4>1. ~IsArray(b)
            BY <3>1 DEF IsArray, Enclosed
      <4>q. QED
            BY <2>4, <3>1, <4>1 DEF Justifies, Brings, ToProtoSymbolByName
    <3>2. CASE b # <<Scalar>> /\ IsArray(b)
          BY <2>4, <3>2 DEF Justifies, Brings, ToProtoSymbolByName
    <3>3. CASE b # <<Scalar>> /\ ~IsArray(b)
      <4>1. IsObject(b) /\ b \in Seq(STRING)
            BY <1>1, <2>1, <3>3, FirstValueIs DEF IsValue, IsEnclosed
      <4>2. Len(b) = 2 /\ b[1] = OpenO /\ b[2] = CloseO
        <5>1. Len(b) \in Nat /\ Len(b) >= 2 /\ b[1] = OpenO /\ b[Len(b)] = CloseO
              BY <4>1 DEF IsObject, Enclosed
        <5> DEFINE l == Len(b)
        <5>2. ~(l > 2) /\ l \in Nat /\ l >= 2
              BY <2>3, <4>1, <5>1
        <5> HIDE DEF l
        <5>3. l = 2
              BY <5>2
        <5> USE DEF l
        <5>q. QED
              BY <5>1, <5>3
      <4>3. b = <<OpenO, CloseO>>
            BY <4>1, <4>2
      <4>q. QED
            BY <2>4, <3>3, <4>3 DEF Justifies, Brings, ToProtoSymbolByName
    <3>q. QED
          BY <3>1, <3>2, <3>3
  <2>q. QED
        BY <1>4, <2>2, <2>4, <2>5
<1>q. QED
      BY <1>2, <1>3, <1>4

-----------------------------------------------------------------------------
(* The connection *)

\* A search that has not begun.
NoSearch == strRst = <<>> /\ tried = <<>> /\ try_nums \in 0 .. TryNums

\* It has nothing that could be wrong.
LEMMA NoSearchInv ==
  ASSUME NoSearch
  PROVE  SearchInv
<1>1. /\ strRst = <<>> /\ tried = <<>> /\ try_nums \in 0 .. TryNums
      /\ tried \in Seq(Transfer) /\ Len(tried) = 0 /\ DOMAIN tried = {}
      /\ strRst \in Seq(STRING) /\ Len(strRst) = 0
      BY DEF NoSearch
<1>2. FirstValue(strRst) = {}
  <2>1. ASSUME NEW b \in FirstValue(strRst) PROVE FALSE
    <3>1. PICK n \in 0 .. Len(strRst) : b = SubSeq(strRst, 1, n)
          BY <1>1, <2>1, FirstValueIs
    <3>2. Len(b) = 0
          BY <1>1, <3>1
    <3>3. IsValue(b)
          BY <1>1, <2>1, FirstValueIs
    <3>q. QED
          BY <3>2, <3>3, EnclosedIs DEF IsValue
  <2>q. QED
        BY <2>1
<1>3. SearchType
      BY <1>1, TryNumsAssumption DEF SearchType
<1>q. QED
      BY <1>1, <1>2, <1>3 DEF SearchInv, FirstIsWhole, OkIsLast, StoredFirst

\* A step that leaves a search alone.
LEMMA SearchUnchanged ==
  ASSUME SearchInv, UNCHANGED searchVars
  PROVE  /\ SearchInv' /\ SearchResult' = SearchResult
         /\ Succeeded' = Succeeded /\ Throws(strRst)' = Throws(strRst)
<1>1. strRst' = strRst /\ try_nums' = try_nums /\ tried' = tried
      BY DEF searchVars
<1>2. \A i : FirstText(i)' = FirstText(i)
      BY <1>1 DEF FirstText
<1>3. SearchInv'
      BY <1>1, <1>2 DEF SearchInv, SearchType, FirstIsWhole, OkIsLast, StoredFirst
<1>4. Succeeded' = Succeeded /\ Throws(strRst)' = Throws(strRst)
      BY <1>1 DEF Succeeded, Throws
<1>q. QED
      BY <1>1, <1>3, <1>4 DEF SearchResult

\* The parts of a reply.
LEMMA ReplyIs ==
  ASSUME NEW s, NEW l, NEW c
  PROVE  /\ Reply(s, l, c).status = s /\ Reply(s, l, c).length = l
         /\ Reply(s, l, c).content = c
         /\ Reply(s, l, c) = Reply(Reply(s, l, c).status, Reply(s, l, c).length,
                                   Reply(s, l, c).content)
  BY DEF Reply

\* The parts of a content.
LEMMA ContentIs ==
  ASSUME NEW n, NEW by, NEW size, NEW r
  PROVE  /\ Content(n, by, size, r).of = n /\ Content(n, by, size, r).by = by
         /\ Content(n, by, size, r).size = size /\ Content(n, by, size, r).result = r
  BY DEF Content

\* A set of one handler.
LEMMA OneCalled ==
  ASSUME NEW a \in Apis
  PROVE  {a} \subseteq Apis /\ Cardinality({a}) <= 1
  BY FS_Singleton

\* A request that is refused with a page of its own.
LEMMA RefusedStep ==
  ASSUME Inv, NEW r \in Request, number < MaxRequests, number' = number + 1,
         m_request' = r, called' = {}, m_reply' = stock_reply("bad_request"),
         state' = "writing", UNCHANGED searchVars
  PROVE  Inv'
<1>1. /\ m_reply'.status = "bad_request" /\ m_reply'.length = 3
      /\ m_reply'.content = Page(number')
      /\ m_reply' = Reply(m_reply'.status, m_reply'.length, m_reply'.content)
      /\ Page(number').of = number' /\ Page(number').by = "stock"
      BY ReplyIs, ContentIs DEF stock_reply, Page
<1>2. SearchInv'
      BY SearchUnchanged DEF Inv
<1>3. TypeOK'
      BY <1>1, <1>2, FS_EmptySet, BoundsAssumption
      DEF Inv, TypeOK, searchVars
<1>4. ReplyInv' /\ OwnContent'
      BY <1>1 DEF ReplyInv, OwnContent
<1>q. QED
      BY <1>2, <1>3, <1>4 DEF Inv

\* No handler: only the status changes.
LEMMA HandleUnknownStep ==
  ASSUME Inv, NEW r \in Request, number < MaxRequests, HandleUnknown(r)
  PROVE  Inv'
<1>1. /\ number' = number + 1 /\ m_request' = r /\ called' = {} /\ state' = "writing"
      /\ m_reply' = [m_reply EXCEPT !.status = "not_found"] /\ UNCHANGED searchVars
      BY DEF HandleUnknown, Received
<1>2. /\ m_reply'.status = "not_found" /\ m_reply'.length = m_reply.length
      /\ m_reply' = Reply(m_reply'.status, m_reply'.length, m_reply'.content)
      BY <1>1 DEF Inv, ReplyInv, Reply
<1>3. SearchInv'
      BY <1>1, SearchUnchanged DEF Inv
<1>4. TypeOK'
      BY <1>1, <1>2, <1>3, FS_EmptySet, BoundsAssumption
      DEF Inv, TypeOK, searchVars
<1>5. ReplyInv' /\ OwnContent'
      BY <1>1, <1>2 DEF ReplyInv, OwnContent
<1>q. QED
      BY <1>3, <1>4, <1>5 DEF Inv

\* A handler is called, and the search begins or the reply is complete.
LEMMA HandleRequestStep ==
  ASSUME Inv, NEW r \in Request, number < MaxRequests, NEW a \in Apis, HandleRequest(r, a)
  PROVE  Inv'
<1>1. number' = number + 1 /\ m_request' = r /\ called' = {a}
      BY DEF HandleRequest, Received
<1>2. number' \in 0 .. MaxRequests /\ called' \subseteq Apis /\ Cardinality(called') <= 1
      BY <1>1, OneCalled, BoundsAssumption DEF Inv, TypeOK
<1>3. CASE a = SearchApi /\ state' = "searching" /\ SearchStart /\ UNCHANGED m_reply
  <2>1. strRst' = <<>> /\ tried' = <<>> /\ try_nums' \in 0 .. TryNums
        BY <1>3, TryNumsAssumption DEF SearchStart
  <2>2. SearchInv'
    <3>1. NoSearch'
          BY <2>1 DEF NoSearch
    <3>q. QED
          BY <3>1, NoSearchInv, PTL
  <2>3. Len(tried') <= TryNums
        BY <2>1, TryNumsAssumption
  <2>4. TypeOK'
        BY <1>1, <1>2, <1>3, <2>1, <2>3 DEF Inv, TypeOK
  <2>5. ReplyInv' /\ OwnContent'
        BY <1>1, <1>3 DEF Inv, ReplyInv, OwnContent
  <2>q. QED
        BY <2>2, <2>4, <2>5 DEF Inv
<1>4. ASSUME a # SearchApi, UNCHANGED searchVars, NEW size \in Sizes,
             BuidlReply(Content(number', a, size, Result("any", <<>>)))
      PROVE  Inv'
  <2> DEFINE c == Content(number', a, size, Result("any", <<>>))
  <2>1. c.of = number' /\ c.by = a /\ c.size = size /\ size \in Nat
        BY ContentIs, BoundsAssumption
  <2>2. m_reply' = Reply("ok", c.size, c) /\ state' = "writing"
        BY <1>4 DEF BuidlReply
  <2> HIDE DEF c
  <2>3. /\ m_reply'.status = "ok" /\ m_reply'.length = c.size /\ m_reply'.content = c
        /\ m_reply' = Reply(m_reply'.status, m_reply'.length, m_reply'.content)
        BY <2>2, ReplyIs
  <2>4. SearchInv'
        BY <1>4, SearchUnchanged DEF Inv
  <2>5. TypeOK'
        BY <1>1, <1>2, <1>4, <2>1, <2>2, <2>3 DEF Inv, TypeOK, searchVars
  <2>6. ReplyInv' /\ OwnContent'
        BY <1>1, <1>4, <2>1, <2>2, <2>3 DEF ReplyInv, OwnContent
  <2>q. QED
        BY <2>4, <2>5, <2>6 DEF Inv
<1>q. QED
      BY <1>3, <1>4 DEF HandleRequest

\* A transfer of the search ends.
LEMMA SearchTryStep ==
  ASSUME Inv, SearchTry
  PROVE  Inv'
<1>1. PICK b \in Bodies, ok \in BOOLEAN : \E k \in 0 .. Len(b) : CurlPerform(b, k, ok)
      BY DEF SearchTry
<1>2. PICK k \in 0 .. Len(b) : CurlPerform(b, k, ok)
      BY <1>1
<1>3. SearchInv'
      BY <1>2, CurlPerformStep DEF Inv
<1>4. state = "searching" /\ UNCHANGED connVars
      BY DEF SearchTry
<1>5. try_nums' \in 0 .. TryNums /\ Len(tried') <= TryNums
      BY <1>3, TryNumsAssumption DEF SearchInv, SearchType
<1>6. TypeOK'
      BY <1>4, <1>5 DEF Inv, TypeOK, connVars
<1>7. ReplyInv' /\ OwnContent'
      BY <1>4 DEF Inv, ReplyInv, OwnContent, connVars
<1>q. QED
      BY <1>3, <1>6, <1>7 DEF Inv

\* The search is over and its result is the reply.
LEMMA SearchDoneStep ==
  ASSUME Inv, SearchDone
  PROVE  Inv'
<1>1. /\ state = "searching" /\ ~(Succeeded /\ Throws(strRst))
      /\ UNCHANGED <<number, m_request, called, m_is_long_connection, searchVars>>
      BY DEF SearchDone, SearchEnded
<1>2. PICK size \in Sizes : BuidlReply(Content(number, SearchApi, size, SearchResult))
      BY DEF SearchDone
<1> DEFINE c == Content(number, SearchApi, size, SearchResult)
<1>3. /\ c.of = number /\ c.by = SearchApi /\ c.size = size /\ size \in Nat
      /\ c.result = SearchResult
      BY ContentIs, BoundsAssumption
<1>4. m_reply' = Reply("ok", c.size, c) /\ state' = "writing"
      BY <1>2 DEF BuidlReply
<1> HIDE DEF c
<1>5. /\ m_reply'.status = "ok" /\ m_reply'.length = c.size /\ m_reply'.content = c
      /\ m_reply' = Reply(m_reply'.status, m_reply'.length, m_reply'.content)
      BY <1>4, ReplyIs
<1>6. SearchInv' /\ SearchResult' = SearchResult /\ ~(Succeeded /\ Throws(strRst))'
      BY <1>1, SearchUnchanged DEF Inv
<1>7. TypeOK'
      BY <1>1, <1>3, <1>4, <1>5 DEF Inv, TypeOK, searchVars
<1>8. called' = {SearchApi}
      BY <1>1 DEF Inv, ReplyInv
<1>9. ReplyInv' /\ OwnContent'
      BY <1>1, <1>3, <1>4, <1>5, <1>6, <1>8 DEF ReplyInv, OwnContent
<1>q. QED
      BY <1>6, <1>7, <1>9 DEF Inv

\* The process ends.
LEMMA SearchThrowsStep ==
  ASSUME Inv, SearchThrows
  PROVE  Inv'
<1>1. /\ state' = "terminated"
      /\ UNCHANGED <<number, m_request, called, m_reply, m_is_long_connection, searchVars>>
      BY DEF SearchThrows
<1>2. SearchInv'
      BY <1>1, SearchUnchanged DEF Inv
<1>3. TypeOK'
      BY <1>1 DEF Inv, TypeOK, searchVars
<1>4. ReplyInv' /\ OwnContent'
      BY <1>1 DEF Inv, ReplyInv, OwnContent
<1>q. QED
      BY <1>2, <1>3, <1>4 DEF Inv

\* The reply is written, or the connection fails.
LEMMA ForgetStep ==
  ASSUME Inv, Forget, state' \in {"reading", "closed"}
  PROVE  Inv'
<1>1. /\ m_request' = NoRequest /\ called' = {} /\ strRst' = <<>> /\ try_nums' = 0
      /\ tried' = <<>> /\ UNCHANGED <<number, m_reply, m_is_long_connection>>
      BY DEF Forget
<1>2. NoSearch'
      BY <1>1, TryNumsAssumption DEF NoSearch
<1>3. SearchInv'
      BY <1>2, NoSearchInv, PTL
<1>4. Len(tried') <= TryNums /\ try_nums' \in 0 .. TryNums
      BY <1>1, TryNumsAssumption
<1>5. TypeOK'
      BY <1>1, <1>4, FS_EmptySet DEF Inv, TypeOK
<1>6. ReplyInv' /\ OwnContent'
      BY <1>1 DEF Inv, ReplyInv, OwnContent
<1>q. QED
      BY <1>3, <1>5, <1>6 DEF Inv

\* A connection starts with a reply that is not one.
LEMMA InitInv == Init => Inv
<1> SUFFICES ASSUME Init PROVE Inv
    OBVIOUS
<1>1. /\ state = "reading" /\ number = 0 /\ m_request = NoRequest /\ called = {}
      /\ m_reply = Reply("unset", NoLength, Empty) /\ m_is_long_connection = FALSE
      /\ strRst = <<>> /\ try_nums = 0 /\ tried = <<>>
      BY DEF Init
<1>2. /\ m_reply.status = "unset" /\ m_reply.length = NoLength
      /\ m_reply = Reply(m_reply.status, m_reply.length, m_reply.content)
      BY <1>1, ReplyIs
<1>3. NoSearch
      BY <1>1, TryNumsAssumption DEF NoSearch
<1>4. TypeOK
      BY <1>1, <1>2, FS_EmptySet, TryNumsAssumption, BoundsAssumption DEF TypeOK
<1>q. QED
      BY <1>1, <1>2, <1>3, <1>4, NoSearchInv DEF Inv, ReplyInv, OwnContent

\* Every step keeps the invariant.
LEMMA NextInv == Inv /\ [Next]_vars => Inv'
<1> SUFFICES ASSUME Inv, [Next]_vars PROVE Inv'
    OBVIOUS
<1>1. ASSUME NEW r \in Request, number < MaxRequests, HandleUnparsed(r) PROVE Inv'
      BY <1>1, RefusedStep DEF HandleUnparsed
<1>2. ASSUME NEW r \in Request, number < MaxRequests, HandleUndecodable(r) PROVE Inv'
      BY <1>2, RefusedStep DEF HandleUndecodable, Received
<1>3. ASSUME NEW r \in Request, number < MaxRequests, HandleUnknown(r) PROVE Inv'
      BY <1>3, HandleUnknownStep
<1>4. ASSUME NEW r \in Request, number < MaxRequests, NEW a \in Apis, HandleRequest(r, a)
      PROVE  Inv'
      BY <1>4, HandleRequestStep
<1>5. CASE HandleRead
      BY <1>1, <1>2, <1>3, <1>4, <1>5 DEF HandleRead
<1>6. CASE SearchTry
      BY <1>6, SearchTryStep
<1>7. CASE SearchDone
      BY <1>7, SearchDoneStep
<1>t. CASE SearchThrows
      BY <1>t, SearchThrowsStep
<1>8. CASE HandleWrite
      BY <1>8, ForgetStep DEF HandleWrite
<1>9. CASE Fails
      BY <1>9, ForgetStep DEF Fails
<1>10. CASE UNCHANGED vars
  <2>1. UNCHANGED connVars /\ UNCHANGED searchVars
        BY <1>10 DEF vars
  <2>2. /\ SearchInv' /\ SearchResult' = SearchResult
        /\ (Succeeded /\ Throws(strRst))' = (Succeeded /\ Throws(strRst))
        BY <2>1, SearchUnchanged DEF Inv
  <2>3. TypeOK' /\ ReplyInv' /\ OwnContent'
        BY <2>1, <2>2 DEF Inv, TypeOK, ReplyInv, OwnContent, connVars, searchVars
  <2>q. QED
        BY <2>2, <2>3 DEF Inv
<1>q. QED
      BY <1>5, <1>6, <1>7, <1>t, <1>8, <1>9, <1>10 DEF Next

-----------------------------------------------------------------------------
(* Routing *)

\* RoutedRight of a request and the handlers called for it.
Routed(r, c) ==
    /\ c \subseteq Named(r.uri) \cup m_handle_map(r.cmd)
    /\ \A a \in Apis : Plain(r.uri, a) => c = {a}

\* RoutedRight says it of the request that is handled.
LEMMA RoutedRightIs == RoutedRight <=> (state \in {"searching", "writing"} => Routed(m_request, called))
  BY DEF RoutedRight, Routed

\* No handler is called for a request that is refused: its uri is not plain.
LEMMA RefusedIsRouted ==
  ASSUME NEW r \in Request,
         \/ ~HasUri(r.uri)
         \/ Contains(Path(r.uri), "bad")
         \/ Found(Path(r.uri), r.cmd) = {}
  PROVE  Routed(r, {})
<1>1. r.uri \in Seq(STRING)
      BY UrisAssumption DEF Request
<1>2. ASSUME NEW a \in Apis, Plain(r.uri, a) PROVE FALSE
  <2>1. /\ HasUri(r.uri) /\ ~Contains(Path(r.uri), "bad")
        /\ m_handle_map(Path(r.uri)) = {a}
        BY <1>1, <1>2, PlainIs
  <2>q. QED
        BY <2>1 DEF Found
<1>q. QED
      BY <1>2 DEF Routed

\* The handler that is called is the one the uri names, or else the header.
LEMMA FoundIsRouted ==
  ASSUME NEW r \in Request, HasUri(r.uri), NEW a \in Found(Path(r.uri), r.cmd)
  PROVE  Routed(r, {a})
<1>1. r.uri \in Seq(STRING)
      BY UrisAssumption DEF Request
<1>2. a \in Named(r.uri) \cup m_handle_map(r.cmd)
  <2>1. CASE m_handle_map(Path(r.uri)) # {}
    <3>1. a \in m_handle_map(Path(r.uri))
          BY <2>1 DEF Found
    <3>q. QED
          BY <1>1, <3>1, PathIsNamed
  <2>2. CASE m_handle_map(Path(r.uri)) = {}
        BY <2>2 DEF Found
  <2>q. QED
        BY <2>1, <2>2
<1>3. ASSUME NEW b \in Apis, Plain(r.uri, b) PROVE {a} = {b}
  <2>1. m_handle_map(Path(r.uri)) = {b}
        BY <1>1, <1>3, PlainIs
  <2>q. QED
        BY <2>1 DEF Found
<1>q. QED
      BY <1>2, <1>3 DEF Routed

\* Every step keeps RoutedRight: a request is routed when it is read, and stays
\* what it is until its reply is written.
LEMMA RoutedStep == RoutedRight /\ [Next]_vars => RoutedRight'
<1> SUFFICES ASSUME RoutedRight, [Next]_vars,
                    state' \in {"searching", "writing"}
             PROVE  Routed(m_request', called')
    BY DEF RoutedRight, Routed
<1>1. ASSUME NEW r \in Request, m_request' = r, called' = {},
             \/ ~HasUri(r.uri)
             \/ Contains(Path(r.uri), "bad")
             \/ Found(Path(r.uri), r.cmd) = {}
      PROVE  Routed(m_request', called')
      BY <1>1, RefusedIsRouted
<1>2. ASSUME NEW r \in Request, NEW a \in Apis, HandleRequest(r, a)
      PROVE  Routed(m_request', called')
  <2>1. m_request' = r /\ called' = {a} /\ HasUri(r.uri) /\ a \in Found(Path(r.uri), r.cmd)
        BY <1>2 DEF HandleRequest, Received
  <2>q. QED
        BY <2>1, FoundIsRouted
<1>3. CASE HandleRead
  <2>1. PICK r \in Request : \/ HandleUnparsed(r) \/ HandleUndecodable(r) \/ HandleUnknown(r)
                             \/ \E a \in Apis : HandleRequest(r, a)
        BY <1>3 DEF HandleRead
  <2>2. CASE HandleUnparsed(r)
        BY <1>1, <2>2 DEF HandleUnparsed
  <2>3. CASE HandleUndecodable(r)
        BY <1>1, <2>3 DEF HandleUndecodable, Received
  <2>4. CASE HandleUnknown(r)
        BY <1>1, <2>4 DEF HandleUnknown, Received
  <2>q. QED
        BY <1>2, <2>1, <2>2, <2>3, <2>4
<1>4. ASSUME state \in {"searching", "writing"}, UNCHANGED <<m_request, called>>
      PROVE  Routed(m_request', called')
  <2>1. Routed(m_request, called)
        BY <1>4, RoutedRightIs
  <2>q. QED
        BY <1>4, <2>1
<1>5. CASE SearchTry
      BY <1>4, <1>5 DEF SearchTry, connVars
<1>6. CASE SearchDone
      BY <1>4, <1>6 DEF SearchDone, SearchEnded
<1>t. CASE SearchThrows
      BY <1>t DEF SearchThrows
<1>7. CASE HandleWrite \/ Fails
      BY <1>7 DEF HandleWrite, Fails
<1>8. CASE UNCHANGED vars
  <2>1. state' = state /\ m_request' = m_request /\ called' = called
        BY <1>8 DEF vars, connVars
  <2>q. QED
        BY <1>4, <2>1
<1>q. QED
      BY <1>3, <1>5, <1>6, <1>t, <1>7, <1>8 DEF Next

-----------------------------------------------------------------------------
(* Theorems *)

\* The inductive invariant of the connection and its search.
THEOREM Invariance == Spec => []Inv
  BY InitInv, NextInv, PTL DEF Spec

\* Every variable has its type, and fnDoCurl makes at most try_nums transfers.
THEOREM TypeCorrect == Spec => []TypeOK
  BY Invariance, PTL DEF Inv

\* What is sent as a success or a bad request was made for this very request.
THEOREM RepliesAreOwn == Spec => []OwnContent
  BY Invariance, PTL DEF Inv

\* Whatever uri a peer sends, the handler that runs is the one its first segment
\* names or, for lack of one, its User-cmd header; a plain uri is never
\* overridden.
THEOREM RequestsAreRouted == Spec => []RoutedRight
<1>1. Init => RoutedRight
      BY DEF Init, RoutedRight
<1>q. QED
      BY <1>1, RoutedStep, PTL DEF Spec

\* A search never mixes its tries, and its code says what became of them.
THEOREM SearchesAreTrue == Spec => []SearchIsTrue
<1>1. Inv => SearchIsTrue
  <2> SUFFICES ASSUME Inv, state = "writing", m_reply.status = "ok", called = {SearchApi}
               PROVE  SearchIsTrue
      BY DEF SearchIsTrue
  <2>1. m_reply.content.result = SearchResult
        BY DEF Inv, ReplyInv
  <2>2. SearchInv
        BY DEF Inv
  <2>s. ~(Succeeded /\ Throws(strRst))
        BY DEF Inv, ReplyInv
  <2> DEFINE result == m_reply.content.result
  <2>3. /\ result.code = "SUCCESS" =>
              /\ Succeeded
              /\ \E i \in DOMAIN tried : FirstText(i) /\ Justifies(tried[i], result.symbols)
        /\ result.code = "INFO_BUSY" => \A i \in DOMAIN tried : ~tried[i].ok
        /\ result.code = "UNKNOWN" =>
              /\ Succeeded
              /\ \A i \in DOMAIN tried : FirstText(i) => Unreadable(tried[i])
        BY <2>1, <2>2, <2>s, SearchResultIs
  <2>q. QED
        BY <2>3 DEF SearchIsTrue, Justifies, Unreadable
<1>q. QED
      BY <1>1, Invariance, PTL

\* A connection is used again only after a reply the peer can delimit.
THEOREM ReuseIsDelimited == Spec => ReusedIsDelimited
<1>1. ASSUME Inv, [Next]_vars, state = "writing", state' = "reading"
      PROVE  m_reply.length = m_reply.content.size /\ m_reply.content.of = number
  <2>1. m_reply.status = "ok"
        BY <1>1 DEF Next, HandleRead, SearchTry, SearchEnded, SearchDone, SearchThrows,
                    HandleWrite, Fails, vars, connVars
  <2>q. QED
        BY <1>1, <2>1 DEF Inv, ReplyInv, OwnContent
<1>2. Inv /\ [Next]_vars =>
         [state = "writing" /\ state' = "reading" =>
             m_reply.length = m_reply.content.size /\ m_reply.content.of = number]_vars
      BY <1>1
<1>q. QED
      BY <1>2, Invariance, PTL DEF Spec, ReusedIsDelimited
=============================================================================
