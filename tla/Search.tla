------------------------------- MODULE Search -------------------------------
(***************************************************************************)
(* The search handler, QuerySymbolByName: fnDoCurl asks the search server  *)
(* up to two times and stores what arrives in one string, which is then    *)
(* read as JSON and should be an array.                                    *)
(*                                                                         *)
(* The search server, libcurl and jsoncpp are external.  A transfer may    *)
(* deliver any part of a body and then fail, or end early without failing  *)
(* (a body that ends where the connection does).  The JSON reader takes    *)
(* the first value of the string, of whatever kind, and ignores what       *)
(* follows it.                                                             *)
(***************************************************************************)
EXTENDS Integers, Sequences, SequencesExt

CONSTANTS
    Bodies,    \* what the search server may answer
    TryNums    \* try_nums

ASSUME TryNumsAssumption == TryNums \in Nat \ {0}

VARIABLES
    strRst,    \* the string that curlStroreRst appends to
    try_nums,
    tried      \* history: the transfers of this search

searchVars == <<strRst, try_nums, tried>>

\* A body is a sequence of tokens: a JSON array of records, an object, or text
\* that has neither but may begin with a scalar (a number, null, a string).
Open   == "["
Close  == "]"
OpenO  == "{"
CloseO == "}"
Brackets == {Open, Close, OpenO, CloseO}
Scalar   == "scalar"

Enclosed(b, open, close) ==
    /\ Len(b) >= 2 /\ b[1] = open /\ b[Len(b)] = close
    /\ \A i \in 2 .. Len(b) - 1 : b[i] \notin Brackets
IsArray(b)  == Enclosed(b, Open, Close)
IsObject(b) == Enclosed(b, OpenO, CloseO)

\* The arrays of the search server are of records; of an object only whether
\* it has members matters.
ASSUME BodiesAssumption ==
    \A b \in Bodies :
        /\ b \in Seq(STRING)
        /\ \/ IsArray(b) /\ \A i \in DOMAIN b : b[i] # Scalar
           \/ IsObject(b)
           \/ \A i \in DOMAIN b : b[i] \notin Brackets

\* The value the reader finds at the beginning of s: one, or none.
FirstValue(s) ==
    {b \in Prefixes(s) : IsArray(b) \/ IsObject(b) \/ b = <<Scalar>>}

\* The items of an array; root.size() is 0 for a scalar and an empty object.
ToProtoSymbolByName(b) == IF IsArray(b) THEN SubSeq(b, 2, Len(b) - 1) ELSE <<>>

\* root[i] of an object that has members throws.
Throws(s) == \E b \in FirstValue(s) : IsObject(b) /\ Len(b) > 2

\* The status and the symbols of a reply.
Result(code, symbols) == [code |-> code, symbols |-> symbols]

\* QuerySymbolByName after fnDoCurl returned 0: any value is a success.
Parsed(s) ==
    IF FirstValue(s) = {} THEN Result("UNKNOWN", <<>>)
    ELSE Result("SUCCESS", ToProtoSymbolByName(CHOOSE b \in FirstValue(s) : TRUE))

\* QuerySymbolByName calls fnDoCurl with an empty string.
SearchStart == strRst' = <<>> /\ try_nums' = TryNums /\ tried' = <<>>

\* Faulty CurlPerform: a failed transfer is not counted.
CurlPerformUncounted(b, k, ok) ==
    /\ try_nums > 0
    /\ strRst' = strRst \o SubSeq(b, 1, k)
    /\ try_nums' = IF ok THEN 0 ELSE try_nums
    /\ tried' = Append(tried, [body |-> b, got |-> k, ok |-> ok])

\* curl_easy_perform delivers k tokens of body b and ends with or without error.
\* It is called again after an error, TryNums times in all.
CurlPerform(b, k, ok) ==
    /\ try_nums > 0
    /\ strRst' = strRst \o SubSeq(b, 1, k)
    /\ try_nums' = IF ok THEN 0 ELSE try_nums - 1
    /\ tried' = Append(tried, [body |-> b, got |-> k, ok |-> ok])

\* res after the loop.
Succeeded == tried # <<>> /\ Last(tried).ok

\* Faulty SearchResult: the return code of the transfer is not looked at.
SearchResultUnchecked == Parsed(strRst)

\* The loop has ended, or curl_easy_init failed.
SearchResult == IF Succeeded THEN Parsed(strRst) ELSE Result("INFO_BUSY", <<>>)
=============================================================================
