------------------------------ MODULE Dispatch ------------------------------
(***************************************************************************)
(* What becomes of the requests of one connection: the uri is trimmed by   *)
(* the parser, decoded and looked up by the handler, and the reply is put  *)
(* together in m_reply, one object for all requests of the connection.     *)
(* The search handler is stepped through (Search); the others are in       *)
(* FuturesProxy and here one step with any result.                         *)
(*                                                                         *)
(* A token of a uri is a character, a whole name, or "http://".  Names do  *)
(* not begin with a hexadecimal digit.                                     *)
(***************************************************************************)
EXTENDS Search, Lists

CONSTANTS
    Apis,          \* names of registered handlers
    Uris,          \* the uris a peer may ask for
    Cmds,          \* what it may put into a User-cmd header; <<>> for none
    Sizes,         \* how long a serialised result may be
    MaxRequests    \* requests on the connection

SearchApi == "QuerySymbolByName"

ASSUME ApisAssumption == SearchApi \in Apis

\* A name is not one of the characters, and nothing decodes to it but itself.
ASSUME NamesAssumption ==
    Apis \cap {"/", "?", "%", "+", " ", "http://", "control", "bad"} = {}
ASSUME UrisAssumption == Uris \subseteq Seq(STRING)
ASSUME BoundsAssumption == Sizes \subseteq Nat /\ MaxRequests \in Nat

VARIABLES
    state,         \* what the connection does
    number,        \* how many requests it has had
    m_request,     \* while it is handled; then, as a history, until it is answered
    called,        \* history: the handler that was called for it
    m_reply,
    m_is_long_connection

connVars == <<state, number, m_request, called, m_reply, m_is_long_connection>>
vars     == <<connVars, searchVars>>

Request   == [uri : Uris, cmd : Cmds, keep : BOOLEAN]
NoRequest == [uri |-> <<>>, cmd |-> <<>>, keep |-> FALSE]

\* The content of a reply: who made it, for which request, and how long it is.
Content(n, by, size, result) ==
    [of |-> n, by |-> by, size |-> size, result |-> result]
Empty == Content(0, "none", 0, Result("none", <<>>))

\* The Content-Length of a reply without headers.
NoLength == -1

-----------------------------------------------------------------------------
(* The uri *)

\* s up to the first c that is not its first token; up to the first c.
CutAfterFirst(s, c) ==
    IF s # <<>> /\ s[1] # c /\ Contains(s, c)
    THEN SubSeq(s, 1, SelectInSeq(s, LAMBDA x : x = c) - 1) ELSE s
CutAt(s, c) == IF s # <<>> /\ s[1] = c THEN <<>> ELSE CutAfterFirst(s, c)

\* get_http_uri leaves out one slash in front.
Unslashed(u) == IF u # <<>> /\ u[1] = "/" THEN Tail(u) ELSE u

Stripped(u) == Pick(u, {i \in DOMAIN u : u[i] # "http://"})
TrimUri(u)  == CutAfterFirst(CutAt(Stripped(u), "?"), "/")

HexDigits == {"2", "F"}

\* The character the two tokens after a % stand for, as istringstream reads a
\* number: it may have a sign, and ends where the digits do.
Unescaped(x, y) ==
    IF x = "2" /\ y = "F" THEN "/"
    ELSE IF x \in HexDigits \/ (x = "+" /\ y \in HexDigits) THEN "control"
    ELSE "bad"

\* UrlDecode; it returns false if the result contains "bad".
UrlDecode(u) ==
    LET from[i \in 1 .. Len(u) + 1] ==
            IF i > Len(u) THEN <<>>
            ELSE IF u[i] # "%" THEN <<IF u[i] = "+" THEN " " ELSE u[i]>> \o from[i + 1]
            ELSE IF i + 2 > Len(u) THEN <<"bad">>
            ELSE <<Unescaped(u[i + 1], u[i + 2])>> \o from[i + 3]
    IN  from[1]

\* Faulty Path: the uri is decoded before it is trimmed.
PathDecodedFirst(u) == TrimUri(UrlDecode(Unslashed(u)))

\* The path that is looked up.
Path(u) == UrlDecode(TrimUri(Unslashed(u)))

\* prase_http refuses a request whose uri is empty, before or after TrimUri.
HasUri(u) == Unslashed(u) # <<>> /\ TrimUri(Unslashed(u)) # <<>>

\* REGISTE_HANDLE enters every handler under two paths.
m_handle_map(p) == {a \in Apis : p \in {<<a>>, <<"/", a>>}}

\* The handler of a request: the path counts, then the User-cmd header.
Found(p, cmd) == IF m_handle_map(p) # {} THEN m_handle_map(p) ELSE m_handle_map(cmd)

-----------------------------------------------------------------------------
(* The reply *)

Reply(status, length, content) ==
    [status |-> status, length |-> length, content |-> content]

\* BuidlReply and stock_reply: content, headers and status are all replaced.
BuidlReply(content) ==
    /\ m_reply' = Reply("ok", content.size, content)
    /\ state' = "writing"

Page(n) == Content(n, "stock", 3, Result("none", <<>>))
stock_reply(status) == Reply(status, Page(number').size, Page(number'))

\* A request arrives: m_is_long_connection is set and never reset.
Received(r) ==
    /\ number' = number + 1
    /\ m_request' = r
    /\ m_is_long_connection' = (m_is_long_connection \/ r.keep)

-----------------------------------------------------------------------------
(* HandleRequest *)

\* The parser refuses the request.
HandleUnparsed(r) ==
    /\ ~HasUri(r.uri)
    /\ number' = number + 1 /\ m_request' = r /\ called' = {}
    /\ m_reply' = stock_reply("bad_request")
    /\ state' = "writing"
    /\ UNCHANGED <<m_is_long_connection, searchVars>>

\* Faulty HandleUndecodable: only the status of m_reply is set.
HandleUndecodableStale(r) ==
    /\ Received(r) /\ HasUri(r.uri) /\ Contains(Path(r.uri), "bad")
    /\ called' = {}
    /\ m_reply' = [m_reply EXCEPT !.status = "bad_request"]
    /\ state' = "writing"
    /\ UNCHANGED searchVars

\* The uri cannot be decoded.
HandleUndecodable(r) ==
    /\ Received(r) /\ HasUri(r.uri) /\ Contains(Path(r.uri), "bad")
    /\ called' = {}
    /\ m_reply' = stock_reply("bad_request")
    /\ state' = "writing"
    /\ UNCHANGED searchVars

\* ProccessReqFromHandle finds no handler: it sets the status, the rest of
\* m_reply stays what it was.
HandleUnknown(r) ==
    /\ Received(r) /\ HasUri(r.uri) /\ ~Contains(Path(r.uri), "bad")
    /\ Found(Path(r.uri), r.cmd) = {}
    /\ called' = {}
    /\ m_reply' = [m_reply EXCEPT !.status = "not_found"]
    /\ state' = "writing"
    /\ UNCHANGED searchVars

\* A handler is called; SearchApi goes on below.
HandleRequest(r, a) ==
    /\ Received(r) /\ HasUri(r.uri) /\ ~Contains(Path(r.uri), "bad")
    /\ a \in Found(Path(r.uri), r.cmd)
    /\ called' = {a}
    /\ \/ /\ a = SearchApi /\ state' = "searching" /\ SearchStart
          /\ UNCHANGED m_reply
       \/ /\ a # SearchApi
          /\ \E size \in Sizes :
                BuidlReply(Content(number', a, size, Result("any", <<>>)))
          /\ UNCHANGED searchVars

\* A transfer from the search server ends.
SearchTry ==
    /\ state = "searching"
    /\ \E b \in Bodies, ok \in BOOLEAN : \E k \in 0 .. Len(b) : CurlPerform(b, k, ok)
    /\ UNCHANGED connVars

\* fnDoCurl returns, after its tries or because curl_easy_init failed.
SearchEnded == state = "searching" /\ (try_nums = 0 \/ tried = <<>>)

\* QuerySymbolByName returns.
SearchDone ==
    /\ SearchEnded /\ ~(Succeeded /\ Throws(strRst))
    /\ \E size \in Sizes :
          BuidlReply(Content(number, SearchApi, size, SearchResult))
    /\ UNCHANGED <<number, m_request, called, m_is_long_connection, searchVars>>

\* Nobody catches what ToProtoSymbolByName throws: the process ends.
SearchThrows ==
    /\ SearchEnded /\ Succeeded /\ Throws(strRst)
    /\ state' = "terminated"
    /\ UNCHANGED <<number, m_request, called, m_reply, m_is_long_connection, searchVars>>

-----------------------------------------------------------------------------
(* HandleWrite *)

\* m_request is reset, and with it ends the history of the request.
Forget ==
    /\ m_request' = NoRequest /\ called' = {}
    /\ strRst' = <<>> /\ try_nums' = 0 /\ tried' = <<>>
    /\ UNCHANGED <<number, m_reply, m_is_long_connection>>

\* Faulty HandleWrite: the connection goes on whatever the status was.
HandleWriteAnyStatus ==
    /\ state = "writing"
    /\ state' = IF m_is_long_connection THEN "reading" ELSE "closed"
    /\ Forget

\* The reply is written: the next request is read after a success on a long
\* connection, else the connection is stopped.
HandleWrite ==
    /\ state = "writing"
    /\ state' = IF m_reply.status = "ok" /\ m_is_long_connection
                THEN "reading" ELSE "closed"
    /\ Forget

\* The read or the write fails.
Fails ==
    /\ state \in {"reading", "writing"} /\ state' = "closed"
    /\ Forget

\* A new connection: m_reply has no headers and no content yet.
Init ==
    /\ state = "reading" /\ number = 0
    /\ m_request = NoRequest /\ called = {}
    /\ m_reply = Reply("unset", NoLength, Empty)
    /\ m_is_long_connection = FALSE
    /\ strRst = <<>> /\ try_nums = 0 /\ tried = <<>>

\* A request has been read.
HandleRead ==
    /\ state = "reading" /\ number < MaxRequests
    /\ \E r \in Request :
          \/ HandleUnparsed(r) \/ HandleUndecodable(r) \/ HandleUnknown(r)
          \/ \E a \in Apis : HandleRequest(r, a)

Next ==
    \/ HandleRead
    \/ SearchTry \/ SearchDone \/ SearchThrows \/ HandleWrite \/ Fails

Spec == Init /\ [][Next]_vars

-----------------------------------------------------------------------------
(* Properties *)

\* Every variable has its type; fnDoCurl makes at most try_nums transfers.
TypeOK ==
    /\ state \in {"reading", "searching", "writing", "closed", "terminated"}
    /\ number \in 0 .. MaxRequests
    /\ m_request \in Request \cup {NoRequest}
    /\ called \subseteq Apis /\ Cardinality(called) <= 1
    /\ m_reply.status \in {"unset", "ok", "bad_request", "not_found"}
    /\ m_reply.length \in Nat \cup {NoLength}
    /\ try_nums \in 0 .. TryNums /\ Len(tried) <= TryNums

\* The names a uri can be said to have: what its first segment decodes to, a
\* segment ending at a slash or question mark the peer sent as such.
Separators == {"/", "?"}
Segments(u) ==
    {SubSeq(u, q[1], q[2]) : q \in
        {p \in (1 .. Len(u)) \X (1 .. Len(u)) :
            /\ \A k \in 1 .. p[1] - 1 : u[k] \in {"/", "http://"}
            /\ \A k \in p[1] .. p[2] : u[k] \notin Separators
            /\ p[2] = Len(u) \/ u[p[2] + 1] \in Separators}}
Named(u) ==
    UNION {m_handle_map(UrlDecode(Stripped(s))) : s \in Segments(u)}

\* A uri of the simplest form.
Plain(u, a) ==
    LET v == Unslashed(u)
    IN  v # <<>> /\ v[1] = a /\ (Len(v) = 1 \/ v[2] \in Separators)

\* The handler that runs is the one the first segment of the uri names, or the
\* User-cmd header; an escaped separator, a query or a later segment never
\* chooses it, and the header never overrides a plain uri.
RoutedRight ==
    state \in {"searching", "writing"} =>
        /\ called \subseteq Named(m_request.uri) \cup m_handle_map(m_request.cmd)
        /\ \A a \in Apis : Plain(m_request.uri, a) => called = {a}

\* What is sent as a success or as a bad request was made for this very request
\* by the handler that was called for it; only a 404 carries leftovers.
OwnContent ==
    state = "writing" /\ m_reply.status # "not_found" =>
        /\ m_reply.content.of = number
        /\ {m_reply.content.by} = IF m_reply.status = "ok" THEN called ELSE {"stock"}

\* A connection is used again only after a reply whose end the peer can tell:
\* its Content-Length is that of its content, and both are of this request.
ReusedIsDelimited ==
    [][state = "writing" /\ state' = "reading" =>
          /\ m_reply.length = m_reply.content.size
          /\ m_reply.content.of = number]_vars

\* The first transfer of a search that brought anything.
FirstText(i) == tried[i].got > 0 /\ \A j \in 1 .. i - 1 : tried[j].got = 0

\* A search that succeeds shows the symbols of one array that arrived as a
\* whole, never of two tries run together, or it shows nothing because what
\* came first is JSON of another kind; INFO_BUSY means that no transfer
\* succeeded, and UNKNOWN that the last one did, but what came first is no JSON
\* or was cut.
SearchIsTrue ==
    LET result == m_reply.content.result
        Whole(t) == t.got = Len(t.body)
    IN  state = "writing" /\ m_reply.status = "ok" /\ called = {SearchApi} =>
          /\ result.code = "SUCCESS" =>
                /\ Succeeded
                /\ \E i \in DOMAIN tried :
                      LET t == tried[i]
                      IN  /\ FirstText(i)
                          /\ \/ /\ IsArray(t.body) /\ Whole(t)
                                /\ result.symbols = SubSeq(t.body, 2, Len(t.body) - 1)
                             \/ /\ \/ t.body[1] = Scalar
                                   \/ t.body = <<OpenO, CloseO>> /\ Whole(t)
                                /\ result.symbols = <<>>
          /\ result.code = "INFO_BUSY" => \A i \in DOMAIN tried : ~tried[i].ok
          /\ result.code = "UNKNOWN" =>
                /\ Succeeded
                /\ \A i \in DOMAIN tried : FirstText(i) =>
                      LET t == tried[i]
                      IN  /\ t.body[1] # Scalar
                          /\ IsArray(t.body) \/ IsObject(t.body) => ~Whole(t)
=============================================================================
