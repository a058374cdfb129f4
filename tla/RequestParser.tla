---------------------------- MODULE RequestParser ----------------------------
(***************************************************************************)
(* The request parser on a keep-alive connection: the coroutine prase_http *)
(* is resumed by HandleRead for every read that completes.  TCP may cut    *)
(* the stream anywhere; each read overwrites the front of m_buffer and     *)
(* leaves the rest of it as it was, and prase_http looks for the end of    *)
(* the header with strstr, which does not stop at the end of the data.     *)
(*                                                                         *)
(* A token is a byte or a whole header line without its CR LF: cutting a   *)
(* line in two makes no difference to a parser that appends what it gets.  *)
(* The writing of a reply, between two requests, is in HttpServer.         *)
(***************************************************************************)
EXTENDS Lists, SequencesExt

CONSTANTS
    Scripts,      \* the sequences of requests a peer may send
    BufSize,      \* s_http_recv_buf
    Garbage,      \* what m_buffer may contain before the first read
    Lengths,      \* what content_length_ may contain before the first request
    MaxRequests,  \* how many requests a script has at most
    Pipelined     \* peers do not wait for the reply before they send more

Token(kind, value) == [kind |-> kind, value |-> value]

CR      == Token("cr", 0)
LF      == Token("lf", 0)
Nul     == Token("nul", 0)
Post    == Token("post", 0)      \* POST, a uri and the protocol
Other   == Token("other", 0)     \* a header, also the one that keeps alive
Junk    == Token("junk", 0)      \* a line without a colon, or another method
Size(n) == Token("size", n)      \* Content-Length
NoSize  == Token("size", -1)     \* Content-Length with something else
Byte(n) == Token("byte", n)

LineKinds == {"post", "other", "junk", "size"}
IsLine(k) == k.kind \in LineKinds
Tokens    == [kind : LineKinds \cup {"cr", "lf", "nul", "byte"}, value : Int]

http_end == <<CR, LF, CR, LF>>

\* A request is its header lines and its content; Bytes is how it is sent.
Bytes(r) ==
    FlattenSeq([i \in DOMAIN r.lines |-> <<r.lines[i], CR, LF>>])
        \o <<CR, LF>> \o r.content

\* The Content-Length headers; the last one counts.
Sizes(ls)    == {i \in DOMAIN ls : ls[i].kind = "size"}
Declared(ls) == IF Sizes(ls) = {} THEN -1 ELSE ls[Max(Sizes(ls))].value

\* What a peer may send as one request: lines of any kind, and no more content
\* than they declare; what exceeds it is not part of the request.
Requests ==
    [lines   : Seq([kind : LineKinds, value : Nat \cup {-1}]) \ {<<>>},
     content : Seq(Tokens)]
Fits(r) == r.content = <<>> \/ Len(r.content) <= Declared(r.lines)

\* What a request must be: a uri, headers, and a content as long as it says.
Valid(r) ==
    /\ r.lines[1].kind = "post"
    /\ \A i \in DOMAIN r.lines : r.lines[i].kind # "junk" /\ r.lines[i] # NoSize
    /\ Declared(r.lines) = Len(r.content)

ASSUME BufferAssumption ==
    BufSize \in Nat \ {0} /\ Garbage \subseteq [1 .. BufSize -> Tokens]
ASSUME LengthsAssumption == Lengths \subseteq Nat
ASSUME ScriptsAssumption ==
    \A s \in Scripts :
        s \in Seq(Requests) /\ Len(s) <= MaxRequests /\ \A i \in DOMAIN s : Fits(s[i])

VARIABLES
    todo,             \* requests the peer has still to send
    sent,             \* requests it has sent
    stream,           \* what it has sent and the server has not read
    m_buffer,
    place,            \* where the coroutine continues
    m_httpheader,
    lines, bheader, content_length_, content,    \* m_request
    delivered,        \* requests given to HandleRequest
    refused           \* a bad_request was sent; the connection is closed

requestVars == <<lines, bheader, content_length_, content>>
parserVars  == <<place, m_httpheader>>
peerVars    == <<todo, sent>>
vars == <<peerVars, stream, m_buffer, parserVars, requestVars,
          delivered, refused>>

-----------------------------------------------------------------------------

\* Where strstr finds the end of a header in s; 0 if it does not.
strstr(s) ==
    LET found == {i \in 1 .. Len(s) - 3 : SubSeq(s, i, i + 3) = http_end}
    IN  IF found = {} THEN 0 ELSE CHOOSE i \in found : \A j \in found : i <= j

\* The lines getline_from_buf2 finds before the end of the header at pend: a
\* line that does not end before the data does is not looked at.
HeaderLines(s, len, pend) ==
    LET n == IF pend - 1 < len - 3 THEN pend - 1 ELSE len - 3
    IN  Pick(s, {i \in 1 .. n : IsLine(s[i])})

\* A POST line has the uri (get_http_uri); the other lines come after one and are
\* headers (get_mime_header).
LinesAccepted(ls) ==
    \A i \in DOMAIN ls :
        \/ ls[i].kind = "post"
        \/ ls[i].kind # "junk" /\ \E j \in 1 .. i - 1 : ls[j].kind = "post"

\* m_request.Reset and a new request_parser.
Reset ==
    /\ place' = "start" /\ m_httpheader' = <<>>
    /\ lines' = <<>> /\ bheader' = FALSE /\ content_length_' = 0 /\ content' = <<>>

\* Faulty Complete: m_request is not reset.
CompleteKeeps(ls, c) ==
    /\ delivered' = Append(delivered, [lines |-> ls, content |-> c])
    /\ place' = "start" /\ m_httpheader' = <<>>
    /\ lines' = <<>> /\ bheader' = TRUE /\ content_length_' = 0 /\ content' = c
    /\ UNCHANGED refused

\* Faulty Complete: the next request is taken to have a Content-Length.
CompleteStale(ls, c) ==
    /\ delivered' = Append(delivered, [lines |-> ls, content |-> c])
    /\ place' = "start" /\ m_httpheader' = <<>>
    /\ lines' = <<>> /\ content' = <<>>
    /\ UNCHANGED <<bheader, content_length_, refused>>

\* Verdict true: HandleRequest is called, a reply is written and read on.
Complete(ls, c) ==
    /\ delivered' = Append(delivered, [lines |-> ls, content |-> c])
    /\ Reset
    /\ UNCHANGED refused

\* Verdict false: bad_request is sent and the connection closed.  The parser is
\* not replaced, but nothing is read any more.
Refuse ==
    /\ refused' = TRUE
    /\ lines' = <<>> /\ bheader' = FALSE /\ content_length_' = 0 /\ content' = <<>>
    /\ UNCHANGED <<parserVars, delivered>>

\* Verdict indeterminate: another read is started.
Continue(where) ==
    /\ place' = where
    /\ UNCHANGED <<delivered, refused>>

-----------------------------------------------------------------------------
(* prase_http *)

\* The header in s ends at pend.  Beyond its len tokens s is not data: when the
\* end of the header is not all data, the size of the content that came with it
\* wraps, string::append throws, and parse returns the default verdict, false.
ParseHeader(s, len, pend) ==
    \E ls \in {lines \o HeaderLines(s, len, pend)} :
        LET size == IF Sizes(ls) = {} THEN content_length_ ELSE Declared(ls)
            c    == content \o SubSeq(s, pend + 4, len)
            ok   == /\ LinesAccepted(ls) /\ \A i \in Sizes(ls) : ls[i] # NoSize
                    /\ Sizes(ls) # {} \/ bheader
                    /\ pend + 3 <= len
        IN  \/ ~ok /\ Refuse
            \/ ok /\ Len(c) >= size /\ Complete(ls, c)
            \/ /\ ok /\ Len(c) < size /\ Continue("content")
               /\ lines' = ls /\ bheader' = TRUE
               /\ content_length_' = size /\ content' = c
               /\ UNCHANGED m_httpheader

\* Faulty ParseMore: only the last part is looked at.
ParseMoreLast(data) ==
    LET pend == strstr(data)
    IN  \/ /\ pend = 0 /\ Continue("header")
           /\ m_httpheader' = data /\ UNCHANGED requestVars
        \/ pend # 0 /\ ParseHeader(data, Len(data), pend)

\* A part of the header is appended to m_httpheader.
ParseMore(data) ==
    LET h    == m_httpheader \o data
        pend == strstr(h)
    IN  \/ /\ pend = 0 /\ Continue("header")
           /\ m_httpheader' = h /\ UNCHANGED requestVars
        \/ pend # 0 /\ ParseHeader(h, Len(h), pend)

\* The first part of a request: the header may be complete, in the buffer.
ParseStart(buf, len) ==
    LET pend == strstr(buf)
    IN  \/ pend # 0 /\ pend <= len /\ ParseHeader(buf, len, pend)
        \/ (pend = 0 \/ pend > len) /\ ParseMore(SubSeq(buf, 1, len))

\* Faulty ParseContent: the last token is not waited for.
ParseContentEarly(data) ==
    LET c == content \o data
    IN  \/ Len(c) + 1 >= content_length_ /\ Complete(lines, c)
        \/ /\ Len(c) + 1 < content_length_ /\ Continue("content")
           /\ content' = c
           /\ UNCHANGED <<m_httpheader, lines, bheader, content_length_>>

\* Faulty ParseContent: a complete content is not noticed.
ParseContentLate(data) ==
    LET c == content \o data
    IN  \/ Len(c) > content_length_ /\ Complete(lines, c)
        \/ /\ Len(c) <= content_length_ /\ Continue("content")
           /\ content' = c
           /\ UNCHANGED <<m_httpheader, lines, bheader, content_length_>>

\* A further part of the content; what is not of this request is dropped.
ParseContent(data) ==
    LET need == content_length_ - Len(content)
        c    == content \o (IF Len(data) < need THEN data ELSE SubSeq(data, 1, need))
    IN  \/ Len(c) >= content_length_ /\ Complete(lines, c)
        \/ /\ Len(c) < content_length_ /\ Continue("content")
           /\ content' = c
           /\ UNCHANGED <<m_httpheader, lines, bheader, content_length_>>

-----------------------------------------------------------------------------

\* The peer sends its next request, when it has the reply to the one before.
PeerSend ==
    /\ todo # <<>> /\ ~refused
    /\ Pipelined \/ Len(sent) = Len(delivered)
    /\ sent' = Append(sent, Head(todo)) /\ todo' = Tail(todo)
    /\ stream' = stream \o Bytes(Head(todo))
    /\ UNCHANGED <<m_buffer, parserVars, requestVars, delivered, refused>>

\* A read of k tokens completes.
HandleRead(k) ==
    LET data == SubSeq(stream, 1, k)
        buf  == data \o SubSeq(m_buffer, k + 1, BufSize)
    IN  /\ ~refused /\ k <= Len(stream)
        /\ stream' = SubSeq(stream, k + 1, Len(stream))
        /\ m_buffer' = buf
        /\ \/ place = "start" /\ ParseStart(buf, k)
           \/ place = "header" /\ ParseMore(data)
           \/ place = "content" /\ ParseContent(data)
        /\ UNCHANGED peerVars

\* Neither m_buffer nor the numbers of m_request are initialised.
Init ==
    /\ todo \in Scripts /\ sent = <<>> /\ stream = <<>>
    /\ m_buffer \in Garbage
    /\ place = "start" /\ m_httpheader = <<>>
    /\ lines = <<>> /\ content = <<>>
    /\ bheader \in BOOLEAN /\ content_length_ \in Lengths
    /\ delivered = <<>> /\ refused = FALSE

Next == PeerSend \/ \E k \in 1 .. BufSize : HandleRead(k)

Spec == Init /\ [][Next]_vars

\* What was sent arrives.
FairSpec == Spec /\ WF_vars(\E k \in 1 .. BufSize : HandleRead(k))

-----------------------------------------------------------------------------
(* Properties *)

\* Every variable has its type.
TypeOK ==
    /\ place \in {"start", "header", "content"}
    /\ Len(m_buffer) = BufSize
    /\ bheader \in BOOLEAN /\ content_length_ \in Nat /\ refused \in BOOLEAN
    /\ place # "header" \/ strstr(m_httpheader) = 0
    /\ place = "content" => Len(content) < content_length_

\* However the stream is cut, the requests given to the handlers are the ones
\* that were sent, in order, each with its own headers and content.
DeliveredIsSent == IsPrefix(delivered, sent)

\* Between two requests the server has read what belongs to the delivered ones
\* and nothing else: parse has consumed what it says it has.
ConsumedIsExact ==
    place = "start" /\ ~refused =>
        stream = FlattenSeq([i \in 1 .. Len(sent) - Len(delivered) |->
                                Bytes(sent[Len(delivered) + i])])

\* The verdict true is for complete and valid requests, whatever the requests
\* before left in m_request.  The first request of a connection is judged by
\* what the memory held, and is left out.
LaterIsValid == \A i \in DOMAIN delivered \ {1} : Valid(delivered[i])

\* The verdict false is for invalid requests.
RefusedIsInvalid == refused => \E i \in DOMAIN sent : ~Valid(sent[i])

\* A request that was sent is answered, if all that came so far are valid.
Answered ==
    \A n \in 1 .. MaxRequests :
        (Len(sent) = n /\ \A i \in 1 .. n : Valid(sent[i]))
            ~> (Len(delivered) >= n \/ refused)
=============================================================================
