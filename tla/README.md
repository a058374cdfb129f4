# TLA+ models of the futures cell proxy

The repository is an HTTP server (`server_base/`) whose handlers (`src/`) turn
protobuf requests into thrift calls to two back ends, the authentication server
and the trade server.  This directory models what is concurrent or unreliable in
it: the asynchronous HTTP front end with its shutdown and its idle monitor, the
parser and the dispatch of requests on a connection that is used again and again,
the handlers with their client pools and retry loops on top of servers that may
lose, delay or answer late, and what the user is shown in the end.

## The system and its parts

| part | state | operations | talks to |
|---|---|---|---|
| `ServerBase` | acceptor, the connection being accepted, stop signal, threads in `io_service::run` | `StartAcceptConnection`, `HandleNewConnection`, `ServerStop`, `run` | `ConnectionManager`, `Connection` |
| `ConnectionManager` | `m_connections`, `m_connection_mutex`, the monitor thread, `m_is_stopping` | `Start`, `Stop`, `StopAll`, `MonitorThread` (`Erase` has no caller) | `Connection::Start/Stop` |
| `Connection` | socket, strand, buffer, request, reply, `m_is_long_connection`, `m_active_time` | `Start`, `Stop`/`DoClose`, `HandleRead`, `Reply`, `HandleWrite` (`PushMsg` has no caller) | parser, `Handler`, manager |
| `request_parser` | coroutine position, accumulated header, content | `parse`, `prase_http` | `request` |
| `Handler`, `RequestHandler` | table name -> handler | `HandleRequest`, `ProccessReqFromHandle`, `BuidlReply` | `FuturesProxy` |
| `FuturesProxy` | none of its own | 19 handlers, `ValidateSession` | pools, wrappers |
| `ClientPool` (two instances) | `m_client_set`, `m_clients_mutex` | `GetClientPtr`, `NewClientPtr`, `FreeClientPtr` | wrappers' constructors |
| `SPTradeInfoWrapper`, `AuthenServerWrapper` | `m_is_inited`, the thrift connection | `InitClient`, 11 calls with retry loops | the servers |
| `FuturesConvert` | none | conversions of orders, positions, history, funds, search results | called by `FuturesProxy` |
| `common` | none | `FillStatusInfo`, `fnDoCurl`, ids | the search server |
| `MD5` | state, count, buffer, digest | `update`, `digest`, `reset` | called by `FuturesTrade` |

What is hard: handlers of one connection run on any of 100 threads and only the
strand orders them; `ServerStop`, the monitor and the error paths stop the same
connections; `run()` ends only if every socket is closed; a call to a back end may
time out although it is, or will be, executed, and its answer may come when nobody
waits any more; a pool hands connections from one thread to the next and connects
new ones while holding its mutex; a connection's buffer, request and reply, and the
string of a search, carry what an earlier use left in them; lists are put together
from pages.  `PROJECT.json` lists these as hazards with
their lines.

## Modules

| module | models | extends |
|---|---|---|
| `HttpServer` | `ServerBase`, `ConnectionManager`, `Connection` composed | |
| `MCHttpServer` | instance of `HttpServer` for TLC | `HttpServer` |
| `HttpServerProofs` | inductive invariant and theorems | `HttpServer` |
| `FuturesApi` | what each handler and each wrapper method asks for: checks, session validation, retry count, error code | |
| `FuturesProxy` | handlers, pools and wrappers as run by server threads against unreliable servers | `FuturesApi` |
| `MCFuturesProxy` | instances of `FuturesProxy` for TLC | `FuturesProxy` |
| `FuturesProxyProofs` | inductive invariant and theorems | `FuturesProxy` |
| `OrderService` | what the back end promises about orders, as an abstract specification | |
| `RequestParser` | `prase_http`, `parse` and the buffer of a connection, over a stream cut into reads | `Lists` |
| `RequestParserProofs` | inductive invariant and theorems | `RequestParser`, `ListFacts` |
| `MCRequestParser` | instances of `RequestParser` for TLC | `RequestParser` |
| `Search` | `QuerySymbolByName` and `fnDoCurl` | |
| `Dispatch` | uri, handler table and reply object over the requests of a connection, composed with the search handler | `Search`, `Lists` |
| `UriProofs` | which handler a uri leads to: what `TrimUri` and `UrlDecode` make of it | `Dispatch`, `ListFacts` |
| `DispatchProofs` | inductive invariant and theorems | `UriProofs` |
| `MCDispatch` | instance of `Dispatch` for TLC | `Dispatch` |
| `FuturesConvert` | the lists an app collects and the records they are made of | `Lists` |
| `FuturesConvertProofs` | inductive invariant and theorems | `FuturesConvert`, `ListFacts` |
| `Lists` | filtering, ordering and summing sequences, with definitions a proof can use | |
| `ListFacts` | what those operators return, and induction over numbers | `Lists` |
| `MCFuturesConvert` | instance of `FuturesConvert` for TLC | `FuturesConvert` |
| `Md5` | the MD5 object around its transformation | |
| `Md5Proofs` | inductive invariant and theorems | `Md5`, `ListFacts` |
| `MCMd5` | instance of `Md5` for TLC | `Md5` |

How they fit together: `HttpServer` takes the parser's verdict and the handler's
status as choices; `RequestParser` and `Dispatch` say for one connection which
verdicts and statuses there are and why; `FuturesProxy` says what a handler does
meanwhile, `FuturesConvert` what its result contains, and `Md5` what the Boolean
`signed` of a request in `FuturesProxy` rests on.

Operators whose comment begins with "Faulty" are variants with a plausible mistake
(a dropped guard, a missing reset).  No specification uses them; each is put in
place of the definition it precedes to see that a property notices.

### HttpServer

A member of `Conns` is the memory of one `Connection`.  Per connection: the socket,
the outstanding read and write (`idle`, `pending`, or completed with the handler
queued), `hnd` while `HandleRead` is inside the request handler, `closeq` for
posted `DoClose` calls, keep-alive flag, reply status and idle time.  The object may
be reused as a new connection once nothing refers to it, as with
`shared_from_this`, so behaviours have unboundedly many connections.

One action per handler.  A handler is split where another thread can step in:
`HandleReadRequest` / `Reply` around the request handler; `HandleNewConnection` /
`ManagerStart` / `ManagerStartInsert` / `StartAcceptConnection`, because
`is_open` is checked without a lock and the first read is issued before the
insertion; `ServerStop` / `StopAll`; the monitor's scan, which holds the mutex and
still is not atomic: `MonitorCheck` compares `m_active_time`, which connection
threads set without any lock, and `MonitorKill` acts on the verdict (`doomed`) when
it may be out of date.  The
strand is the condition `~hnd[c]`: handlers of a connection never overlap, but
those that are queued run in any order.  A handler that is in progress occupies
one of `Threads`.  The parser's verdict and the handler's status are choices.  Time
is `age`, which counts up to `Timeout + 1`.

### FuturesProxy

A thread receives a request, makes the checks of its handler (`Immediate`), then
takes a client of the authentication pool, if the handler validates the session,
and after it a client of the trade pool.  A round of the retry loop is `CallSend` or
`CallNotSent`, then `CallReturns` or `CallThrows`.  A client is the memory of a
wrapper with its current TCP connection.  `sent` are requests on the network or in
a server, `answers` what lies in a client's receive buffer; when a client
reconnects or is destroyed its unanswered requests are orphaned (`chan` becomes
`NoClient`) and can still be executed, its unread answers are gone.  `Execute` and
`Lose` are the servers and the network: any sent request may be executed at any
time, or never.  `CallThrows` may happen whatever the server did.

A request is a record: the handler it is for, whether it carries a session, whether
its signature is right, and whether the authentication server knows the session.
`FuturesApi` gives, for each of the 19 handlers, the checks and calls it makes.
`executed[r]` is the set of attempts the trade server performed for `r`, so a
second execution of the same order is visible.

`OrderService` is the same without threads, pools, servers or retries: a request is
asked, an order is performed at most `Calls` times, the request is answered.
`INFO_BUSY` leaves open what becomes of the order, any other answer settles it (if
`Calls` is 1, as configured; with more calls only a refusal does), and an order the user is not entitled to is never performed.  The refinement mapping
(`Service` in `FuturesProxy`) reads the abstract kind of a request off its record,
`performed` off `executed` and `answer` off `reply`.

### RequestParser

A peer sends a script of requests on one keep-alive connection.  `HandleRead(k)` is
the whole handler for a read of `k` tokens: it overwrites the front of `m_buffer`
and resumes the coroutine at its `place` - the start of a request, in the middle of
its header, or in its content.  A token is one byte, or one header line without its
CR LF; a line is known by its kind (POST, `Content-Length`, another header, one the
parser refuses).  What is kept exactly is where the stream is cut, what an earlier
read left in the buffer, how far `strstr` and the line loop look, and the sizes.
The last of several `Content-Length` headers counts, and a second POST line is
accepted, as in the code.  `Requests` is what a peer may send as one request: any
lines, valid or not, and a content of any tokens, CR LF CR LF included; `Fits` is the
border between a request and what follows it: nobody sends more content than the
header declares and calls it the same request.
`m_buffer`, `bheader` and `content_length_` are not initialised by the code, so
`Init` chooses them.  `delivered` are the requests given to `HandleRequest`.
`HttpServer` takes the parser's verdict as a choice.  The runs have `Pipelined =
FALSE`, a peer that waits for each reply: the server needs that, because what
follows a request in the same read is appended to its content or dropped, and
`ConsumedIsExact` does not hold with `Pipelined = TRUE`.

### Dispatch and Search

One connection, its `m_reply` and `m_is_long_connection`, and the requests it gets
in turn.  A uri is a sequence of tokens - the separators, `%` with its digits, `+`,
`http://` and whole names - and goes through `Unslashed` and `TrimUri` in the parser
and `UrlDecode` in the handler, in that order.  `HandleUnknown` changes the status of
`m_reply` only, as the code does; every other reply replaces it.  A content is known
by the request and the handler it was made for and by its size.  A search runs
through `CurlPerform` up to `TryNums` times; every transfer may deliver any part of
a body, fail after it or end early, and what it delivers is appended to the one
string.  The JSON reader takes the first value, of any kind, and ignores the rest:
`QuerySymbolByName` asks only whether there is one.  An array gives its symbols; a
number, a string, `null` or an empty object is a success without symbols, since its
`size()` is 0; of an object with members `root[i]` throws, nothing catches that, and
`SearchThrows` ends the process.

### FuturesConvert

The account as the trade server keeps it (orders, positions, fund movements), and
the list an app is collecting.  `FuturesTrade` and `CancelPendingOrder` fill in the
requests, the `ToProto...` operators convert the answers, `NextPage` is one request
of a list.  How the trade server fills, settles and pages is external: page `n` of
size `b` begins after `n * b` entries, and `has_more` says that entries follow it.
Prices and lots are integers; an average price is kept as its two parts.  A detail
may be answered without the order (`__isset.orderInfo`), and then shows nothing.

A holding has a direction, which `ToProtoPosition` takes from `LongShort`, and a net
position, which it computes from `Qty`, `LongQty` and `ShortQty` without looking at
`LongShort`.  The repository does not say how the trade server relates them, so
`GetPosition` has both readings, one for the products of `SignedProducts` and one for
the others: either `Qty` and `DepTotalAmt` come with their sign and `LongShort` is the
direction of the whole position, or they come without one and `LongShort` is the sign
of the part deposited on an earlier day.

### Md5

`_state` is the sequence of blocks transformed so far, so a digest is right exactly
when the blocks are those of RFC 1321, in order.  A block has 8 tokens instead of 64
bytes, the length field 2 instead of 8, a counter word 128 values instead of 2^32;
the relations between them that the code uses stay (`SizesAssumption`: a counter word
counts whole blocks, and the length of a message fits in a word).  `Counted` casts the
length to a word as `md5.cc:160` does.  The assumption also keeps the `uint32` index of
the loop at `md5.cc:173` from wrapping, as every long `update` follows a reset and so
steps through whole blocks from 0.  All `update` overloads, files
read in chunks, `digest` and `reset` are actions on one object, whose `_buffer` is
not initialised.

## Runs

| run | bounds | what it shows |
|---|---|---|
| `http_safety` | 3 connection objects, 2 threads, timeout 0, symmetry | `OneActivity`, `ManagedIsLive`, `NoneEscapes`, `ClosedOnce`, `CleanExit`, `ReplyStable` in all interleavings |
| `http_live` | 2 objects, 2 threads | `StoppedIsClosed`, `IdleIsKilled`, `StopTerminates`, `AcceptsAgain` |
| `http_stop_race` | 2 objects | violated: a connection accepted while the server stops survives `StopAll` |
| `http_age` | 2 objects, timeout 1 | violated: a new connection may be past its idle timeout |
| `proxy` | 2 threads, 2 requests, 4 clients, a trade and a query, 2 tries | pools, cross-talk, orders and replies in all interleavings; `ImplementsOrderService` |
| `proxy_all` | 1 thread, 2 requests one after the other, all 19 handlers, 2 clients, 1 try | `ImplementsOrderService` for each pair of handlers that share pooled clients; `PoolBounded` |
| `proxy_live` | 2 threads, 2 trades, 4 clients, 1 try | `Replied` |
| `parser` | 2 requests of 8 kinds in turn, buffer of 9 tokens, 2 initial buffers | `DeliveredIsSent`, `ConsumedIsExact`, `LaterIsValid`, `Answered` for every way to cut the stream |
| `parser_cut` | 2 valid requests, buffer of 12 tokens | violated: a valid request is refused because of what the one before left in the buffer |
| `md5` | messages of 0 to 20 bytes (blocks of 8, counter words of 128), files in chunks of 10, 2 digests per message | `DigestIsRight`, `DigestIsStable` |
| `dispatch` | 3 requests, 3 handlers, all uris of up to 3 of 9 parts, 4 `User-cmd` headers, 8 answers of the search server (arrays, objects, a scalar, other text, nothing), 2 tries | `RoutedRight`, `OwnContent`, `ReusedIsDelimited`, `SearchIsTrue` |
| `views` | 2 records (orders or fund movements) of up to 2 lots, 2 products (one for each reading of `LongShort`), 2 prices, pages of 1 or 2 | `PendingIsPlaced`, `HoldingIsFills`, `FundsAreComplete`, `StateIsTrue` |

Why the bounds are enough to meet the interesting cases: with three connection
objects one is being accepted while two are live, so the monitor's scan, `StopAll`
and the error paths meet on more than one connection, and objects are reused; two
threads allow two handlers at a time, which is all that any of the split handlers
needs.  Timeout 0 makes a connection time out after one tick, so that timeouts race
with everything.  Two threads with two requests make each pool contended; four
clients are two per pool, the most two threads can own.  Two tries are enough for a
late answer to meet a later call.  `CallTimes` is 1 as in `config.cc`, and
`OrderReplyIsFinal` is stated for that value.

A parser needs two requests for one to leave something to the next; with 9 tokens
of buffer some requests (8 to 12 tokens) fit into one read and some do not.

Three requests on a connection let a 404 or 400 follow a success that follows
another; three parts of a uri are enough for a separator, escaped or not, between two
names.  Two orders can have opposite directions, so positions are closed and turn
short, and two records with pages of one make a list of two pages.  20 bytes are two
and a half blocks, and 16 bytes wrap the low counter word.

The three violated runs are findings, described in `PROJECT.json` with the lines of
code and the comments they contradict.

### Fairness

`HttpServer`: time passes; a request handler returns, because all its calls have
timeouts; the `io_service` runs queued handlers first in, first out, and a mutex
that becomes free again and again is obtained, hence strong fairness for dispatching
handlers, the monitor, the accept handler and `StopAll`; operations on a closed
acceptor complete.  Peers need not send, read or close, and no signal need come.
`AcceptsAgain` is about an accept that succeeded: the code rearms it whatever becomes
of the new connection.
`FuturesProxy`: strong fairness for each thread's steps, since each blocking call has
a timeout (`conn_timeout_ms`, `send_timeout_ms`, `recv_timeout_ms`) and a pool's
mutex is held only while a connection attempt lasts.  Servers promise nothing.
`RequestParser`: bytes that were sent are read in the end, as a read is always
outstanding on an open connection that waits for a request.

### What the code does that a reader may not expect

These come out of the models; no document of the repository says otherwise, so they
are not among the findings.

- An accept that fails on an open acceptor (no descriptors left, say) ends the accept
  loop (`server_base.cc:76`); the server goes on with the connections it has.
- `bheader` and `content_length_` are uninitialised until the first `Reset`: the first
  request of a connection may be accepted without `Content-Length`.  From the second
  on it is not (`LaterIsValid`).
- A 404 carries the content and headers of the previous reply on the connection; the
  connection is closed after it (`ReusedIsDelimited`).  Absolute uris with a host
  and `//A/B` lead to 404.
- The second try of `fnDoCurl` appends to what the first left.  Since the reader takes
  the first value this can only turn a good answer into `UNKNOWN`, or show the complete
  answer of the first try (`SearchIsTrue`).  An empty body is `UNKNOWN` too, whatever
  its HTTP status.  JSON that is no array, and any text that begins with a number, is
  `SUCCESS` without symbols; an object with members ends the process.
- `_finished` of an MD5 object is never seen set, so `digest` calculates again.  `final`
  restores the state and the count but not the buffer: for a message of 56 to 63 bytes
  modulo 64 a second digest differs.  `FuturesTrade` uses the first for the signature
  and the second for a log line only.  `update` with a file keeps its last 1024-byte
  chunk only, and an empty file leaves the object as it was.
- The history never says `has_more`, although its message has the field
  (`futures_service.proto:169`): an app that goes by it sees the first page.
- The direction and the net position of a holding can contradict each other: if the
  trade server sends what was deposited without a sign, a short position is shown as a
  sell of a positive number of lots, its net is wrong as soon as something is traded on
  top of it, and a position that trades of the day have turned keeps its old direction
  (`HoldingIsFills` says what holds nevertheless).
- An MD5 message of 4 GiB or more is counted modulo 2^32 bytes, and the loop over its
  blocks does not end, because its index wraps.  No caller has such a message.
- An order that was filled in part and then cancelled is shown as not traded, as
  `StateIsTrue` and the theorem about it say; a sell
  shows no state.  A trade with a missing or unknown type is a sell.  Price type,
  validity and decimals of a trade are fixed in `FuturesTrade`.
- The "more" menu writes the entry for paying out over the one for paying in and leaves
  an empty entry (`futures_convert.cc:196`); it is constant data and not modelled.

## Proofs

`HttpServerProofs` proves for every set of connections, number of threads and
timeout: `TypeOK`, `OneActivity`, `ManagedIsLive` with `NoneEscapes`, `ClosedOnce`,
`CleanExit` and `ReplyStable`.  The only assumption is `Timeout \in Nat`.  The
properties are not inductive: that a connection is closed once depends on the
manager's set being exact, which depends on who holds the mutex and how far the
accept handler is.  `Inv` adds that the mutex is held exactly by the accept handler
in `insert` and the scanning monitor, and that what the monitor has condemned is
still managed (`LockInv`), that a connection being accepted
is idle and unmanaged until its insertion (`AcceptInv`, `IdleBeforeOpen`), that
everything active is managed, being inserted, being closed or closed (`Tracked`),
and that nothing is active after `run()` returned (`ExitInv`).  Each part is
preserved by each group of actions (`ConnectionStep`, `AcceptStep`, `ServerStep`).
`FuturesProxyProofs` proves for any threads, requests, clients, handlers and retry
counts what the run `proxy` checks: `TypeOK`, `Exclusive`, `PooledIsClean`,
`OwnAnswer`, `AtMostOnce`, `OrdersAuthorised`, `ReplyIsTrue` and
`OrderReplyIsFinal`.  Assumed are natural retry counts, handlers out of the 19 of
`FuturesApi`, and that `NoThread`, `NoRequest` and `NoClient` are not members.  The
argument goes along the attempts: every attempt has a number, and `ProgressInv` says
that nothing of a thread's request is numbered beyond its last attempt, nothing at
all exists for a call not yet begun, and once an answer is read the last attempt is
settled.  `MessageInv` adds that an attempt is in one place only - on its way or
executed - and `ClientInv` that the connection of a waiting thread carries nothing
but its last attempt or the answer to it; this is where the code's discipline
matters, that an exception marks the client for reconnection and that only a client
whose call returned goes back.  `Exclusive` and `UnusedIsClean` carry that over from
one user of a client to the next.  That orders need a validated session follows from
`ThreadInv` (a thread at the trade server was authorised) and `HandlersFacts`, which
goes through the table of handlers.  There is a lemma per action (`CallSendStep`,
`FreeClientPtrStep`, ...); what a step leaves to the other threads is proved once
(`OtherThread`, `OtherClient`, `OtherProgress`, `OtherReply`).

`Implementation` proves that every behaviour of `FuturesProxy` is one of
`OrderService` under the mapping `Service`.  Each action either leaves the mapped
variables alone (`Stutters`), or is an `Ask` (`AskRefines`), an answer (`FreeRefines`
and `GiveUpRefines` through `AnswerRefines`) or an execution (`PerformRefines`).  The
invariant is needed at three places: an executed attempt has a number within
`1 .. Calls` and is new; it belongs to a user who is entitled to it; and an order that
may still be executed has not been settled by its reply.

`PoolsAreBounded` proves `PoolBounded` for finitely many threads.  A step either moves
clients between a pool and its users, or drops them (`FewerOwned`), or it is
`NewClientPtr`, which runs only when the pool is empty: then all its clients are in use,
one per thread (`HeldBound`).

`FuturesConvertProofs` proves, for any account and for pages of any size, that what the
app has collected is what happened: `PendingIsPlaced`, `HoldingIsFills`,
`FundsAreComplete` and `StateIsTrue`.  Assumed are finitely many products and integer
prices; which products are in `SignedProducts` does not matter.  `SentIs` says for both
readings of `LongShort` what is left of a position when it is sent.  Its invariant says that an order's status goes with what it has traded
(`OrdersInv`), that a position is the sum over the orders of its product, settled or
not (`PositionsInv`), and that the app has exactly the first `page * batch` entries of
the list and knows whether more follow (`ViewOK`).  `PageAdded` is the step from one
page to the next, with the short last page and the empty one; `SumsOfNew` and
`SumsOfFilled` say how the sums change with one order.

`RequestParserProofs` proves `TypeOK`, `DeliveredIsSent`, `ConsumedIsExact` and
`LaterIsValid` for any scripts of requests, any size of the buffer and anything in it,
and anything in `content_length_` and `bheader` at first.  The theorems have `Pipelined`
false as a hypothesis, for the reason given above, and rest on what the assumptions say
of a request (`ScriptsAssumption`).  None of the properties is inductive: they speak of
what was delivered, and the coroutine is mostly in the middle of something.  `ReadInv`
says that what was read of the current request, followed by what is still in the stream,
is that request - in `m_httpheader` while the header is read, in `content` afterwards -
that there is at most one such request, and that nothing of an earlier one is left in
`m_request`; `Awaited` says that the length the parser waits for is the one the header
declares.  The lemmas about the wire come first: `BytesFacts` gives the bytes of a
request one by one (each header line, its CR LF, the empty line, the content);
`HeaderEnd` says that an end mark `strstr` finds within the data is that of the header,
even if the content looks like one (a mark that reaches into the remains behind the data
makes the parser refuse the request); `HeaderLinesAre` that exactly the lines are then read, and `ContentIs` that the rest of the data is the
beginning of the content.  `ParseHeaderInv`, `ParseMoreInv` and `ParseContentInv` carry
the invariant through the branches of the coroutine, `HandleReadInv` puts them together.

`DispatchProofs` proves `TypeOK`, `RoutedRight`, `OwnContent`, `SearchIsTrue` and
`ReusedIsDelimited`, for any uris, handlers, bodies, tries and number of requests.  Assumed is that a body is
an array of records, an object, or text without brackets, which may begin with a scalar
(`BodiesAssumption`): of nested values the reader's "first value" would be another, and
what an array of something else than records throws is not looked at.  The invariant for
a search (`SearchInv`) says that a value the reader finds at the front of the string
came with the first transfer that delivered anything, and all of it unless it is a scalar
(`FirstIsWhole`; the step is `FirstOfBoth`: where the remains of a failed try come first
no array or object can end in what is appended), that nothing is tried after a success,
and that the string begins with what arrived first (`StoredFirst`), so that a whole value
would have been found.  `ReplyInv` says that a reply with
status ok is as long as its length field and was made by the handler that was called.

`RoutedRight` is proved from `UriProofs`, for uris of any length with separators,
escapes and `http://` anywhere.  Assumed is that a name is none of these
(`NamesAssumption`).  `DecodedName` goes backwards through `UrlDecode`: what decodes to
the path of a handler is its name, alone or after a slash or `%2F`.  `TrimIs` says how
much of a uri `TrimUri` leaves, and `PartStripped` that stripping `http://` from a part
of a uri is the same as taking the part after stripping; together they show that what is
looked up is a segment the peer has separated (`SegmentOf`, `PathIsNamed`).  `PlainIs` is
the other direction: a plain uri always arrives at its handler.

`Md5Proofs` proves `TypeOK`, `DigestIsRight` and `DigestIsStable` for blocks, counter
words, chunks and messages of any size that fit together as those of the code do: a
length field of two tokens, a word that counts whole blocks, and messages whose length
fits in a word (less than 4 GiB).  `Holds(o, p)` says that an object has taken in `p`: its state is the
blocks of `p`, its count the bits, and its buffer begins with the rest.  `UpdateHolds` is
the heart: `update` leads from `p` to `p` and the input, for an input that does not fill
the buffer (`UpdateShort`) and for one that does (`UpdateLong`); it rests on `CountedIs`,
that the comparison of the low word finds the carry, and on `TransformAllIs`.
`ZerosIs` shows that `PadLen` is the one number of bytes RFC 1321 allows,
`FinalIsReference` that `final` arrives at its blocks, and `FinalKeeps` that a padding
that fits leaves the buffered bytes alone.  The invariant then says that the object
holds the message until a digest may have spoilt its buffer.

Induction is done in `ListFacts`: `Induction` is proved from the least counterexample in
a set of numbers, so a proof names the set of numbers for which its claim holds and
needs no induction rule with a predicate.  Functions defined by recursion are first
shown to exist and then to have the values claimed.

Only model-checked: liveness (`http_live`, `proxy_live`, `Answered` in `parser`), as the
proof system has no reasoning about fairness and `ENABLED`.  The inductive invariants were also
checked with TLC on the instances of the runs before they were proved.

## Not modelled

- `Erase`, `PushMsg`, `consume` and the helpers only it uses: they have no caller.
- The SSL connection, MIME types and helpers: not in the build or without a caller.
- The 64 rounds of MD5's transformation and AES: pure arithmetic, checked by test
  vectors rather than by a state space.  Their result is a Boolean of a request.
- The conversions of assets, fees and the constant menu: field copies and sums.
- Formatting of numbers, log output, curl's timing, thrift and protobuf encoding.
- Exceptions no handler catches, apart from the one of `SearchThrows` (`bad_alloc`, or
  jsoncpp on an array of something else than records): they end the process, and which
  calls throw is up to the libraries.
- A list that changes while it is paged: the code promises nothing across a change.
- Unique ids: nanosecond times, of which only the trade server makes use.
- `unittest/`: client programs that need a running server and assert nothing.

## Plan

The core, the parser, dispatch, conversions and MD5 are modelled, and every safety
property the runs check is proved.  What could follow: a parser that faces peers that
send without waiting, if the server is to support them - `Pipelined = TRUE` shows what
breaks; the list of an account that changes while it is paged, once there is a promise
to check; and a composition of `HttpServer` with `RequestParser`, whose verdict is a
choice in the former.
