--------------------------- MODULE MCFuturesProxy ---------------------------
(* FuturesProxy for TLC. *)
EXTENDS FuturesProxy, TLC

\* A handler that validates the session and then changes the order book, and
\* one that goes straight to the trade server and only reads.
TwoKinds == {"FuturesTrade", "QueryUserStatus"}

\* A handler that uses both servers.
OneKind == {"FuturesTrade"}

Symmetry == Permutations(Threads) \cup Permutations(Clients)
            \cup Permutations(Requests)
=============================================================================
