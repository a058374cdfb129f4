---------------------------- MODULE OrderService ----------------------------
(***************************************************************************)
(* What the proxy promises about orders, without threads, connections,     *)
(* retries or servers.  A request is asked, an order is performed, and the *)
(* request is answered, in whatever order the answer allows: INFO_BUSY     *)
(* leaves it open whether the order was or will be performed, every other  *)
(* answer settles it.                                                      *)
(***************************************************************************)
EXTENDS Integers

CONSTANTS
    Requests,
    Calls,     \* how often the proxy may ask the trade server for one order
    Codes      \* the status codes of a reply

VARIABLES
    asked,     \* per request: what it is
    performed, \* per request: the calls that changed the order book
    answer     \* per request: the status code of its reply

vars == <<asked, performed, answer>>

\* An order the user is entitled to, one he is not, and everything else.
Kinds == {"order", "forged", "query"}

Refusals == {"REQ_ERR", "SESSION_ERR"}
Errors   == {"TRADE_ERR", "RETURN_ERR"}

\* The answers a request of kind k can get when the calls in done have changed
\* the order book.
Truthful(k, done) ==
    {code \in Codes :
        /\ k = "forged" => code \in Refusals
        /\ k = "order" =>
              /\ code = "SUCCESS" => done # {}
              /\ code \in Refusals => done = {}
              /\ code \in Errors /\ Calls = 1 => done = {}}

\* The answers after which the order may still be performed.
Unsettled == {"none", "INFO_BUSY"} \cup IF Calls = 1 THEN {} ELSE Codes \ Refusals

-----------------------------------------------------------------------------

\* A request arrives; some are answered on the spot.
Ask(r, k) ==
    /\ asked[r] = "none"
    /\ asked' = [asked EXCEPT ![r] = k]
    /\ \/ UNCHANGED answer
       \/ \E code \in Truthful(k, {}) : answer' = [answer EXCEPT ![r] = code]
    /\ UNCHANGED performed

Perform(r, n) ==
    /\ asked[r] = "order" /\ answer[r] \in Unsettled
    /\ n \notin performed[r]
    /\ performed' = [performed EXCEPT ![r] = @ \cup {n}]
    /\ UNCHANGED <<asked, answer>>

Answer(r, code) ==
    /\ asked[r] # "none" /\ answer[r] = "none"
    /\ code \in Truthful(asked[r], performed[r])
    /\ answer' = [answer EXCEPT ![r] = code]
    /\ UNCHANGED <<asked, performed>>

Init ==
    /\ asked = [r \in Requests |-> "none"]
    /\ performed = [r \in Requests |-> {}]
    /\ answer = [r \in Requests |-> "none"]

Next ==
    \E r \in Requests :
        \/ \E k \in Kinds : Ask(r, k)
        \/ \E n \in 1 .. Calls : Perform(r, n)
        \/ \E code \in Codes : Answer(r, code)

Spec == Init /\ [][Next]_vars
=============================================================================
