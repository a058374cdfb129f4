----------------------------- MODULE MCDispatch -----------------------------
(* Dispatch for TLC. *)
EXTENDS Dispatch

ThreeApis == {SearchApi, "QueryUserStatus", "QueryFifthOrder"}

\* Every uri of up to three of these parts, and the search.
Parts == {<<"/">>, <<"?">>, <<"+">>, <<"http://">>, <<"QueryUserStatus">>,
          <<"QueryFifthOrder">>, <<"%", "2", "F">>, <<"%", "2">>, <<"%">>}
SomeUris == {FlattenSeq(s) : s \in SeqOf(Parts, 3)} \cup {<<SearchApi>>}

SomeCmds == {<<>>, <<"QueryUserStatus">>, <<"/", "QueryFifthOrder">>, <<"unknown">>}

SomeBodies == {<<>>, <<"html">>, <<Scalar, "text">>,
               <<OpenO, CloseO>>, <<OpenO, "member", CloseO>>,
               <<Open, Close>>, <<Open, "a", Close>>, <<Open, "a", "b", Close>>}
=============================================================================
