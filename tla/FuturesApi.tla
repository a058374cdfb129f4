----------------------------- MODULE FuturesApi -----------------------------
(***************************************************************************)
(* What each of the 19 handlers of FuturesProxy asks of the back ends, and *)
(* how often the wrapper method it uses tries the call.  The state machine *)
(* that runs a handler is in FuturesProxy.                                 *)
(***************************************************************************)
EXTENDS Integers

CONSTANTS
    RetryTimes,   \* FLAGS_m_retry_times: tries of a call that only reads
    CallTimes     \* FLAGS_rpc_call_times: tries of a call that changes orders

ASSUME TimesAssumption == RetryTimes \in Nat /\ CallTimes \in Nat

-----------------------------------------------------------------------------
(* The methods of SPTradeInfoWrapper: the number of rounds of their retry    *)
(* loop, and whether the call changes the order book.                        *)

Read  == [tries |-> RetryTimes, order |-> FALSE]
Write == [tries |-> CallTimes, order |-> TRUE]

\* Faulty AddOrder: it is retried like the calls that read.
Retried == [tries |-> RetryTimes, order |-> TRUE]

GetAccInfo             == Read
AddOrder               == Write
GetOrderByNo           == Read
GetActiveOrder         == Read
GetPosition            == Read
DeleteOrder            == Write
GetUserAccountStatus   == Read
GetHisOrder            == Read
GetFundInOutRecord     == Read
GetFuturesQuoteFeeInfo == Read

-----------------------------------------------------------------------------
(* The handlers.  session: the request must carry a session; signed: its     *)
(* signature is checked; validate: the session is validated by the           *)
(* authentication server; remote, rpc: the trade server is called; err: the  *)
(* code for an error the trade server reports; local: the possible codes of  *)
(* a handler that calls no trade server.                                     *)

NoRpc == [tries |-> 0, order |-> FALSE]

\* A handler that calls the trade server.
Remote(signed, validate, rpc, err) ==
    [session |-> TRUE, signed |-> signed, validate |-> validate,
     remote |-> TRUE, rpc |-> rpc, err |-> err, local |-> {}]

\* It validates the session first, or trusts the session it is given.
Validated(rpc) == Remote(FALSE, TRUE, rpc, "RETURN_ERR")
Trusting(rpc)  == Remote(FALSE, FALSE, rpc, "RETURN_ERR")

\* A handler that calls neither server.
Local(session, codes) ==
    [session |-> session, signed |-> FALSE, validate |-> FALSE,
     remote |-> FALSE, rpc |-> NoRpc, err |-> "RETURN_ERR", local |-> codes]

\* Faulty FuturesTrade and CancelPendingOrder: the session is not validated.
FuturesTradeTrusting       == Remote(TRUE, FALSE, AddOrder, "TRADE_ERR")
CancelPendingOrderTrusting == Trusting(DeleteOrder)

QueryMyFuturesAssets   == Validated(GetAccInfo)
QueryUserStatus        == Trusting(GetUserAccountStatus)
QueryFuturesAccountConfig == Local(TRUE, {"SUCCESS"})
QueryPendingOrders     == Validated(GetActiveOrder)
QueryHoldingOrders     == Validated(GetPosition)
QueryOrderDetail       == Validated(GetOrderByNo)
QueryTransactionRecord == Validated(GetFundInOutRecord)
FuturesTrade           == Remote(TRUE, TRUE, AddOrder, "TRADE_ERR")
CancelPendingOrder     == Validated(DeleteOrder)
QueryHistoryOrders     == Validated(GetHisOrder)
SymbolTypeRecommend    == Local(FALSE, {"SUCCESS"})
SymbolListByType       == Local(FALSE, {"SUCCESS"})
QuerySymbolByName      == Local(FALSE, {"SUCCESS", "INFO_BUSY", "UNKNOWN"})
TradeConfirmInfo       == Trusting(GetFuturesQuoteFeeInfo)
QuerySymbolTradeInfo   == Trusting(GetFuturesQuoteFeeInfo)
QueryFifthOrder        == Local(FALSE, {"SUCCESS"})
QuerySymbolQuotations  == Local(FALSE, {"SUCCESS"})
FuturesGraph           == Local(FALSE, {"SUCCESS"})
FuturesKLine           == Local(FALSE, {"SUCCESS"})

\* RequestHandler::Init registers the handlers under their names.
Handlers ==
    [QueryMyFuturesAssets      |-> QueryMyFuturesAssets,
     QueryUserStatus           |-> QueryUserStatus,
     QueryFuturesAccountConfig |-> QueryFuturesAccountConfig,
     QueryPendingOrders        |-> QueryPendingOrders,
     QueryHoldingOrders        |-> QueryHoldingOrders,
     QueryOrderDetail          |-> QueryOrderDetail,
     QueryTransactionRecord    |-> QueryTransactionRecord,
     FuturesTrade              |-> FuturesTrade,
     CancelPendingOrder        |-> CancelPendingOrder,
     QueryHistoryOrders        |-> QueryHistoryOrders,
     SymbolTypeRecommend       |-> SymbolTypeRecommend,
     SymbolListByType          |-> SymbolListByType,
     QuerySymbolByName         |-> QuerySymbolByName,
     TradeConfirmInfo          |-> TradeConfirmInfo,
     QuerySymbolTradeInfo      |-> QuerySymbolTradeInfo,
     QueryFifthOrder           |-> QueryFifthOrder,
     QuerySymbolQuotations     |-> QuerySymbolQuotations,
     FuturesGraph              |-> FuturesGraph,
     FuturesKLine              |-> FuturesKLine]

AllApis == DOMAIN Handlers

\* The status codes of FuturesError the handlers use.
Codes == {"UNKNOWN", "SUCCESS", "INFO_BUSY", "RETURN_ERR", "REQ_ERR",
          "TRADE_ERR", "SESSION_ERR"}
=============================================================================
