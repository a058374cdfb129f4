--------------------------- MODULE FuturesConvert ---------------------------
(***************************************************************************)
(* What a user sees of his account: he trades, the trade server fills and  *)
(* records, and the app asks for the lists of pending orders, holdings and *)
(* fund movements page by page, until a page says that there is no more.   *)
(* FuturesProxy fills in the requests, FuturesConvert translates the       *)
(* records of the trade server into those of the app.                      *)
(*                                                                         *)
(* The trade server and the app are external.  Pages of an account that    *)
(* changes in between need not fit together, so a list is given up when    *)
(* the account changes.  Calls that fail are in FuturesProxy; here they    *)
(* would only repeat a page.  Amounts of money are integers: formatting to *)
(* two digits is left out.                                                 *)
(***************************************************************************)
EXTENDS Lists, SequencesExt

CONSTANTS
    Products, Prices,
    SignedProducts,  \* those whose Qty and DepTotalAmt are sent with their sign
    Types,       \* values of FuturesTradeRequest.type; 0 when it is missing
    MaxQty,      \* lots of an order
    MaxRecords,  \* orders and fund movements of the account
    BatchNums    \* page sizes an app may ask for

ASSUME BatchNumsAssumption == BatchNums \subseteq Nat \ {0}
ASSUME AccountAssumption ==
    IsFiniteSet(Products) /\ Prices \subseteq Int /\ MaxQty \in Nat

VARIABLES
    orders,      \* the orders of the account; type is what the user asked for
    positions,   \* the trade server's position of each product
    funds,       \* fund movements; out is whether money was paid out
    view         \* the list the app is collecting, while the account is the same

accountVars == <<orders, positions, funds>>
vars        == <<accountVars, view>>

Lists == {"pending", "holding", "funds", "history"}

\* A position as the trade server keeps it; what was deposited has its sign.
Flat == [Qty |-> 0, LongQty |-> 0, ShortQty |-> 0,
         DepTotalAmt |-> 0, LongTotalAmt |-> 0, ShortTotalAmt |-> 0]

NoView == [kind |-> "none", batch |-> 1, page |-> 0, items |-> <<>>, done |-> TRUE]

-----------------------------------------------------------------------------
(* FuturesProxy fills in the requests *)

\* FuturesTrade: everything that is not a buy is a sell.
BuySell(type) == IF type = 1 THEN "B" ELSE "S"

\* Which list of the trade server a handler asks for.
IsWorking(o) == o.Status \in {"WORKING", "PARTTRD_WRK"}
Working      == {i \in DOMAIN orders : IsWorking(orders[i])}
Held         == SetToSeq({p \in Products : positions[p] # Flat})

\* The lots of a position and what was paid for them.
Balance(q) == q.Qty + q.LongQty - q.ShortQty
Spent(q)   == q.DepTotalAmt + q.LongTotalAmt - q.ShortTotalAmt
Side(n)    == IF n > 0 THEN "B" ELSE "S"

\* A position as GetPosition returns it, in one of the two readings that the
\* interface leaves open: LongShort is the direction of the whole position, or
\* it is the sign of what was deposited, which is then sent without one.
GetPosition(p) ==
    LET q == positions[p]
    IN  IF p \in SignedProducts
        THEN [ProdCode |-> p, LongShort |-> Side(Balance(q)), position |-> q]
        ELSE [ProdCode |-> p, LongShort |-> Side(q.Qty),
              position |-> IF q.Qty >= 0 THEN q
                           ELSE [q EXCEPT !.Qty = 0 - @, !.DepTotalAmt = 0 - @]]

List(kind) ==
    CASE kind = "pending" -> Pick(orders, Working)
      [] kind = "holding" -> [i \in DOMAIN Held |-> GetPosition(Held[i])]
      [] kind = "funds"   -> funds
      [] kind = "history" -> Pick(orders, DOMAIN orders \ Working)

\* The answer to start_index (a page, from 0) and batch_num.
Answer(kind, start_index, batch_num) ==
    LET all  == List(kind)
        last == (start_index + 1) * batch_num
    IN  [list     |-> SubSeq(all, start_index * batch_num + 1,
                             IF last < Len(all) THEN last ELSE Len(all)),
         has_more |-> last < Len(all)]

-----------------------------------------------------------------------------
(* FuturesConvert *)

TradeCmd(side) == IF side = "B" THEN 1 ELSE 2

\* Faulty State: a part is taken for the whole.
StateTraded(o) ==
    IF o.BuySell # "B" THEN "unset"
    ELSE IF o.Status \in {"TRADED", "PARTTRD_WRK"} THEN "traded"
    ELSE "not traded"

\* The state of an order, for the detail and the history; sells have none.
State(o) ==
    IF o.BuySell # "B" THEN "unset"
    ELSE IF o.Status = "TRADED" THEN "traded"
    ELSE IF o.Status = "PARTTRD_WRK" THEN "partly traded"
    ELSE "not traded"

OrderInfo(o) ==
    [order_id |-> o.IntOrderNo, trade_cmd |-> TradeCmd(o.BuySell), state |-> State(o)]

\* Nothing is shown where the answer has no orderInfo.
ToProtoOrderDetail(resp) ==
    IF resp.isset THEN <<OrderInfo(resp.orderInfo)>> ELSE <<>>

\* Faulty ToProtoActiveOrders: has_more is not set.
ToProtoActiveOrdersLast(resp) ==
    [items |-> [i \in DOMAIN resp.list |->
                   [order_id  |-> resp.list[i].IntOrderNo,
                    symbol    |-> resp.list[i].ProdCode,
                    trade_cmd |-> TradeCmd(resp.list[i].BuySell)]],
     has_more |-> FALSE]

ToProtoActiveOrders(resp) ==
    [items |-> [i \in DOMAIN resp.list |->
                   [order_id  |-> resp.list[i].IntOrderNo,
                    symbol    |-> resp.list[i].ProdCode,
                    trade_cmd |-> TradeCmd(resp.list[i].BuySell)]],
     has_more |-> resp.has_more]

\* Faulty HoldingCmd: the letter of a long position is mistaken.
HoldingCmdL(x) == IF x.LongShort = "L" THEN 1 ELSE 2

\* The direction of a holding.
HoldingCmd(x) == TradeCmd(x.LongShort)

\* The net position, and the amount that avg_price divides by it unless it is 0.
Net(q)    == q.Qty + q.LongQty - q.ShortQty
Amount(q) == q.DepTotalAmt + q.LongTotalAmt - q.ShortTotalAmt

\* avg_price is the quotient of its two parts; 0 / 1 for a closed position.
ToProtoPosition(resp) ==
    [items |-> [i \in DOMAIN resp.list |->
                   LET q == resp.list[i].position
                   IN  [symbol |-> resp.list[i].ProdCode,
                        trade_cmd |-> HoldingCmd(resp.list[i]),
                        net    |-> Net(q),
                        avg    |-> IF Net(q) = 0 THEN <<0, 1>> ELSE <<Amount(q), Net(q)>>]],
     has_more |-> resp.has_more]

\* The history does not say whether there is more.
ToProtoHistoryOrders(resp) ==
    [items |-> [i \in DOMAIN resp.list |-> OrderInfo(resp.list[i])],
     has_more |-> FALSE]

\* Faulty ToProtoFundRecord: the two directions are exchanged.
ToProtoFundRecordSwapped(resp) ==
    [items |-> [i \in DOMAIN resp.list |->
                   IF resp.list[i].description = 1 THEN "in" ELSE "out"],
     has_more |-> resp.has_more]

ToProtoFundRecord(resp) ==
    [items |-> [i \in DOMAIN resp.list |->
                   IF resp.list[i].description = 1 THEN "out" ELSE "in"],
     has_more |-> resp.has_more]

\* The handler of each list.
Convert(kind, resp) ==
    CASE kind = "pending" -> ToProtoActiveOrders(resp)
      [] kind = "holding" -> ToProtoPosition(resp)
      [] kind = "funds"   -> ToProtoFundRecord(resp)
      [] kind = "history" -> ToProtoHistoryOrders(resp)

-----------------------------------------------------------------------------

\* FuturesTrade places an order.
FuturesTrade(type, prod, qty) ==
    /\ Len(orders) + Len(funds) < MaxRecords
    /\ orders' = Append(orders,
          [IntOrderNo |-> Len(orders) + 1, ProdCode |-> prod, type |-> type,
           BuySell |-> BuySell(type), Qty |-> qty, Traded |-> 0,
           Amt |-> 0, Status |-> "WORKING"])
    /\ view' = NoView
    /\ UNCHANGED <<positions, funds>>

\* CancelPendingOrder deletes an order by its order_id.
CancelPendingOrder(id) ==
    /\ IsWorking(orders[id])
    /\ orders' = [orders EXCEPT ![id].Status = "DELETED"]
    /\ view' = NoView
    /\ UNCHANGED <<positions, funds>>

\* The exchange fills one lot of an order.
Fill(i, price) ==
    LET o == orders[i]
    IN  /\ IsWorking(o)
        /\ orders' = [orders EXCEPT ![i].Traded = @ + 1, ![i].Amt = @ + price,
              ![i].Status = IF o.Traded + 1 = o.Qty THEN "TRADED" ELSE "PARTTRD_WRK"]
        /\ positions' = IF o.BuySell = "B"
              THEN [positions EXCEPT ![o.ProdCode].LongQty = @ + 1,
                                     ![o.ProdCode].LongTotalAmt = @ + price]
              ELSE [positions EXCEPT ![o.ProdCode].ShortQty = @ + 1,
                                     ![o.ProdCode].ShortTotalAmt = @ + price]
        /\ view' = NoView
        /\ UNCHANGED funds

\* Overnight what was traded becomes the deposited position.
Settle ==
    /\ positions' = [p \in Products |->
          [Flat EXCEPT !.Qty = Balance(positions[p]), !.DepTotalAmt = Spent(positions[p])]]
    /\ view' = NoView
    /\ UNCHANGED <<orders, funds>>

\* Money is paid in or out.
Pay(out) ==
    /\ Len(orders) + Len(funds) < MaxRecords
    /\ funds' = Append(funds, [out |-> out, description |-> IF out THEN 1 ELSE 0])
    /\ view' = NoView
    /\ UNCHANGED <<orders, positions>>

\* A page is asked for, converted and added to what the app has.
NextPage(v) ==
    LET resp == Convert(v.kind, Answer(v.kind, v.page, v.batch))
    IN  view' = [v EXCEPT !.page = v.page + 1, !.items = v.items \o resp.items,
                          !.done = ~resp.has_more]

\* The app opens a list.
OpenList(kind, batch) ==
    /\ NextPage([NoView EXCEPT !.kind = kind, !.batch = batch])
    /\ UNCHANGED accountVars

\* QueryOrderDetail: the app asks for one order by its number; the answer may be
\* a success without the order.
OpenDetail(id, isset) ==
    /\ view' = [NoView EXCEPT !.kind = "detail",
                  !.items = ToProtoOrderDetail([isset |-> isset, orderInfo |-> orders[id]])]
    /\ UNCHANGED accountVars

\* The app scrolls on.
MorePages ==
    /\ ~view.done /\ NextPage(view)
    /\ UNCHANGED accountVars

Init ==
    /\ orders = <<>> /\ funds = <<>>
    /\ positions = [p \in Products |-> Flat]
    /\ view = NoView

Next ==
    \/ \E type \in Types, prod \in Products, qty \in 1 .. MaxQty :
          FuturesTrade(type, prod, qty)
    \/ \E i \in DOMAIN orders :
          \/ CancelPendingOrder(i)
          \/ \E isset \in BOOLEAN : OpenDetail(i, isset)
          \/ \E p \in Prices : Fill(i, p)
    \/ Settle \/ \E out \in BOOLEAN : Pay(out)
    \/ \E kind \in Lists, batch \in BatchNums : OpenList(kind, batch)
    \/ MorePages

Spec == Init /\ [][Next]_vars

-----------------------------------------------------------------------------
(* Properties *)

\* The app has collected the list of this kind.
Collected(kind) == view.kind = kind /\ view.done

\* However it is cut into pages, the list of pending orders is complete, in
\* order and without repetition, and shows each order as the direction the user
\* asked for; only an order without a proper type is shown as a sell.
PendingIsPlaced ==
    Collected("pending") =>
        /\ {view.items[i].order_id : i \in DOMAIN view.items} = Working
        /\ \A i, j \in DOMAIN view.items :
              i < j => view.items[i].order_id < view.items[j].order_id
        /\ \A i \in DOMAIN view.items :
              LET o == orders[view.items[i].order_id]
              IN  /\ view.items[i].symbol = o.ProdCode
                  /\ view.items[i].trade_cmd = IF o.type = 1 THEN 1 ELSE 2

\* What the orders of a product have traded, in all: lots and money, sells
\* counted against buys.
Signed(o, n) == IF o.type = 1 THEN n ELSE 0 - n
Lots(p) ==
    Total([i \in DOMAIN orders |-> LET o == orders[i]
                                   IN  IF o.ProdCode = p THEN Signed(o, o.Traded) ELSE 0])
Money(p) ==
    Total([i \in DOMAIN orders |-> LET o == orders[i]
                                   IN  IF o.ProdCode = p THEN Signed(o, o.Amt) ELSE 0])

\* What comes from an earlier day and is short, where LongShort is the sign of it.
ShortUnsigned(p) == p \notin SignedProducts /\ positions[p].Qty < 0
Untouched(p)     == positions[p].LongQty = 0 /\ positions[p].ShortQty = 0

\* The holdings show every product that was traded and not settled to nothing,
\* with the lots bought less those sold, their direction, and an average price
\* that makes up the money spent, also where the position is closed or short.
\* Where LongShort is only the sign of what was deposited, the direction is
\* right while nothing is traded on top of it, and of a deposited short
\* position the lots come without their sign and are right only so long.
HoldingIsFills ==
    Collected("holding") =>
        /\ \A i \in DOMAIN view.items :
              LET v == view.items[i]
                  p == v.symbol
                  n == Lots(p)
              IN  /\ ~ShortUnsigned(p) => v.net = n
                  /\ ShortUnsigned(p) /\ Untouched(p) => v.net = 0 - n
                  /\ n # 0 /\ (p \in SignedProducts \/ Untouched(p)) =>
                        v.trade_cmd = IF n > 0 THEN 1 ELSE 2
                  /\ n # 0 /\ (~ShortUnsigned(p) \/ Untouched(p)) =>
                        v.avg[1] * n = Money(p) * v.avg[2]
                  /\ v.avg[2] # 0
        /\ \A p \in Products : Lots(p) # 0 =>
              \E i \in DOMAIN view.items : view.items[i].symbol = p

\* The fund movements are complete and each has its direction.
FundsAreComplete ==
    Collected("funds") =>
        view.items = [i \in DOMAIN funds |-> IF funds[i].out THEN "out" ELSE "in"]

\* An order of the history, or one that is looked at, is shown as traded when all
\* of it was, as partly traded while it is being filled, and as not traded when
\* nothing of it was or when the rest was cancelled, whatever was filled before
\* that; sells show no state.
StateIsTrue ==
    Collected("history") \/ Collected("detail") =>
        \A i \in DOMAIN view.items :
            LET v == view.items[i]
                o == orders[v.order_id]
            IN  /\ v.trade_cmd = IF o.type = 1 THEN 1 ELSE 2
                /\ v.state = "traded" <=> o.type = 1 /\ o.Traded = o.Qty
                /\ v.state = "partly traded"
                      <=> o.type = 1 /\ o.Traded \in 1 .. o.Qty - 1 /\ IsWorking(o)
                /\ v.state = "not traded"
                      <=> o.type = 1 /\ o.Traded < o.Qty /\ (o.Traded = 0 \/ ~IsWorking(o))
=============================================================================
