----------------------- MODULE FuturesConvertProofs -----------------------
(***************************************************************************)
(* The lists a user sees are right for any number of orders, products,     *)
(* prices and fund movements, and for pages of any size.                   *)
(***************************************************************************)
EXTENDS FuturesConvert, ListFacts

Order ==
    [IntOrderNo : Nat, ProdCode : Products, type : Types, BuySell : {"B", "S"},
     Qty : Nat, Traded : Nat, Amt : Int,
     Status : {"WORKING", "PARTTRD_WRK", "TRADED", "DELETED"}]

\* A side that was not traded today has cost nothing today.
Position ==
    {q \in [Qty : Int, LongQty : Nat, ShortQty : Nat,
            DepTotalAmt : Int, LongTotalAmt : Int, ShortTotalAmt : Int] :
        /\ q.LongQty = 0 => q.LongTotalAmt = 0
        /\ q.ShortQty = 0 => q.ShortTotalAmt = 0}

Fund == [out : BOOLEAN, description : {0, 1}]

\* The types of the account.
AccountType ==
    /\ orders \in Seq(Order) /\ funds \in Seq(Fund)
    /\ positions \in [Products -> Position]

\* An order has its number, the side of its type, and the status that goes with
\* what it has traded.
OrderOK(o, i) ==
    /\ o.IntOrderNo = i /\ o.BuySell = BuySell(o.type)
    /\ o.Traded <= o.Qty
    /\ o.Status = "WORKING" => o.Traded = 0
    /\ o.Status = "PARTTRD_WRK" => o.Traded > 0
    /\ o.Status = "TRADED" <=> o.Traded = o.Qty
OrdersInv == \A i \in DOMAIN orders : OrderOK(orders[i], i)

FundsInv == \A i \in DOMAIN funds : funds[i].description = 1 <=> funds[i].out

\* A position is what the orders of its product have traded, also when a part
\* of it was settled.
PositionsInv ==
    \A p \in Products :
        Net(positions[p]) = Lots(p) /\ Amount(positions[p]) = Money(p)

\* What the app should see of one entry of a list ...
Item(kind, x) ==
    CASE kind = "pending" -> [order_id  |-> x.IntOrderNo, symbol |-> x.ProdCode,
                              trade_cmd |-> TradeCmd(x.BuySell)]
      [] kind = "holding" -> [symbol |-> x.ProdCode, trade_cmd |-> HoldingCmd(x),
                              net    |-> Net(x.position),
                              avg    |-> IF Net(x.position) = 0 THEN <<0, 1>>
                                         ELSE <<Amount(x.position), Net(x.position)>>]
      [] kind = "funds"   -> IF x.description = 1 THEN "out" ELSE "in"
      [] kind = "history" -> OrderInfo(x)

\* ... and of all of it.
Shown(kind) == [i \in DOMAIN List(kind) |-> Item(kind, List(kind)[i])]

\* The entries on the first pages.
Upto(n, kind) == IF n < Len(List(kind)) THEN n ELSE Len(List(kind))

\* The app has the first pages of the list of the account as it is, and knows
\* whether there are more; of the history it believes that there are not.
ViewOK(v) ==
    \/ v = NoView
    \/ /\ v.kind \in Lists /\ v.batch \in Nat \ {0} /\ v.page \in Nat \ {0}
       /\ v.items = SubSeq(Shown(v.kind), 1, Upto(v.page * v.batch, v.kind))
       /\ v.done <=> v.kind = "history" \/ v.page * v.batch >= Len(List(v.kind))
       /\ v = [kind |-> v.kind, batch |-> v.batch, page |-> v.page,
               items |-> v.items, done |-> v.done]
    \/ /\ v.kind = "detail" /\ v.done
       /\ \E id \in DOMAIN orders : v.items = <<>> \/ v.items = <<OrderInfo(orders[id])>>

Inv == AccountType /\ OrdersInv /\ FundsInv /\ PositionsInv /\ ViewOK(view)

-----------------------------------------------------------------------------
(* The lists and their pages *)

\* Which list of the trade server each handler pages through ...
LEMMA ListIs ==
  /\ List("pending") = Pick(orders, Working)
  /\ List("holding") = [i \in DOMAIN Held |-> GetPosition(Held[i])]
  /\ List("funds") = funds
  /\ List("history") = Pick(orders, DOMAIN orders \ Working)
  BY DEF List

\* ... and how it shows an entry.
LEMMA ItemIs ==
  ASSUME NEW x
  PROVE  /\ Item("pending", x) = [order_id  |-> x.IntOrderNo, symbol |-> x.ProdCode,
                                  trade_cmd |-> TradeCmd(x.BuySell)]
         /\ Item("holding", x) =
               [symbol |-> x.ProdCode, trade_cmd |-> HoldingCmd(x),
                net    |-> Net(x.position),
                avg    |-> IF Net(x.position) = 0 THEN <<0, 1>>
                           ELSE <<Amount(x.position), Net(x.position)>>]
         /\ Item("funds", x) = IF x.description = 1 THEN "out" ELSE "in"
         /\ Item("history", x) = OrderInfo(x)
  BY DEF Item

\* The lists are sequences.
LEMMA ListType ==
  ASSUME AccountType, NEW kind \in Lists
  PROVE  /\ List(kind) \in Seq({List(kind)[i] : i \in DOMAIN List(kind)})
         /\ Len(List(kind)) \in Nat /\ DOMAIN List(kind) = 1 .. Len(List(kind))
<1>1. \E S : List(kind) \in Seq(S)
  <2>1. Pick(orders, Working) \in Seq(Order)
        BY PickFacts DEF AccountType, Working
  <2>2. Pick(orders, DOMAIN orders \ Working) \in Seq(Order)
        BY PickFacts DEF AccountType
  <2> DEFINE H == {p \in Products : positions[p] # Flat}
  <2> DEFINE E(p) == GetPosition(p)
  <2>3. IsFiniteSet(H)
        BY AccountAssumption, FS_Subset
  <2>4. Held \in Seq(H)
        BY <2>3, SetToSeqFacts DEF Held
  <2>5. [i \in DOMAIN Held |-> E(Held[i])] \in Seq({E(p) : p \in H})
        BY <2>4
  <2>q. QED
        BY <2>1, <2>2, <2>5, ListIs DEF Lists, AccountType
<1>q. QED
      BY <1>1

\* So is what the app should see of one.
LEMMA ShownType ==
  ASSUME AccountType, NEW kind \in Lists
  PROVE  /\ Shown(kind) \in Seq({Shown(kind)[i] : i \in DOMAIN Shown(kind)})
         /\ Len(Shown(kind)) = Len(List(kind)) /\ Len(List(kind)) \in Nat
         /\ \A i \in 1 .. Len(List(kind)) : Shown(kind)[i] = Item(kind, List(kind)[i])
<1>1. Len(List(kind)) \in Nat /\ DOMAIN List(kind) = 1 .. Len(List(kind))
      BY ListType
<1> DEFINE n == Len(List(kind))
<1>2. Shown(kind) = [i \in 1 .. n |-> Item(kind, List(kind)[i])]
      BY <1>1 DEF Shown
<1>q. QED
      BY <1>1, <1>2

\* The handlers convert entry by entry.
LEMMA ConvertIs ==
  ASSUME NEW kind \in Lists, NEW resp
  PROVE  /\ Convert(kind, resp).items
               = [i \in DOMAIN resp.list |-> Item(kind, resp.list[i])]
         /\ Convert(kind, resp).has_more
               = IF kind = "history" THEN FALSE ELSE resp.has_more
<1>1. CASE kind = "pending"
  <2>1. Convert("pending", resp) = ToProtoActiveOrders(resp)
        BY DEF Convert
  <2>2. ASSUME NEW i \in DOMAIN resp.list
        PROVE  ToProtoActiveOrders(resp).items[i] = Item("pending", resp.list[i])
        BY ItemIs DEF ToProtoActiveOrders
  <2>3. /\ ToProtoActiveOrders(resp).items
              = [i \in DOMAIN resp.list |-> ToProtoActiveOrders(resp).items[i]]
        /\ ToProtoActiveOrders(resp).has_more = resp.has_more
        BY DEF ToProtoActiveOrders
  <2>q. QED
        BY <1>1, <2>1, <2>2, <2>3
<1>2. CASE kind = "holding"
  <2>1. Convert("holding", resp) = ToProtoPosition(resp)
        BY DEF Convert
  <2>2. ASSUME NEW i \in DOMAIN resp.list
        PROVE  ToProtoPosition(resp).items[i] = Item("holding", resp.list[i])
        BY ItemIs DEF ToProtoPosition
  <2>3. /\ ToProtoPosition(resp).items
              = [i \in DOMAIN resp.list |-> ToProtoPosition(resp).items[i]]
        /\ ToProtoPosition(resp).has_more = resp.has_more
        BY DEF ToProtoPosition
  <2>q. QED
        BY <1>2, <2>1, <2>2, <2>3
<1>3. CASE kind = "funds"
  <2>1. Convert("funds", resp) = ToProtoFundRecord(resp)
        BY DEF Convert
  <2>2. ASSUME NEW i \in DOMAIN resp.list
        PROVE  ToProtoFundRecord(resp).items[i] = Item("funds", resp.list[i])
        BY ItemIs DEF ToProtoFundRecord
  <2>3. /\ ToProtoFundRecord(resp).items
              = [i \in DOMAIN resp.list |-> ToProtoFundRecord(resp).items[i]]
        /\ ToProtoFundRecord(resp).has_more = resp.has_more
        BY DEF ToProtoFundRecord
  <2>q. QED
        BY <1>3, <2>1, <2>2, <2>3
<1>4. CASE kind = "history"
  <2>1. Convert("history", resp) = ToProtoHistoryOrders(resp)
        BY DEF Convert
  <2>2. ASSUME NEW i \in DOMAIN resp.list
        PROVE  ToProtoHistoryOrders(resp).items[i] = Item("history", resp.list[i])
        BY ItemIs DEF ToProtoHistoryOrders
  <2>3. /\ ToProtoHistoryOrders(resp).items
              = [i \in DOMAIN resp.list |-> ToProtoHistoryOrders(resp).items[i]]
        /\ ToProtoHistoryOrders(resp).has_more = FALSE
        BY DEF ToProtoHistoryOrders
  <2>q. QED
        BY <1>4, <2>1, <2>2, <2>3
<1>q. QED
      BY <1>1, <1>2, <1>3, <1>4 DEF Lists

\* A page is the next part of the list, up to its end.
LEMMA PageIs ==
  ASSUME AccountType, NEW kind \in Lists, NEW page \in Nat, NEW batch \in Nat \ {0},
         NEW resp, resp = Convert(kind, Answer(kind, page, batch))
  PROVE  /\ resp.items = SubSeq(Shown(kind), page * batch + 1,
                                Upto((page + 1) * batch, kind))
         /\ resp.has_more <=> kind # "history" /\ (page + 1) * batch < Len(List(kind))
<1> DEFINE L == List(kind)
<1> DEFINE from == page * batch
<1> DEFINE to == Upto((page + 1) * batch, kind)
<1> DEFINE A == Answer(kind, page, batch)
<1>1. L \in Seq({L[i] : i \in DOMAIN L}) /\ Len(L) \in Nat
      BY ListType
<1>2. from \in Nat /\ (page + 1) * batch \in Nat /\ to \in Nat /\ to <= Len(L)
      BY <1>1 DEF Upto
<1>3. A.list = SubSeq(L, from + 1, to) /\ A.has_more = ((page + 1) * batch < Len(L))
      BY DEF Answer, Upto
<1>4. resp.items = [i \in DOMAIN A.list |-> Item(kind, A.list[i])]
      BY ConvertIs
<1>5. resp.has_more <=> kind # "history" /\ (page + 1) * batch < Len(L)
      BY <1>3, ConvertIs
<1> HIDE DEF from, to, A, L
<1>6. \A i \in from + 1 .. to : i \in 1 .. Len(L)
      BY <1>1, <1>2
<1> DEFINE sl == SubSeq(L, from + 1, to)
<1> DEFINE ss == SubSeq(Shown(kind), from + 1, to)
<1> DEFINE m == IF from + 1 <= to THEN to - (from + 1) + 1 ELSE 0
<1>7. /\ Len(sl) = m /\ DOMAIN sl = 1 .. m /\ m \in Nat
      /\ \A i \in 1 .. m : sl[i] = L[from + 1 + i - 1]
      BY <1>1, <1>2, <1>6
<1>8. /\ Len(ss) = m /\ DOMAIN ss = 1 .. m /\ ss = [i \in 1 .. m |-> ss[i]]
      /\ \A i \in 1 .. m : ss[i] = Shown(kind)[from + 1 + i - 1]
      BY <1>2, <1>6, ShownType DEF L
<1>9. \A i \in 1 .. m : from + 1 + i - 1 \in 1 .. Len(L)
      BY <1>1, <1>2
<1>10. \A i \in 1 .. m : ss[i] = Item(kind, sl[i])
      BY <1>7, <1>8, <1>9, ShownType DEF L
<1>11. resp.items = ss
  <2>1. A.list = sl
        BY <1>3
  <2>2. resp.items = [i \in 1 .. m |-> Item(kind, sl[i])]
        BY <1>4, <1>7, <2>1
  <2>q. QED
        BY <1>8, <1>10, <2>2
<1>q. QED
      BY <1>5, <1>11 DEF from, to, L

\* What the app has before it asks for a page: the pages before it, and not yet
\* all of the list.
Before(v) ==
    /\ v.kind \in Lists /\ v.batch \in Nat \ {0} /\ v.page \in Nat
    /\ v.page * v.batch <= Len(List(v.kind))
    /\ v.items = SubSeq(Shown(v.kind), 1, v.page * v.batch)
    /\ v = [kind |-> v.kind, batch |-> v.batch, page |-> v.page,
            items |-> v.items, done |-> v.done]

\* A page that is added leaves no gap and repeats nothing.
LEMMA PageAdded ==
  ASSUME AccountType, NEW v, Before(v), NextPage(v), UNCHANGED accountVars
  PROVE  ViewOK(view)'
<1> DEFINE kind == v.kind
<1> DEFINE S == Shown(kind)
<1> DEFINE n == v.page * v.batch
<1> DEFINE k == (v.page + 1) * v.batch
<1> DEFINE to == Upto(k, kind)
<1> DEFINE resp == Convert(v.kind, Answer(v.kind, v.page, v.batch))
<1>1. kind \in Lists /\ v.batch \in Nat \ {0} /\ v.page \in Nat
      BY DEF Before
<1>2. view' = [v EXCEPT !.page = v.page + 1, !.items = v.items \o resp.items,
                        !.done = ~resp.has_more]
      BY DEF NextPage
<1>3. /\ view'.kind = kind /\ view'.batch = v.batch /\ view'.page = v.page + 1
      /\ view'.items = v.items \o resp.items /\ view'.done = ~resp.has_more
      /\ view' = [kind |-> view'.kind, batch |-> view'.batch, page |-> view'.page,
                  items |-> view'.items, done |-> view'.done]
      BY <1>2 DEF Before
<1>4. /\ resp.items = SubSeq(S, n + 1, to)
      /\ resp.has_more <=> kind # "history" /\ k < Len(List(kind))
  <2>1. \A q : q = resp =>
           /\ q.items = SubSeq(Shown(kind), v.page * v.batch + 1,
                                Upto((v.page + 1) * v.batch, kind))
           /\ q.has_more <=> kind # "history" /\ (v.page + 1) * v.batch < Len(List(kind))
        BY <1>1, PageIs
  <2>q. QED
        BY <2>1, Zenon
<1>6. /\ S \in Seq({S[i] : i \in DOMAIN S}) /\ Len(S) = Len(List(kind))
      /\ Len(List(kind)) \in Nat
      BY <1>1, ShownType
<1>7. n \in Nat /\ k \in Nat /\ n <= k /\ n <= Len(S)
  <2>1. n \in Nat /\ k = n + v.batch
        BY <1>1
  <2>q. QED
        BY <1>1, <1>6, <2>1 DEF Before
<1>8. n \in 0 .. Len(S) /\ to \in n .. Len(S)
      BY <1>6, <1>7 DEF Upto
<1>9. v.items = SubSeq(S, 1, n)
      BY DEF Before
<1> HIDE DEF n, k, resp, to, S
<1>10. view'.items = SubSeq(S, 1, to)
  <2>1. 1 \in 1 .. Len(S) + 1 /\ n \in 1 - 1 .. Len(S)
        BY <1>6, <1>8
  <2>2. SubSeq(S, 1, n) \o SubSeq(S, n + 1, to) = SubSeq(S, 1, to)
        BY <1>6, <1>8, <2>1, ConcatAdjacentSubSeq
  <2>q. QED
        BY <1>3, <1>4, <1>9, <2>2
<1>11. \A x : List(x)' = List(x) /\ Shown(x)' = Shown(x)
      BY DEF accountVars, List, Shown, Working, Held, GetPosition
<1>12. view'.done <=> kind = "history" \/ k >= Len(List(kind))
  <2>1. k >= Len(List(kind)) <=> ~(k < Len(List(kind)))
        BY <1>6, <1>7
  <2>q. QED
        BY <1>3, <1>4, <2>1, Zenon
<1>13. k = view'.page * view'.batch /\ view'.page \in Nat \ {0}
      BY <1>1, <1>3 DEF k
<1>q. QED
      BY <1>1, <1>3, <1>10, <1>11, <1>12, <1>13 DEF ViewOK, S, to, Upto

-----------------------------------------------------------------------------
(* The account *)

\* The summands of Lots and Money.
LotsOf(os, p) ==
    [i \in DOMAIN os |-> IF os[i].ProdCode = p THEN Signed(os[i], os[i].Traded) ELSE 0]
MoneyOf(os, p) ==
    [i \in DOMAIN os |-> IF os[i].ProdCode = p THEN Signed(os[i], os[i].Amt) ELSE 0]

\* What an order adds.
LEMMA SummandIs ==
  ASSUME NEW os, NEW p, NEW i \in DOMAIN os
  PROVE  /\ LotsOf(os, p)[i] = IF os[i].ProdCode = p
                               THEN Signed(os[i], os[i].Traded) ELSE 0
         /\ MoneyOf(os, p)[i] = IF os[i].ProdCode = p
                                THEN Signed(os[i], os[i].Amt) ELSE 0
  BY DEF LotsOf, MoneyOf

\* The summands are sequences of integers.
LEMMA SummandsType ==
  ASSUME NEW os \in Seq(Order), NEW p
  PROVE  /\ LotsOf(os, p) \in Seq(Int) /\ Len(LotsOf(os, p)) = Len(os)
         /\ MoneyOf(os, p) \in Seq(Int) /\ Len(MoneyOf(os, p)) = Len(os)
<1>1. Len(os) \in Nat /\ DOMAIN os = 1 .. Len(os) /\ \A i \in 1 .. Len(os) : os[i] \in Order
      OBVIOUS
<1>2. \A o \in Order : Signed(o, o.Traded) \in Int /\ Signed(o, o.Amt) \in Int
      BY DEF Signed, Order
<1>q. QED
      BY <1>1, <1>2 DEF LotsOf, MoneyOf

\* What the orders os of product p have traded.
LotsIn(os, p)  == Total(LotsOf(os, p))
MoneyIn(os, p) == Total(MoneyOf(os, p))

\* These are integers.
LEMMA SumsType ==
  ASSUME NEW os \in Seq(Order), NEW p
  PROVE  LotsIn(os, p) \in Int /\ MoneyIn(os, p) \in Int
  BY SummandsType, SumsExist, TotalIsSum DEF LotsIn, MoneyIn

\* A new order adds nothing.
LEMMA SumsOfNew ==
  ASSUME NEW os \in Seq(Order), NEW o \in Order, o.Traded = 0, o.Amt = 0, NEW p
  PROVE  /\ LotsIn(Append(os, o), p) = LotsIn(os, p)
         /\ MoneyIn(Append(os, o), p) = MoneyIn(os, p)
<1> DEFINE n == Len(os)
<1> DEFINE os1 == Append(os, o)
<1>1. /\ os1 \in Seq(Order) /\ n \in Nat /\ Len(os1) = n + 1
      /\ os1[n + 1] = o /\ \A k \in 1 .. n : os1[k] = os[k] /\ k \in 1 .. n + 1
      /\ n + 1 \in 1 .. n + 1
      OBVIOUS
<1>2. Signed(o, 0) = 0
      BY DEF Signed
<1> HIDE DEF os1
<1>3. /\ LotsOf(os1, p)[n + 1] = 0 /\ MoneyOf(os1, p)[n + 1] = 0
      /\ \A k \in 1 .. n : /\ LotsOf(os1, p)[k] = LotsOf(os, p)[k]
                           /\ MoneyOf(os1, p)[k] = MoneyOf(os, p)[k]
  <2>1. DOMAIN os = 1 .. n /\ DOMAIN os1 = 1 .. n + 1
        BY <1>1
  <2>2. LotsOf(os1, p)[n + 1] = 0 /\ MoneyOf(os1, p)[n + 1] = 0
    <3>1. n + 1 \in DOMAIN os1 /\ os1[n + 1] = o
          BY <1>1, <2>1
    <3>q. QED
          BY <1>2, <3>1, SummandIs
  <2>3. ASSUME NEW k \in 1 .. n
        PROVE  /\ LotsOf(os1, p)[k] = LotsOf(os, p)[k]
               /\ MoneyOf(os1, p)[k] = MoneyOf(os, p)[k]
    <3>1. k \in DOMAIN os /\ k \in DOMAIN os1 /\ os1[k] = os[k]
          BY <1>1, <2>1
    <3>q. QED
          BY <3>1, SummandIs
  <2>q. QED
        BY <2>2, <2>3
<1>4. /\ LotsIn(os1, p) = LotsIn(os, p) + 0
      /\ MoneyIn(os1, p) = MoneyIn(os, p) + 0
  <2>1. /\ LotsOf(os1, p) \in Seq(Int) /\ Len(LotsOf(os1, p)) = n + 1
        /\ LotsOf(os, p) \in Seq(Int) /\ Len(LotsOf(os, p)) = n
        /\ MoneyOf(os1, p) \in Seq(Int) /\ Len(MoneyOf(os1, p)) = n + 1
        /\ MoneyOf(os, p) \in Seq(Int) /\ Len(MoneyOf(os, p)) = n
        BY <1>1, SummandsType
  <2>2. Total(LotsOf(os1, p)) = Total(LotsOf(os, p)) + LotsOf(os1, p)[n + 1]
    <3> DEFINE c == LotsOf(os, p)
    <3> DEFINE d == LotsOf(os1, p)
    <3>1. /\ c \in Seq(Int) /\ d \in Seq(Int) /\ Len(c) = n /\ Len(d) = n + 1
          /\ \A k \in 1 .. n : d[k] = c[k]
          BY <1>3, <2>1
    <3> HIDE DEF c, d, n
    <3>2. Total(d) = Total(c) + d[Len(d)]
          BY <3>1, TotalAppend
    <3>q. QED
          BY <3>1, <3>2 DEF c, d
  <2>3. Total(MoneyOf(os1, p)) = Total(MoneyOf(os, p)) + MoneyOf(os1, p)[n + 1]
    <3> DEFINE c == MoneyOf(os, p)
    <3> DEFINE d == MoneyOf(os1, p)
    <3>1. /\ c \in Seq(Int) /\ d \in Seq(Int) /\ Len(c) = n /\ Len(d) = n + 1
          /\ \A k \in 1 .. n : d[k] = c[k]
          BY <1>3, <2>1
    <3> HIDE DEF c, d, n
    <3>2. Total(d) = Total(c) + d[Len(d)]
          BY <3>1, TotalAppend
    <3>q. QED
          BY <3>1, <3>2 DEF c, d
  <2>q. QED
        BY <1>3, <2>2, <2>3 DEF LotsIn, MoneyIn
<1>q. QED
      BY <1>4, SumsType DEF os1

\* The fields of an order.
LEMMA OrderFields ==
  ASSUME NEW o \in Order
  PROVE  /\ o.IntOrderNo \in Nat /\ o.ProdCode \in Products /\ o.type \in Types
         /\ o.BuySell \in {"B", "S"} /\ o.Qty \in Nat /\ o.Traded \in Nat /\ o.Amt \in Int
         /\ o.Status \in {"WORKING", "PARTTRD_WRK", "TRADED", "DELETED"}
  BY DEF Order

\* os1 is os with another order of the same product and side at i.
Replaced(os, os1, i) ==
    /\ os \in Seq(Order) /\ os1 \in Seq(Order) /\ Len(os1) = Len(os)
    /\ i \in 1 .. Len(os) /\ \A k \in 1 .. Len(os) : k # i => os1[k] = os[k]
    /\ os1[i].ProdCode = os[i].ProdCode /\ os1[i].type = os[i].type

\* What o has traded more than old, if it is an order of p.
MoreLots(old, o, p) ==
    IF old.ProdCode = p THEN Signed(old, o.Traded - old.Traded) ELSE 0
MoreMoney(old, o, p) ==
    IF old.ProdCode = p THEN Signed(old, o.Amt - old.Amt) ELSE 0

\* An order that is filled adds what it traded more.
LEMMA SumsOfFilled ==
  ASSUME NEW os, NEW os1, NEW i, Replaced(os, os1, i), NEW p
  PROVE  /\ LotsIn(os1, p) = LotsIn(os, p) + MoreLots(os[i], os1[i], p)
         /\ MoneyIn(os1, p) = MoneyIn(os, p) + MoreMoney(os[i], os1[i], p)
<1> DEFINE old == os[i]
<1> DEFINE o == os1[i]
<1>0. /\ os \in Seq(Order) /\ os1 \in Seq(Order) /\ i \in 1 .. Len(os)
      /\ old \in Order /\ o \in Order
      /\ o.ProdCode = old.ProdCode /\ o.type = old.type
      BY DEF Replaced
<1> DEFINE n == Len(os)
<1>1. /\ os1 \in Seq(Order) /\ n \in Nat /\ Len(os1) = n /\ os1[i] = o
      /\ \A k \in 1 .. n : k # i => os1[k] = os[k]
      BY DEF Replaced
<1>2. /\ LotsOf(os1, p) \in Seq(Int) /\ Len(LotsOf(os1, p)) = n
      /\ LotsOf(os, p) \in Seq(Int) /\ Len(LotsOf(os, p)) = n
      /\ MoneyOf(os1, p) \in Seq(Int) /\ Len(MoneyOf(os1, p)) = n
      /\ MoneyOf(os, p) \in Seq(Int) /\ Len(MoneyOf(os, p)) = n
      BY <1>0, <1>1, SummandsType
<1>3. \A k \in 1 .. n : k # i => /\ LotsOf(os1, p)[k] = LotsOf(os, p)[k]
                                 /\ MoneyOf(os1, p)[k] = MoneyOf(os, p)[k]
  <2>1. ASSUME NEW k \in 1 .. n, k # i PROVE k \in DOMAIN os /\ k \in DOMAIN os1 /\ os1[k] = os[k]
        BY <1>0, <1>1, <2>1
  <2>q. QED
        BY <2>1, SummandIs
<1>4. /\ LotsIn(os1, p) = LotsIn(os, p) + LotsOf(os1, p)[i] - LotsOf(os, p)[i]
      /\ MoneyIn(os1, p) = MoneyIn(os, p) + MoneyOf(os1, p)[i] - MoneyOf(os, p)[i]
  <2>1. LotsIn(os1, p) = LotsIn(os, p) + LotsOf(os1, p)[i] - LotsOf(os, p)[i]
    <3> DEFINE c == LotsOf(os, p)
    <3> DEFINE d == LotsOf(os1, p)
    <3>1. /\ c \in Seq(Int) /\ d \in Seq(Int) /\ Len(c) = n /\ Len(d) = n
          /\ i \in 1 .. n /\ \A k \in 1 .. n : k # i => d[k] = c[k]
          BY <1>0, <1>2, <1>3
    <3> HIDE DEF c, d, n
    <3>2. /\ Len(d) = Len(c) /\ i \in 1 .. Len(c)
          /\ \A k \in 1 .. Len(c) : k # i => d[k] = c[k]
          BY <3>1
    <3>3. c \in Seq(Int) /\ d \in Seq(Int)
          BY <3>1
    <3>4. Total(d) = Total(c) + d[i] - c[i]
          BY <3>2, <3>3, TotalChange
    <3>q. QED
          BY <3>4 DEF c, d, LotsIn
  <2>2. MoneyIn(os1, p) = MoneyIn(os, p) + MoneyOf(os1, p)[i] - MoneyOf(os, p)[i]
    <3> DEFINE c == MoneyOf(os, p)
    <3> DEFINE d == MoneyOf(os1, p)
    <3>1. /\ c \in Seq(Int) /\ d \in Seq(Int) /\ Len(c) = n /\ Len(d) = n
          /\ i \in 1 .. n /\ \A k \in 1 .. n : k # i => d[k] = c[k]
          BY <1>0, <1>2, <1>3
    <3> HIDE DEF c, d, n
    <3>2. /\ Len(d) = Len(c) /\ i \in 1 .. Len(c)
          /\ \A k \in 1 .. Len(c) : k # i => d[k] = c[k]
          BY <3>1
    <3>3. c \in Seq(Int) /\ d \in Seq(Int)
          BY <3>1
    <3>4. Total(d) = Total(c) + d[i] - c[i]
          BY <3>2, <3>3, TotalChange
    <3>q. QED
          BY <3>4 DEF c, d, MoneyIn
  <2>q. QED
        BY <2>1, <2>2
<1>5. /\ LotsOf(os1, p)[i] = IF o.ProdCode = p THEN Signed(o, o.Traded) ELSE 0
      /\ MoneyOf(os1, p)[i] = IF o.ProdCode = p THEN Signed(o, o.Amt) ELSE 0
      /\ LotsOf(os, p)[i] = IF old.ProdCode = p THEN Signed(old, old.Traded) ELSE 0
      /\ MoneyOf(os, p)[i] = IF old.ProdCode = p THEN Signed(old, old.Amt) ELSE 0
  <2>1. i \in DOMAIN os /\ i \in DOMAIN os1 /\ os1[i] = o
        BY <1>0, <1>1
  <2>q. QED
        BY <2>1, SummandIs
<1>6. /\ old.Traded \in Int /\ old.Amt \in Int
      /\ o.Traded \in Int /\ o.Amt \in Int
      BY <1>0, OrderFields
<1> HIDE DEF old, o
<1>7. \A x, y \in Int : Signed(o, x) - Signed(old, y) = Signed(old, x - y)
      BY <1>0 DEF Signed
<1>8. \A x \in Int : Signed(o, x) \in Int /\ Signed(old, x) \in Int
      BY DEF Signed
<1>9. LotsIn(os, p) \in Int /\ MoneyIn(os, p) \in Int
      BY <1>0, SumsType
<1>10. \A a, x, y \in Int : a + x - y = a + (x - y)
      OBVIOUS
<1>11. CASE old.ProdCode = p
  <2>1. o.ProdCode = p
        BY <1>0, <1>11
  <2>2. /\ LotsIn(os1, p) = LotsIn(os, p) + (Signed(o, o.Traded) - Signed(old, old.Traded))
        /\ MoneyIn(os1, p) = MoneyIn(os, p) + (Signed(o, o.Amt) - Signed(old, old.Amt))
        BY <1>4, <1>5, <1>6, <1>8, <1>9, <1>10, <1>11, <2>1
  <2>q. QED
        BY <1>6, <1>7, <1>11, <2>2 DEF MoreLots, MoreMoney, old, o
<1>12. CASE old.ProdCode # p
  <2>1. o.ProdCode # p
        BY <1>0, <1>12
  <2>2. LotsIn(os1, p) = LotsIn(os, p) + 0 - 0 /\ MoneyIn(os1, p) = MoneyIn(os, p) + 0 - 0
        BY <1>4, <1>5, <1>12, <2>1
  <2>q. QED
        BY <1>9, <1>12, <2>2 DEF MoreLots, MoreMoney, old, o
<1>q. QED
      BY <1>11, <1>12

\* The sums in these terms.
LEMMA SumsAre ==
  \A p : Lots(p) = LotsIn(orders, p) /\ Money(p) = MoneyIn(orders, p)
  BY DEF Lots, Money, LotsOf, MoneyOf, LotsIn, MoneyIn

\* An account that changes takes the list away.
LEMMA GivenUp == ASSUME view' = NoView PROVE ViewOK(view)'
  BY DEF ViewOK

\* FuturesTrade: a new order has traded nothing.
LEMMA FuturesTradeStep ==
  ASSUME Inv, NEW type \in Types, NEW prod \in Products, NEW qty \in 1 .. MaxQty,
         FuturesTrade(type, prod, qty)
  PROVE  Inv'
<1> DEFINE new == [IntOrderNo |-> Len(orders) + 1, ProdCode |-> prod, type |-> type,
                   BuySell |-> BuySell(type), Qty |-> qty, Traded |-> 0,
                   Amt |-> 0, Status |-> "WORKING"]
<1>1. orders' = Append(orders, new) /\ UNCHANGED <<positions, funds>> /\ view' = NoView
      BY DEF FuturesTrade
<1>2. orders \in Seq(Order) /\ Len(orders) \in Nat
      BY DEF Inv, AccountType
<1>3. new \in Order
      BY <1>2, AccountAssumption DEF Order, BuySell
<1>4. AccountType'
      BY <1>1, <1>2, <1>3 DEF Inv, AccountType
<1>5. OrderOK(new, Len(orders) + 1)
      BY AccountAssumption DEF OrderOK
<1>6. /\ Len(orders') = Len(orders) + 1 /\ orders'[Len(orders) + 1] = new
      /\ \A i \in 1 .. Len(orders) : orders'[i] = orders[i]
      /\ DOMAIN orders' = 1 .. Len(orders) + 1
      BY <1>1, <1>2, <1>3
<1>7. OrdersInv'
  <2>1. ASSUME NEW i \in 1 .. Len(orders) + 1 PROVE OrderOK(orders'[i], i)
    <3>1. CASE i = Len(orders) + 1
          BY <1>5, <1>6, <3>1
    <3>2. CASE i # Len(orders) + 1
          BY <1>2, <1>6, <3>2 DEF Inv, OrdersInv
    <3>q. QED
          BY <3>1, <3>2
  <2>q. QED
        BY <1>6, <2>1 DEF OrdersInv, OrderOK
<1>8. PositionsInv'
  <2> SUFFICES ASSUME NEW p \in Products
               PROVE  /\ Net(positions'[p]) = Lots(p)'
                      /\ Amount(positions'[p]) = Money(p)'
      BY DEF PositionsInv, Net, Amount
  <2>3. LotsIn(orders', p) = LotsIn(orders, p) /\ MoneyIn(orders', p) = MoneyIn(orders, p)
        BY <1>1, <1>2, <1>3, SumsOfNew
  <2>5. Lots(p)' = LotsIn(orders', p) /\ Money(p)' = MoneyIn(orders', p)
        BY DEF Lots, Money, LotsOf, MoneyOf, LotsIn, MoneyIn
  <2>6. Net(positions[p]) = Lots(p) /\ Amount(positions[p]) = Money(p)
        BY DEF Inv, PositionsInv
  <2>q. QED
        BY <1>1, <2>3, <2>5, <2>6, SumsAre
<1>q. QED
      BY <1>1, <1>4, <1>7, <1>8, GivenUp DEF Inv, FundsInv

\* An order that is replaced by a well-formed one leaves the others alone.
LEMMA OrderReplaced ==
  ASSUME Inv, NEW i \in DOMAIN orders, NEW o \in Order, OrderOK(o, i),
         orders' = [orders EXCEPT ![i] = o]
  PROVE  orders' \in Seq(Order) /\ OrdersInv'
<1>1. orders \in Seq(Order) /\ DOMAIN orders = 1 .. Len(orders)
      BY DEF Inv, AccountType
<1>2. orders' \in Seq(Order) /\ DOMAIN orders' = DOMAIN orders
      BY <1>1
<1>3. ASSUME NEW j \in DOMAIN orders PROVE OrderOK(orders'[j], j)
      BY <1>1 DEF Inv, OrdersInv
<1>q. QED
      BY <1>2, <1>3 DEF OrdersInv, OrderOK

\* CancelPendingOrder: what was filled before stays traded.
LEMMA CancelStep ==
  ASSUME Inv, NEW i \in DOMAIN orders, CancelPendingOrder(i)
  PROVE  Inv'
<1> DEFINE old == orders[i]
<1> DEFINE o == [old EXCEPT !.Status = "DELETED"]
<1>1. /\ orders' = [orders EXCEPT ![i] = o] /\ UNCHANGED <<positions, funds>>
      /\ view' = NoView /\ IsWorking(old)
      BY DEF CancelPendingOrder
<1>2. orders \in Seq(Order) /\ i \in 1 .. Len(orders) /\ old \in Order
      BY DEF Inv, AccountType
<1>3. OrderOK(old, i)
      BY DEF Inv, OrdersInv
<1> HIDE DEF old
<1>f. old.Traded \in Nat /\ old.Amt \in Int /\ old.Qty \in Nat
      BY <1>2, OrderFields
<1>e. o = [old EXCEPT !.Traded = old.Traded, !.Amt = old.Amt, !.Status = "DELETED"]
      BY <1>2 DEF Order
<1> HIDE DEF o
<1>g. /\ o \in Order /\ o.Traded = old.Traded /\ o.Amt = old.Amt /\ o.Status = "DELETED"
      /\ o.IntOrderNo = old.IntOrderNo /\ o.ProdCode = old.ProdCode
      /\ o.type = old.type /\ o.BuySell = old.BuySell /\ o.Qty = old.Qty
  <2>1. o \in Order
        BY <1>2, <1>f, <1>e DEF Order
  <2>q. QED
        BY <1>2, <1>e, <2>1 DEF Order
<1>4. o.Traded - old.Traded = 0 /\ o.Amt - old.Amt = 0
      BY <1>f, <1>g
<1>5. OrderOK(o, i)
      BY <1>1, <1>3, <1>f, <1>g DEF OrderOK, IsWorking
<1>6. orders' \in Seq(Order) /\ OrdersInv'
      BY <1>1, <1>g, <1>5, OrderReplaced
<1>k. /\ Len(orders') = Len(orders) /\ orders'[i] = o
      /\ \A k \in 1 .. Len(orders) : k # i => orders'[k] = orders[k]
      BY <1>1, <1>2, <1>g
<1>l. old = orders[i]
      BY DEF old
<1>7. ASSUME NEW p \in Products
      PROVE  Lots(p)' = Lots(p) /\ Money(p)' = Money(p)
  <2>1. Signed(old, 0) = 0
        BY DEF Signed
  <2>2. /\ LotsIn(orders', p) = LotsIn(orders, p) + 0
        /\ MoneyIn(orders', p) = MoneyIn(orders, p) + 0
    <3>1. Replaced(orders, orders', i)
          BY <1>2, <1>g, <1>6, <1>k, <1>l DEF Replaced
    <3>2. /\ LotsIn(orders', p) = LotsIn(orders, p) + MoreLots(old, o, p)
          /\ MoneyIn(orders', p) = MoneyIn(orders, p) + MoreMoney(old, o, p)
          BY <1>k, <1>l, <3>1, SumsOfFilled
    <3>q. QED
          BY <1>4, <2>1, <3>2 DEF MoreLots, MoreMoney
  <2>3. Lots(p)' = LotsIn(orders', p) /\ Money(p)' = MoneyIn(orders', p)
        BY DEF Lots, Money, LotsOf, MoneyOf, LotsIn, MoneyIn
  <2>q. QED
        BY <1>2, <2>2, <2>3, SumsAre, SumsType
<1>8. PositionsInv'
  <2>1. ASSUME NEW p \in Products
        PROVE  Net(positions'[p]) = Lots(p)' /\ Amount(positions'[p]) = Money(p)'
        BY <1>1, <1>7 DEF Inv, PositionsInv
  <2>q. QED
        BY <2>1 DEF PositionsInv, Net, Amount
<1>q. QED
      BY <1>1, <1>6, <1>8, GivenUp DEF Inv, AccountType, FundsInv

\* A lot is filled: the order, the position and the money move together.
LEMMA FillStep ==
  ASSUME Inv, NEW i \in DOMAIN orders, NEW price \in Prices, Fill(i, price)
  PROVE  Inv'
<1> DEFINE old == orders[i]
<1> DEFINE o == [old EXCEPT !.Traded = @ + 1, !.Amt = @ + price,
                    !.Status = IF old.Traded + 1 = old.Qty THEN "TRADED" ELSE "PARTTRD_WRK"]
<1> DEFINE q == positions[old.ProdCode]
<1>1. /\ orders' = [orders EXCEPT ![i] = o] /\ UNCHANGED funds
      /\ view' = NoView /\ IsWorking(old)
      BY DEF Fill
<1>2. /\ positions' = IF old.BuySell = "B"
            THEN [positions EXCEPT ![old.ProdCode].LongQty = @ + 1,
                                   ![old.ProdCode].LongTotalAmt = @ + price]
            ELSE [positions EXCEPT ![old.ProdCode].ShortQty = @ + 1,
                                   ![old.ProdCode].ShortTotalAmt = @ + price]
      BY DEF Fill
<1>3. orders \in Seq(Order) /\ i \in 1 .. Len(orders) /\ old \in Order
      BY DEF Inv, AccountType
<1>4. OrderOK(old, i) /\ price \in Int
      BY AccountAssumption DEF Inv, OrdersInv
<1> HIDE DEF old
<1>f. old.Traded \in Nat /\ old.Amt \in Int /\ old.Qty \in Nat /\ old.ProdCode \in Products
      BY <1>3, OrderFields
<1> DEFINE st == IF old.Traded + 1 = old.Qty THEN "TRADED" ELSE "PARTTRD_WRK"
<1>e. o = [old EXCEPT !.Traded = old.Traded + 1, !.Amt = old.Amt + price, !.Status = st]
      BY <1>3 DEF Order
<1> HIDE DEF o
<1>g. /\ o \in Order /\ o.Traded = old.Traded + 1 /\ o.Amt = old.Amt + price /\ o.Status = st
      /\ o.IntOrderNo = old.IntOrderNo /\ o.ProdCode = old.ProdCode
      /\ o.type = old.type /\ o.BuySell = old.BuySell /\ o.Qty = old.Qty
  <2>1. /\ st \in {"WORKING", "PARTTRD_WRK", "TRADED", "DELETED"}
        /\ old.Traded + 1 \in Nat /\ old.Amt + price \in Int
        BY <1>4, <1>f
  <2> HIDE DEF st
  <2>2. o \in Order
        BY <1>3, <1>e, <2>1 DEF Order
  <2>q. QED
        BY <1>3, <1>e, <2>1, <2>2 DEF Order
<1>5. o.Traded - old.Traded = 1 /\ o.Amt - old.Amt = price
      BY <1>4, <1>f, <1>g
<1>6. OrderOK(o, i)
      BY <1>1, <1>4, <1>f, <1>g DEF OrderOK, IsWorking
<1>7. orders' \in Seq(Order) /\ OrdersInv'
      BY <1>1, <1>g, <1>6, OrderReplaced
<1>k. /\ Len(orders') = Len(orders) /\ orders'[i] = o
      /\ \A k \in 1 .. Len(orders) : k # i => orders'[k] = orders[k]
      BY <1>1, <1>3, <1>g
<1>l. old = orders[i]
      BY DEF old
<1>8. positions \in [Products -> Position] /\ old.ProdCode \in Products /\ q \in Position
      BY <1>3 DEF Inv, AccountType, Order
<1>9. /\ positions' \in [Products -> Position]
      /\ \A p \in Products : p # old.ProdCode => positions'[p] = positions[p]
      /\ Net(positions'[old.ProdCode]) = Net(q) + Signed(old, 1)
      /\ Amount(positions'[old.ProdCode]) = Amount(q) + Signed(old, price)
  <2> DEFINE r == IF old.BuySell = "B"
                  THEN [q EXCEPT !.LongQty = @ + 1, !.LongTotalAmt = @ + price]
                  ELSE [q EXCEPT !.ShortQty = @ + 1, !.ShortTotalAmt = @ + price]
  <2>1. positions' = [positions EXCEPT ![old.ProdCode] = r]
        BY <1>2
  <2>2. r \in Position
    <3>1. ASSUME NEW a \in Nat \ {0}, NEW b \in Int
          PROVE  /\ [q EXCEPT !.LongQty = a, !.LongTotalAmt = b] \in Position
                 /\ [q EXCEPT !.ShortQty = a, !.ShortTotalAmt = b] \in Position
      <4> HIDE DEF q
      <4>q. QED
            BY <1>8 DEF Position
    <3>2. /\ q.LongQty + 1 \in Nat \ {0} /\ q.LongTotalAmt + price \in Int
          /\ q.ShortQty + 1 \in Nat \ {0} /\ q.ShortTotalAmt + price \in Int
      <4> HIDE DEF q
      <4>q. QED
            BY <1>4, <1>8 DEF Position
    <3>3. r = IF old.BuySell = "B"
              THEN [q EXCEPT !.LongQty = q.LongQty + 1, !.LongTotalAmt = q.LongTotalAmt + price]
              ELSE [q EXCEPT !.ShortQty = q.ShortQty + 1,
                             !.ShortTotalAmt = q.ShortTotalAmt + price]
          BY <1>8 DEF Position
    <3>q. QED
          BY <3>1, <3>2, <3>3
  <2>3. old.BuySell = "B" <=> old.type = 1
        BY <1>4 DEF OrderOK, BuySell
  <2>4. Net(r) = Net(q) + Signed(old, 1) /\ Amount(r) = Amount(q) + Signed(old, price)
    <3>1. CASE old.BuySell = "B"
      <4>1. /\ r.Qty = q.Qty /\ r.LongQty = q.LongQty + 1 /\ r.ShortQty = q.ShortQty
            /\ r.DepTotalAmt = q.DepTotalAmt /\ r.LongTotalAmt = q.LongTotalAmt + price
            /\ r.ShortTotalAmt = q.ShortTotalAmt
            BY <1>8, <3>1 DEF Position
      <4> HIDE DEF r, q
      <4>q. QED
        <5>1. /\ q.Qty \in Int /\ q.LongQty \in Int /\ q.ShortQty \in Int
              /\ q.DepTotalAmt \in Int /\ q.LongTotalAmt \in Int /\ q.ShortTotalAmt \in Int
              BY <1>8 DEF Position
        <5>2. Signed(old, 1) = 1 /\ Signed(old, price) = price
              BY <2>3, <3>1 DEF Signed
        <5>3. Net(r) = Net(q) + Signed(old, 1)
              BY <4>1, <5>1, <5>2 DEF Net
        <5>4. Amount(r) = Amount(q) + Signed(old, price)
              BY <1>4, <4>1, <5>1, <5>2 DEF Amount
        <5>q. QED
              BY <5>3, <5>4
    <3>2. CASE old.BuySell # "B"
      <4>1. /\ r.Qty = q.Qty /\ r.LongQty = q.LongQty /\ r.ShortQty = q.ShortQty + 1
            /\ r.DepTotalAmt = q.DepTotalAmt /\ r.LongTotalAmt = q.LongTotalAmt
            /\ r.ShortTotalAmt = q.ShortTotalAmt + price
            BY <1>8, <3>2 DEF Position
      <4> HIDE DEF r, q
      <4>q. QED
        <5>1. /\ q.Qty \in Int /\ q.LongQty \in Int /\ q.ShortQty \in Int
              /\ q.DepTotalAmt \in Int /\ q.LongTotalAmt \in Int /\ q.ShortTotalAmt \in Int
              BY <1>8 DEF Position
        <5>2. Signed(old, 1) = 0 - 1 /\ Signed(old, price) = 0 - price
              BY <2>3, <3>2 DEF Signed
        <5>3. Net(r) = Net(q) + Signed(old, 1)
              BY <4>1, <5>1, <5>2 DEF Net
        <5>4. Amount(r) = Amount(q) + Signed(old, price)
              BY <1>4, <4>1, <5>1, <5>2 DEF Amount
        <5>q. QED
              BY <5>3, <5>4
    <3>q. QED
          BY <3>1, <3>2
  <2> HIDE DEF r
  <2>5. positions'[old.ProdCode] = r
        BY <1>8, <2>1
  <2>q. QED
        BY <1>8, <2>1, <2>2, <2>4, <2>5
<1>10. PositionsInv'
  <2>1. ASSUME NEW p \in Products
        PROVE  Net(positions'[p]) = Lots(p)' /\ Amount(positions'[p]) = Money(p)'
    <3>1. /\ LotsIn(orders', p) = LotsIn(orders, p)
               + (IF old.ProdCode = p THEN Signed(old, 1) ELSE 0)
          /\ MoneyIn(orders', p) = MoneyIn(orders, p)
               + (IF old.ProdCode = p THEN Signed(old, price) ELSE 0)
      <4>1. Replaced(orders, orders', i)
            BY <1>3, <1>g, <1>7, <1>k, <1>l DEF Replaced
      <4>2. /\ LotsIn(orders', p) = LotsIn(orders, p) + MoreLots(old, o, p)
            /\ MoneyIn(orders', p) = MoneyIn(orders, p) + MoreMoney(old, o, p)
            BY <1>k, <1>l, <4>1, SumsOfFilled
      <4>q. QED
            BY <1>5, <4>2 DEF MoreLots, MoreMoney
    <3>2. Lots(p)' = LotsIn(orders', p) /\ Money(p)' = MoneyIn(orders', p)
          BY DEF Lots, Money, LotsOf, MoneyOf, LotsIn, MoneyIn
    <3>3. /\ Net(positions[p]) = LotsIn(orders, p) /\ LotsIn(orders, p) \in Int
          /\ Amount(positions[p]) = MoneyIn(orders, p) /\ MoneyIn(orders, p) \in Int
          BY <1>3, SumsAre, SumsType DEF Inv, PositionsInv
    <3>4. CASE p = old.ProdCode
          BY <1>9, <3>1, <3>2, <3>3, <3>4
    <3>5. CASE p # old.ProdCode
          BY <1>9, <3>1, <3>2, <3>3, <3>5
    <3>q. QED
          BY <3>4, <3>5
  <2>q. QED
        BY <2>1 DEF PositionsInv, Net, Amount
<1>q. QED
      BY <1>1, <1>7, <1>9, <1>10, GivenUp DEF Inv, AccountType, FundsInv

\* The settlement moves what was traded into the deposited position.
LEMMA SettleStep ==
  ASSUME Inv, Settle
  PROVE  Inv'
<1>1. UNCHANGED <<orders, funds>> /\ view' = NoView
      BY DEF Settle
<1>2. ASSUME NEW p \in Products
      PROVE  /\ positions'[p] \in Position
             /\ Net(positions'[p]) = Net(positions[p])
             /\ Amount(positions'[p]) = Amount(positions[p])
  <2>1. Net(positions[p]) \in Int /\ Amount(positions[p]) \in Int
        BY DEF Inv, AccountType, Position, Net, Amount
  <2>2. positions'[p] = [Flat EXCEPT !.Qty = Net(positions[p]),
                                     !.DepTotalAmt = Amount(positions[p])]
        BY DEF Settle, Balance, Spent, Net, Amount
  <2> DEFINE a == Net(positions[p])
  <2> DEFINE b == Amount(positions[p])
  <2>3. a \in Int /\ b \in Int /\ positions'[p] = [Flat EXCEPT !.Qty = a, !.DepTotalAmt = b]
        BY <2>1, <2>2
  <2> HIDE DEF a, b
  <2>4. positions'[p] = [Qty |-> a, LongQty |-> 0, ShortQty |-> 0,
                         DepTotalAmt |-> b, LongTotalAmt |-> 0, ShortTotalAmt |-> 0]
        BY <2>3 DEF Flat
  <2> DEFINE r == [Qty |-> a, LongQty |-> 0, ShortQty |-> 0,
                   DepTotalAmt |-> b, LongTotalAmt |-> 0, ShortTotalAmt |-> 0]
  <2>5. r \in Position /\ Net(r) = a /\ Amount(r) = b
        BY <2>3 DEF Position, Net, Amount
  <2>q. QED
        BY <2>4, <2>5 DEF a, b
<1>3. positions' \in [Products -> Position]
      BY <1>2 DEF Settle
<1>4. PositionsInv'
  <2>1. ASSUME NEW p \in Products
        PROVE  Lots(p)' = Lots(p) /\ Money(p)' = Money(p)
        BY <1>1 DEF Lots, Money
  <2>q. QED
        BY <1>2, <2>1 DEF Inv, PositionsInv
<1>q. QED
      BY <1>1, <1>3, <1>4, GivenUp DEF Inv, AccountType, FundsInv, OrdersInv

\* A fund movement has its direction.
LEMMA PayStep ==
  ASSUME Inv, NEW out \in BOOLEAN, Pay(out)
  PROVE  Inv'
<1> DEFINE f == [out |-> out, description |-> IF out THEN 1 ELSE 0]
<1>1. UNCHANGED <<orders, positions>> /\ view' = NoView /\ funds' = Append(funds, f)
      BY DEF Pay
<1>2. f \in Fund /\ (f.description = 1 <=> f.out)
      BY DEF Fund
<1> HIDE DEF f
<1>3. funds \in Seq(Fund)
      BY DEF Inv, AccountType
<1>4. funds' \in Seq(Fund) /\ FundsInv'
      BY <1>1, <1>2, <1>3 DEF Inv, FundsInv
<1>5. PositionsInv'
  <2>1. ASSUME NEW p \in Products
        PROVE  Lots(p)' = Lots(p) /\ Money(p)' = Money(p)
        BY <1>1 DEF Lots, Money
  <2>q. QED
        BY <1>1, <2>1 DEF Inv, PositionsInv
<1>q. QED
      BY <1>1, <1>4, <1>5, GivenUp DEF Inv, AccountType, OrdersInv

\* A step that leaves the account alone.
LEMMA AccountUnchanged ==
  ASSUME Inv, UNCHANGED accountVars
  PROVE  (AccountType /\ OrdersInv /\ FundsInv /\ PositionsInv)'
  BY DEF Inv, accountVars, AccountType, OrdersInv, FundsInv, PositionsInv, Lots, Money

\* The app opens a list: the first page follows on none.
LEMMA OpenListStep ==
  ASSUME Inv, NEW kind \in Lists, NEW batch \in BatchNums, OpenList(kind, batch)
  PROVE  Inv'
<1> DEFINE v == [NoView EXCEPT !.kind = kind, !.batch = batch]
<1>1. NextPage(v) /\ UNCHANGED accountVars /\ AccountType
      BY DEF OpenList, Inv
<1>2. /\ v.kind = kind /\ v.batch = batch /\ v.page = 0 /\ v.items = <<>>
      /\ v = [kind |-> v.kind, batch |-> v.batch, page |-> v.page,
              items |-> v.items, done |-> v.done]
  <2>1. /\ NoView.page = 0 /\ NoView.items = <<>>
        /\ NoView = [kind |-> NoView.kind, batch |-> NoView.batch, page |-> NoView.page,
                     items |-> NoView.items, done |-> NoView.done]
        BY DEF NoView
  <2> DEFINE w == NoView
  <2>2. w = [kind |-> w.kind, batch |-> w.batch, page |-> w.page,
             items |-> w.items, done |-> w.done]
        BY <2>1
  <2> HIDE DEF w
  <2>3. v = [w EXCEPT !.kind = kind, !.batch = batch]
        BY DEF w
  <2> HIDE DEF v
  <2>4. v = [kind |-> kind, batch |-> batch, page |-> w.page,
             items |-> w.items, done |-> w.done]
        BY <2>2, <2>3
  <2>q. QED
        BY <2>1, <2>4 DEF w
<1> HIDE DEF v
<1>3. batch \in Nat \ {0} /\ 0 * batch = 0
      BY BatchNumsAssumption
<1>4. Len(List(kind)) \in Nat /\ SubSeq(Shown(kind), 1, 0) = <<>>
      BY <1>1, ShownType
<1>5. Before(v)
      BY <1>2, <1>3, <1>4 DEF Before
<1>6. ViewOK(view)'
      BY <1>1, <1>5, PageAdded
<1>q. QED
      BY <1>1, <1>6, AccountUnchanged DEF Inv

\* One order is looked at.
LEMMA OpenDetailStep ==
  ASSUME Inv, NEW id \in DOMAIN orders, NEW isset \in BOOLEAN, OpenDetail(id, isset)
  PROVE  Inv'
<1> DEFINE d == ToProtoOrderDetail([isset |-> isset, orderInfo |-> orders[id]])
<1>0. d = <<>> \/ d = <<OrderInfo(orders[id])>>
      BY DEF ToProtoOrderDetail
<1>1. UNCHANGED accountVars /\ view' = [NoView EXCEPT !.kind = "detail", !.items = d]
      BY DEF OpenDetail
<1> HIDE DEF d
<1>2. view'.kind = "detail" /\ view'.done /\ view'.items = d
      BY <1>1 DEF NoView
<1>3. orders' = orders /\ id \in DOMAIN orders'
      BY <1>1 DEF accountVars
<1>4. ViewOK(view)'
  <2>1. (OrderInfo(orders[id]))' = OrderInfo(orders[id])
        BY <1>3 DEF OrderInfo, TradeCmd, State
  <2>q. QED
        BY <1>0, <1>2, <1>3, <2>1 DEF ViewOK
<1>q. QED
      BY <1>1, <1>4, AccountUnchanged DEF Inv

\* The app scrolls on, and so there is more.
LEMMA MorePagesStep ==
  ASSUME Inv, MorePages
  PROVE  Inv'
<1>1. ~view.done /\ NextPage(view) /\ UNCHANGED accountVars /\ AccountType /\ ViewOK(view)
      BY DEF MorePages, Inv
<1>2. /\ view.kind \in Lists /\ view.batch \in Nat \ {0} /\ view.page \in Nat \ {0}
      /\ view.items = SubSeq(Shown(view.kind), 1, Upto(view.page * view.batch, view.kind))
      /\ view.done <=> view.kind = "history" \/ view.page * view.batch >= Len(List(view.kind))
      /\ view = [kind |-> view.kind, batch |-> view.batch, page |-> view.page,
                 items |-> view.items, done |-> view.done]
      BY <1>1 DEF ViewOK, NoView
<1>3. Len(List(view.kind)) \in Nat /\ view.page * view.batch \in Nat
      BY <1>1, <1>2, ListType
<1>4. view.page * view.batch < Len(List(view.kind))
      BY <1>1, <1>2, <1>3
<1>5. Before(view)
      BY <1>2, <1>3, <1>4 DEF Before, Upto
<1>6. ViewOK(view)'
      BY <1>1, <1>5, PageAdded
<1>q. QED
      BY <1>1, <1>6, AccountUnchanged DEF Inv

\* A new account has nothing to show.
LEMMA InitInv == Init => Inv
<1> SUFFICES ASSUME Init PROVE Inv
    OBVIOUS
<1>1. orders = <<>> /\ funds = <<>> /\ positions = [p \in Products |-> Flat] /\ view = NoView
      BY DEF Init
<1>2. Flat \in Position /\ Net(Flat) = 0 /\ Amount(Flat) = 0
      BY DEF Flat, Position, Net, Amount
<1>3. AccountType
      BY <1>1, <1>2 DEF AccountType
<1>4. ASSUME NEW p PROVE Lots(p) = 0 /\ Money(p) = 0
  <2>1. LotsOf(<<>>, p) = <<>> /\ MoneyOf(<<>>, p) = <<>>
        BY DEF LotsOf, MoneyOf
  <2>q. QED
        BY <1>1, <2>1, SumsAre, TotalEmpty DEF LotsIn, MoneyIn
<1>q. QED
      BY <1>1, <1>2, <1>3, <1>4 DEF Inv, OrdersInv, FundsInv, PositionsInv, ViewOK

\* Every step keeps the invariant.
LEMMA NextInv == Inv /\ [Next]_vars => Inv'
<1> SUFFICES ASSUME Inv, [Next]_vars PROVE Inv'
    OBVIOUS
<1>1. ASSUME NEW type \in Types, NEW prod \in Products, NEW qty \in 1 .. MaxQty,
             FuturesTrade(type, prod, qty)
      PROVE  Inv'
      BY <1>1, FuturesTradeStep
<1>2. ASSUME NEW i \in DOMAIN orders, CancelPendingOrder(i) PROVE Inv'
      BY <1>2, CancelStep
<1>3. ASSUME NEW i \in DOMAIN orders, NEW isset \in BOOLEAN, OpenDetail(i, isset)
      PROVE  Inv'
      BY <1>3, OpenDetailStep
<1>4. ASSUME NEW i \in DOMAIN orders, NEW p \in Prices, Fill(i, p) PROVE Inv'
      BY <1>4, FillStep
<1>5. CASE Settle
      BY <1>5, SettleStep
<1>6. ASSUME NEW out \in BOOLEAN, Pay(out) PROVE Inv'
      BY <1>6, PayStep
<1>7. ASSUME NEW kind \in Lists, NEW batch \in BatchNums, OpenList(kind, batch) PROVE Inv'
      BY <1>7, OpenListStep
<1>8. CASE MorePages
      BY <1>8, MorePagesStep
<1>9. CASE UNCHANGED vars
  <2>1. UNCHANGED accountVars /\ view' = view
        BY <1>9 DEF vars
  <2>2. \A x : List(x)' = List(x) /\ Shown(x)' = Shown(x)
        BY <2>1 DEF accountVars, List, Shown, Working, Held, GetPosition
  <2>3. ViewOK(view)'
        BY <2>1, <2>2 DEF ViewOK, Upto, Inv, accountVars
  <2>q. QED
        BY <2>1, <2>3, AccountUnchanged DEF Inv
<1>q. QED
      BY <1>1, <1>2, <1>3, <1>4, <1>5, <1>6, <1>7, <1>8, <1>9 DEF Next

\* The account and the view always fit together.
THEOREM Invariance == Spec => []Inv
  BY InitInv, NextInv, PTL DEF Spec

-----------------------------------------------------------------------------
(* What the user sees *)

\* What the app has collected is a beginning of the list, and all of it where
\* the handler says whether there is more.
LEMMA CollectedIs ==
  ASSUME Inv, NEW kind \in Lists, Collected(kind)
  PROVE  /\ kind # "history" => view.items = Shown(kind)
         /\ DOMAIN view.items \subseteq 1 .. Len(List(kind))
         /\ \A i \in DOMAIN view.items : view.items[i] = Item(kind, List(kind)[i])
<1>1. view.kind = kind /\ view.done /\ AccountType /\ ViewOK(view)
      BY DEF Collected, Inv
<1> DEFINE S == Shown(kind)
<1> DEFINE n == view.page * view.batch
<1>2. /\ view.batch \in Nat \ {0} /\ view.page \in Nat \ {0}
      /\ view.items = SubSeq(S, 1, Upto(n, kind))
      /\ kind = "history" \/ n >= Len(List(kind))
      BY <1>1 DEF ViewOK, NoView, Lists
<1>3. /\ S \in Seq({S[i] : i \in DOMAIN S})
      /\ Len(S) = Len(List(kind)) /\ Len(List(kind)) \in Nat
      /\ \A i \in 1 .. Len(List(kind)) : S[i] = Item(kind, List(kind)[i])
      BY <1>1, ShownType
<1>4. n \in Nat
      BY <1>2
<1> HIDE DEF S, n
<1> DEFINE m == Upto(n, kind)
<1>5. m \in Nat /\ m <= Len(S) /\ (n >= Len(List(kind)) => m = Len(S))
      BY <1>3, <1>4 DEF Upto
<1> HIDE DEF m
<1>6. /\ DOMAIN view.items = 1 .. m /\ \A i \in 1 .. m : view.items[i] = S[i]
      /\ view.items = [i \in 1 .. m |-> S[i]]
      BY <1>2, <1>3, <1>5 DEF m
<1>7. S = [i \in 1 .. Len(S) |-> S[i]]
      BY <1>3
<1>8. kind # "history" => view.items = S
      BY <1>2, <1>5, <1>6, <1>7
<1>9. \A i \in 1 .. m : i \in 1 .. Len(List(kind))
      BY <1>3, <1>5
<1>10. \A i \in DOMAIN view.items : view.items[i] = Item(kind, List(kind)[i])
      BY <1>3, <1>6, <1>9
<1>q. QED
      BY <1>6, <1>8, <1>9, <1>10 DEF S

\* The fund movements are all shown, in order, each with its direction.
THEOREM FundsAreShown == Spec => []FundsAreComplete
<1>1. ASSUME Inv, Collected("funds") PROVE FundsAreComplete
  <2>1. view.items = Shown("funds") /\ Shown("funds") = [i \in DOMAIN funds |-> Item("funds", funds[i])]
        BY <1>1, CollectedIs, ListIs DEF Shown, Lists
  <2>2. ASSUME NEW i \in DOMAIN funds
        PROVE  Item("funds", funds[i]) = IF funds[i].out THEN "out" ELSE "in"
        BY <1>1, ItemIs DEF Inv, FundsInv
  <2>q. QED
        BY <2>1, <2>2 DEF FundsAreComplete
<1>2. Inv => FundsAreComplete
      BY <1>1 DEF FundsAreComplete
<1>q. QED
      BY <1>2, Invariance, PTL

\* An order o that is shown as v.
ShownTrue(v, o) ==
    /\ v.trade_cmd = IF o.type = 1 THEN 1 ELSE 2
    /\ v.state = "traded" <=> o.type = 1 /\ o.Traded = o.Qty
    /\ v.state = "partly traded"
          <=> o.type = 1 /\ o.Traded \in 1 .. o.Qty - 1 /\ IsWorking(o)
    /\ v.state = "not traded"
          <=> o.type = 1 /\ o.Traded < o.Qty /\ (o.Traded = 0 \/ ~IsWorking(o))

\* An order as it is shown says how much of it was traded.
LEMMA DetailIsTrue ==
  ASSUME NEW o \in Order, NEW i, OrderOK(o, i)
  PROVE  /\ OrderInfo(o).order_id = i
         /\ ShownTrue(OrderInfo(o), o)
<1> DEFINE v == OrderInfo(o)
<1>1. /\ o.Traded \in Nat /\ o.Qty \in Nat
      /\ o.Status \in {"WORKING", "PARTTRD_WRK", "TRADED", "DELETED"}
      BY OrderFields
<1>2. v.order_id = i /\ v.trade_cmd = TradeCmd(o.BuySell) /\ v.state = State(o)
      BY DEF OrderInfo, OrderOK
<1> HIDE DEF v
<1>3. o.BuySell = "B" <=> o.type = 1
      BY DEF OrderOK, BuySell
<1>4. State(o) = "traded" <=> o.type = 1 /\ o.Traded = o.Qty
      BY <1>3 DEF State, OrderOK
<1>5. State(o) = "partly traded"
         <=> o.type = 1 /\ o.Traded \in 1 .. o.Qty - 1 /\ IsWorking(o)
      BY <1>1, <1>3 DEF State, OrderOK, IsWorking
<1>6. State(o) = "not traded"
         <=> o.type = 1 /\ o.Traded < o.Qty /\ (o.Traded = 0 \/ ~IsWorking(o))
      BY <1>1, <1>3 DEF State, OrderOK, IsWorking
<1>q. QED
      BY <1>2, <1>3, <1>4, <1>5, <1>6 DEF TradeCmd, ShownTrue, v

\* The states that are shown say what became of the orders; one that was
\* cancelled after a part was filled is shown as not traded.
THEOREM StatesAreShown == Spec => []StateIsTrue
<1>1. ASSUME Inv, Collected("history") \/ Collected("detail"), NEW k \in DOMAIN view.items
      PROVE  \E i \in DOMAIN orders : view.items[k] = OrderInfo(orders[i])
  <2>1. CASE Collected("history")
    <3> DEFINE J == DOMAIN orders \ Working
    <3>1. orders \in Seq(Order)
          BY <1>1 DEF Inv, AccountType
    <3>2. /\ k \in 1 .. Len(Pick(orders, J))
          /\ view.items[k] = OrderInfo(Pick(orders, J)[k])
          BY <1>1, <2>1, CollectedIs, ListIs, ItemIs DEF Lists
    <3>3. /\ Len(Pick(orders, J)) = Cardinality(J)
          /\ \A l \in 1 .. Cardinality(J) :
                Ascending(J)[l] \in J /\ Pick(orders, J)[l] = orders[Ascending(J)[l]]
          BY <3>1, PickFacts
    <3>q. QED
          BY <3>2, <3>3
  <2>2. CASE Collected("detail")
    <3>1. PICK id \in DOMAIN orders :
             view.items = <<>> \/ view.items = <<OrderInfo(orders[id])>>
          BY <1>1, <2>2 DEF Collected, Inv, ViewOK, NoView, Lists
    <3>2. k = 1 /\ view.items = <<OrderInfo(orders[id])>>
          BY <1>1, <3>1
    <3>q. QED
          BY <3>2
  <2>q. QED
        BY <1>1, <2>1, <2>2
<1>2. ASSUME Inv, Collected("history") \/ Collected("detail"), NEW k \in DOMAIN view.items
      PROVE  LET v == view.items[k]
                 o == orders[v.order_id]
             IN  /\ v.trade_cmd = IF o.type = 1 THEN 1 ELSE 2
                 /\ v.state = "traded" <=> o.type = 1 /\ o.Traded = o.Qty
                 /\ v.state = "partly traded"
                       <=> o.type = 1 /\ o.Traded \in 1 .. o.Qty - 1 /\ IsWorking(o)
                 /\ v.state = "not traded"
                       <=> o.type = 1 /\ o.Traded < o.Qty /\ (o.Traded = 0 \/ ~IsWorking(o))
  <2>1. PICK i \in DOMAIN orders : view.items[k] = OrderInfo(orders[i])
        BY <1>1, <1>2
  <2>2. orders[i] \in Order /\ OrderOK(orders[i], i)
        BY <1>2 DEF Inv, AccountType, OrdersInv
  <2>3. view.items[k].order_id = i /\ ShownTrue(view.items[k], orders[i])
        BY <2>1, <2>2, DetailIsTrue
  <2>q. QED
        BY <2>3 DEF ShownTrue
<1>3. Inv => StateIsTrue
      BY <1>2 DEF StateIsTrue
<1>q. QED
      BY <1>3, Invariance, PTL

\* The pending orders are all shown, once and in order, each with its direction.
THEOREM PendingIsShown == Spec => []PendingIsPlaced
<1>1. ASSUME Inv, Collected("pending")
      PROVE  PendingIsPlaced
  <2> DEFINE n == Cardinality(Working)
  <2> DEFINE a == Ascending(Working)
  <2>1. orders \in Seq(Order) /\ Working \subseteq DOMAIN orders /\ DOMAIN orders \subseteq Int
        BY <1>1 DEF Inv, AccountType, Working
  <2>2. /\ IsFiniteSet(Working) /\ n \in Nat /\ Len(Pick(orders, Working)) = n
        /\ Pick(orders, Working) \in Seq(Order)
        /\ \A k \in 1 .. n : a[k] \in Working /\ Pick(orders, Working)[k] = orders[a[k]]
        BY <2>1, PickFacts
  <2>3. /\ \A i \in Working : \E k \in 1 .. n : a[k] = i
        /\ \A k, l \in 1 .. n : k < l => a[k] < a[l]
        BY <2>1, <2>2, AscendingFacts
  <2>4. DOMAIN view.items = 1 .. n
    <3>1. view.items = Shown("pending") /\ Shown("pending") = [i \in DOMAIN Pick(orders, Working) |-> Item("pending", Pick(orders, Working)[i])]
          BY <1>1, CollectedIs, ListIs DEF Lists, Shown
    <3>q. QED
          BY <2>2, <3>1
  <2> HIDE DEF n, a
  <2>5. ASSUME NEW k \in 1 .. n
        PROVE  /\ view.items[k].order_id = a[k]
               /\ view.items[k].symbol = orders[a[k]].ProdCode
               /\ view.items[k].trade_cmd = IF orders[a[k]].type = 1 THEN 1 ELSE 2
    <3> DEFINE o == orders[a[k]]
    <3>1. view.items[k] = [order_id  |-> o.IntOrderNo, symbol |-> o.ProdCode,
                           trade_cmd |-> TradeCmd(o.BuySell)]
      <4>1. view.items[k] = Item("pending", List("pending")[k])
            BY <1>1, <2>4, CollectedIs DEF Lists
      <4>2. List("pending")[k] = o
            BY <2>2, ListIs
      <4>q. QED
            BY <4>1, <4>2, ItemIs
    <3>2. OrderOK(o, a[k])
          BY <1>1, <2>1, <2>2 DEF Inv, OrdersInv
    <3> HIDE DEF o
    <3>3. o.IntOrderNo = a[k] /\ TradeCmd(o.BuySell) = IF o.type = 1 THEN 1 ELSE 2
          BY <3>2 DEF OrderOK, BuySell, TradeCmd
    <3>q. QED
          BY <3>1, <3>3 DEF o
  <2>6. {view.items[k].order_id : k \in 1 .. n} = Working
        BY <2>2, <2>3, <2>5
  <2>7. \A k, l \in 1 .. n : k < l => view.items[k].order_id < view.items[l].order_id
        BY <2>3, <2>5
  <2>8. \A k \in 1 .. n :
           LET o == orders[view.items[k].order_id]
           IN  /\ view.items[k].symbol = o.ProdCode
               /\ view.items[k].trade_cmd = IF o.type = 1 THEN 1 ELSE 2
        BY <2>5
  <2>q. QED
        BY <2>4, <2>6, <2>7, <2>8 DEF PendingIsPlaced
<1>2. Inv => PendingIsPlaced
      BY <1>1 DEF PendingIsPlaced
<1>q. QED
      BY <1>2, Invariance, PTL

\* A position as it is sent says how many lots it has and which way, with the
\* exceptions of HoldingIsFills.
LEMMA SentIs ==
  ASSUME NEW p, NEW q, q = positions[p], q \in Position, NEW x, x = GetPosition(p)
  PROVE  /\ x.ProdCode = p /\ x.position \in Position
         /\ ~ShortUnsigned(p) => x.position = q
         /\ ShortUnsigned(p) /\ Untouched(p) =>
               /\ Net(x.position) = 0 - Net(q)
               /\ Amount(x.position) = 0 - Amount(q)
         /\ p \in SignedProducts \/ Untouched(p) => x.LongShort = Side(Net(q))
<1> DEFINE r == [q EXCEPT !.Qty = 0 - q.Qty, !.DepTotalAmt = 0 - q.DepTotalAmt]
<1>1. /\ q.Qty \in Int /\ q.LongQty \in Nat /\ q.ShortQty \in Nat
      /\ q.DepTotalAmt \in Int /\ q.LongTotalAmt \in Int /\ q.ShortTotalAmt \in Int
      /\ q.LongQty = 0 => q.LongTotalAmt = 0
      /\ q.ShortQty = 0 => q.ShortTotalAmt = 0
      BY DEF Position
<1>2. /\ r.Qty = 0 - q.Qty /\ r.LongQty = q.LongQty /\ r.ShortQty = q.ShortQty
      /\ r.DepTotalAmt = 0 - q.DepTotalAmt
      /\ r.LongTotalAmt = q.LongTotalAmt /\ r.ShortTotalAmt = q.ShortTotalAmt
      BY DEF Position
<1>3. r \in Position
  <2> DEFINE a == 0 - q.Qty
  <2> DEFINE b == 0 - q.DepTotalAmt
  <2>1. a \in Int /\ b \in Int /\ r = [q EXCEPT !.Qty = a, !.DepTotalAmt = b]
        BY <1>1
  <2> HIDE DEF a, b, r
  <2>q. QED
        BY <2>1 DEF Position
<1>4. x = IF p \in SignedProducts
          THEN [ProdCode |-> p, LongShort |-> Side(Net(q)), position |-> q]
          ELSE [ProdCode |-> p, LongShort |-> Side(q.Qty),
                position |-> IF q.Qty >= 0 THEN q ELSE r]
      BY DEF GetPosition, Balance, Net, Position
<1> HIDE DEF r
<1>5. CASE p \in SignedProducts
      BY <1>4, <1>5 DEF ShortUnsigned
<1>6. CASE p \notin SignedProducts
  <2>1. /\ x.ProdCode = p /\ x.LongShort = Side(q.Qty)
        /\ x.position = IF q.Qty >= 0 THEN q ELSE r
        BY <1>4, <1>6
  <2>2. ShortUnsigned(p) <=> q.Qty < 0
        BY <1>6 DEF ShortUnsigned
  <2>3. Untouched(p) => Net(q) = q.Qty /\ Amount(q) = q.DepTotalAmt
        BY <1>1 DEF Untouched, Net, Amount
  <2>4. Untouched(p) => Net(r) = 0 - q.Qty /\ Amount(r) = 0 - q.DepTotalAmt
        BY <1>1, <1>2 DEF Untouched, Net, Amount
  <2>5. x.position \in Position /\ (~ShortUnsigned(p) => x.position = q)
        BY <1>1, <1>3, <2>1, <2>2
  <2>6. ShortUnsigned(p) => x.position = r
        BY <1>1, <2>1, <2>2
  <2>q. QED
        BY <1>6, <2>1, <2>3, <2>4, <2>5, <2>6
<1>q. QED
      BY <1>5, <1>6

\* The holdings are what was filled, also after a settlement, for a closed
\* position and for a short one, so far as the trade server sends the sign of
\* what was deposited or nothing was traded since.
THEOREM HoldingIsShown == Spec => []HoldingIsFills
<1>1. ASSUME Inv, Collected("holding")
      PROVE  HoldingIsFills
  <2> DEFINE H == {p \in Products : positions[p] # Flat}
  <2> DEFINE n == Cardinality(H)
  <2>1. /\ n \in Nat /\ Held \in Seq(H) /\ Len(Held) = n
        /\ \A p \in H : \E k \in 1 .. n : Held[k] = p
    <3>1. IsFiniteSet(H)
          BY AccountAssumption, FS_Subset
    <3>q. QED
          BY <3>1, SetToSeqFacts DEF Held
  <2>2. positions \in [Products -> Position] /\ PositionsInv
        BY <1>1 DEF Inv, AccountType
  <2>3. DOMAIN view.items = 1 .. n
    <3>1. /\ view.items = Shown("holding")
          /\ Shown("holding") = [i \in DOMAIN Held |-> Item("holding", List("holding")[i])]
          BY <1>1, CollectedIs, ListIs DEF Lists, Shown
    <3>q. QED
          BY <2>1, <3>1
  <2> HIDE DEF n
  <2> DEFINE Right(v, p, l, m) ==
               /\ ~ShortUnsigned(p) => v.net = l
               /\ ShortUnsigned(p) /\ Untouched(p) => v.net = 0 - l
               /\ l # 0 /\ (p \in SignedProducts \/ Untouched(p)) =>
                     v.trade_cmd = IF l > 0 THEN 1 ELSE 2
               /\ l # 0 /\ (~ShortUnsigned(p) \/ Untouched(p)) =>
                     v.avg[1] * l = m * v.avg[2]
               /\ v.avg[2] # 0
  <2>4. ASSUME NEW k \in 1 .. n
        PROVE  /\ view.items[k].symbol = Held[k]
               /\ Right(view.items[k], Held[k], Lots(Held[k]), Money(Held[k]))
    <3> DEFINE p == Held[k]
    <3> DEFINE q == positions[p]
    <3> DEFINE v == view.items[k]
    <3> DEFINE x == GetPosition(p)
    <3> DEFINE r == x.position
    <3>1. p \in Products /\ q \in Position /\ k \in DOMAIN Held
          BY <2>1, <2>2
    <3>2. Net(q) = Lots(p) /\ Amount(q) = Money(p)
          BY <2>2, <3>1 DEF PositionsInv
    <3>3. v = [symbol |-> x.ProdCode, trade_cmd |-> HoldingCmd(x), net |-> Net(r),
               avg |-> IF Net(r) = 0 THEN <<0, 1>> ELSE <<Amount(r), Net(r)>>]
      <4>1. v = Item("holding", List("holding")[k])
            BY <1>1, <2>3, CollectedIs DEF Lists
      <4>2. List("holding")[k] = x
            BY <3>1, ListIs
      <4>q. QED
            BY <4>1, <4>2, ItemIs
    <3>4. /\ x.ProdCode = p /\ r \in Position
          /\ ~ShortUnsigned(p) => r = q
          /\ ShortUnsigned(p) /\ Untouched(p) =>
                Net(r) = 0 - Net(q) /\ Amount(r) = 0 - Amount(q)
          /\ p \in SignedProducts \/ Untouched(p) => x.LongShort = Side(Net(q))
          BY <3>1, SentIs
    <3> HIDE DEF p, q, v, x, r
    <3>5. Net(q) \in Int /\ Amount(q) \in Int /\ Net(r) \in Int /\ Amount(r) \in Int
          BY <3>1, <3>4 DEF Net, Amount, Position
    <3>6. /\ v.symbol = p /\ v.net = Net(r) /\ v.trade_cmd = HoldingCmd(x)
          /\ v.avg = IF Net(r) = 0 THEN <<0, 1>> ELSE <<Amount(r), Net(r)>>
          BY <3>3, <3>4
    <3>7. v.avg[2] # 0 /\ (Net(r) # 0 => v.avg[1] = Amount(r) /\ v.avg[2] = Net(r))
          BY <3>5, <3>6
    <3>8. x.LongShort = Side(Net(q)) => v.trade_cmd = IF Net(q) > 0 THEN 1 ELSE 2
          BY <3>6 DEF HoldingCmd, TradeCmd, Side
    <3> DEFINE l == Lots(p)
    <3> DEFINE m == Money(p)
    <3>9. l \in Int /\ m \in Int /\ l = Net(q) /\ m = Amount(q)
          BY <3>2, <3>5
    <3> HIDE DEF l, m
    <3>10. l # 0 /\ ~ShortUnsigned(p) => v.avg[1] * l = m * v.avg[2]
          BY <3>4, <3>7, <3>9
    <3>11. l # 0 /\ ShortUnsigned(p) /\ Untouched(p) => v.avg[1] * l = m * v.avg[2]
      <4>1. SUFFICES ASSUME l # 0, ShortUnsigned(p), Untouched(p)
                     PROVE  v.avg[1] * l = m * v.avg[2]
            OBVIOUS
      <4>2. Net(r) = 0 - l /\ Amount(r) = 0 - m
            BY <3>4, <3>9, <4>1
      <4>3. v.avg[1] = 0 - m /\ v.avg[2] = 0 - l
            BY <3>7, <3>9, <4>1, <4>2
      <4>4. (0 - m) * l = m * (0 - l)
            BY <3>9
      <4>q. QED
            BY <4>3, <4>4
    <3>12. Right(v, p, l, m)
          BY <3>4, <3>6, <3>7, <3>8, <3>9, <3>10, <3>11
    <3>q. QED
          BY <3>6, <3>12 DEF v, p, l, m
  <2>5. ASSUME NEW p \in Products, Lots(p) # 0
        PROVE  \E k \in 1 .. n : view.items[k].symbol = p
    <3>1. Net(Flat) = 0
          BY DEF Net, Flat
    <3>2. p \in H
          BY <2>2, <2>5, <3>1 DEF PositionsInv
    <3>q. QED
          BY <2>1, <2>4, <3>2 DEF n
  <2>q. QED
        BY <2>3, <2>4, <2>5 DEF HoldingIsFills
<1>2. Inv => HoldingIsFills
      BY <1>1 DEF HoldingIsFills
<1>q. QED
      BY <1>2, Invariance, PTL
=============================================================================
