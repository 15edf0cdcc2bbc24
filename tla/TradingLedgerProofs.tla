------------------------ MODULE TradingLedgerProofs ------------------------
(***************************************************************************)
(* Proofs about the trading ledger for every number of portfolios, tickers, *)
(* orders and sessions.                                                     *)
(***************************************************************************)
EXTENDS TradingLedger, TallyProofs

LEMMA CostType ==
  ASSUME NEW q \in Nat, NEW c \in Nat, NEW r \in Nat
  PROVE  UsdCost(q, c, r) \in Nat
<1>1. q * c \in Nat
  OBVIOUS
<1>2. ASSUME NEW n \in Nat PROVE n * r \in Nat
  OBVIOUS
<1>. QED
  BY <1>1, <1>2 DEF UsdCost

\* Whatever statuses a transaction sees, the reservations it adds up are finite
\* sums of naturals.
LEMMA ReservationType ==
  ASSUME TypeOK, NEW st, NEW p, NEW t, NEW X
  PROVE  /\ ReservedCash(quoted, st, p, X) \in Nat
         /\ ReservedShares(st, p, t, X) \in Nat
<1>1. IsFiniteSet(PendingBuys(st, p) \ X) /\ PendingBuys(st, p) \ X \subseteq Orders
  BY OrdersAssumption, FS_Subset DEF PendingBuys
<1>2. IsFiniteSet(PendingSells(st, p, t) \ X) /\ PendingSells(st, p, t) \ X \subseteq Orders
  BY OrdersAssumption, FS_Subset DEF PendingSells
<1>3. \A o \in Orders : BuyReservation(quoted)[o] \in Nat
  <2> TAKE o \in Orders
  <2>0. Rates \cup {0} \subseteq Nat
    BY QuotesAssumption
  <2>1. o.qty \in Nat /\ o.limit \in Nat /\ quoted[o] \in Nat
    BY <2>0, OrdersAssumption DEF TypeOK
  <2>. QED
    BY <2>1, CostType DEF BuyReservation
<1>4. \A o \in Orders : SellReservation[o] \in Nat
  BY OrdersAssumption DEF SellReservation
<1>. QED
  BY <1>1, <1>2, <1>3, <1>4, TallyType DEF ReservedCash, ReservedShares

-----------------------------------------------------------------------------
(* Type correctness, with what transactions in flight know.                  *)

Coherent == TypeOK /\ RequestsCoherent /\ BatchCoherent

LEMMA InitCoherent == Init => Coherent
BY OrdersAssumption, QuotesAssumption, HoldersAssumption, FS_EmptySet
   DEF Init, Coherent, TypeOK, RequestsCoherent, BatchCoherent, NoRequest, NoBatch, Holder,
       Statuses, Requests, Batches

LEMMA MarketStepCoherent ==
  ASSUME Coherent, MarketStep
  PROVE  Coherent'
<1>1. UNCHANGED <<cash, lock, req, settle, books, drafts>>
  BY DEF MarketStep, StoreBar, StoreRate, books
<1>2. TypeOK'
  BY <1>1 DEF Coherent, TypeOK, MarketStep, StoreBar, StoreRate, books, drafts
<1>3. RequestsCoherent'
  BY <1>1 DEF Coherent, RequestsCoherent, PortfolioOf
<1>4. BatchCoherent'
  BY <1>1 DEF Coherent, BatchCoherent, Holder, ShouldFill
<1>. QED
  BY <1>2, <1>3, <1>4 DEF Coherent

LEMMA BeginStepCoherent ==
  ASSUME Coherent, NEW s \in Sessions, BeginStep(s)
  PROVE  Coherent'
<1>1. PICK kind \in Kinds, x \in Markets \cup Orders, c \in Closes \cup {NoBar} :
        /\ \/ kind = "market" /\ x \in Markets /\ c \in Closes
           \/ kind \in {"place", "cancel"} /\ x \in Orders
        /\ req' = [req EXCEPT ![s] = Begun(kind, x, c)]
        /\ UNCHANGED <<market, books, lock, quoted, settle, drafts>>
  <2>1. CASE \E m \in Markets : BeginMarket(s, m)
    BY <2>1, MarketsAssumption DEF BeginMarket, Coherent, TypeOK, Kinds
  <2>2. CASE \E o \in Orders : BeginPlace(s, o) \/ BeginCancel(s, o)
    BY <2>2 DEF BeginPlace, BeginCancel, Kinds
  <2>. QED
    BY <2>1, <2>2 DEF BeginStep
<1>2. x.portfolio \in Portfolios /\ cash[x.portfolio] \in Nat
  BY OrdersAssumption, MarketsAssumption DEF Coherent, TypeOK
<1>3. Begun(kind, x, c) \in Requests
  BY <1>2 DEF Begun, Requests
<1>4. TypeOK'
  BY <1>1, <1>3 DEF Coherent, TypeOK, market, books, drafts
<1>5. RequestsCoherent'
  <2> SUFFICES ASSUME NEW z \in Sessions
               PROVE  RequestsCoherent!(z)'
    BY DEF RequestsCoherent
  <2>. QED
    BY <1>1 DEF Coherent, TypeOK, RequestsCoherent, Begun, PortfolioOf, books
<1>6. BatchCoherent'
  BY <1>1 DEF Coherent, BatchCoherent, Holder, ShouldFill
<1>. QED
  BY <1>4, <1>5, <1>6 DEF Coherent

LEMMA LockPortfolioCoherent ==
  ASSUME Coherent, NEW s \in Sessions, LockPortfolio(s)
  PROVE  Coherent'
<1> DEFINE p == PortfolioOf(s)
<1>1. p \in Portfolios /\ cash[p] \in Nat
  BY OrdersAssumption, MarketsAssumption
     DEF LockPortfolio, Coherent, TypeOK, RequestsCoherent, PortfolioOf
<1>2. TypeOK'
  <2>1. req[s] \in Requests
    BY DEF Coherent, TypeOK
  <2>2. [req[s] EXCEPT !.stage = "locked", !.cash = cash[p]] \in Requests
    BY <2>1, <1>1 DEF Requests
  <2>3. req' = [req EXCEPT ![s] = [req[s] EXCEPT !.stage = "locked", !.cash = cash[p]]]
    BY DEF LockPortfolio, RefreshedCash, Coherent, TypeOK
  <2>4. req' \in [Sessions -> Requests]
    BY <2>2, <2>3 DEF Coherent, TypeOK
  <2>. QED
    BY <2>4, <1>1 DEF LockPortfolio, Coherent, TypeOK, market, books, drafts
<1>3. RequestsCoherent'
  <2> SUFFICES ASSUME NEW z \in Sessions
               PROVE  RequestsCoherent!(z)'
    BY DEF RequestsCoherent
  <2>1. CASE z = s
    BY <2>1, <1>1 DEF LockPortfolio, RefreshedCash, Coherent, TypeOK, Requests,
       RequestsCoherent, PortfolioOf, books
  <2>2. CASE z # s
    BY <2>2, <1>1, HoldersAssumption DEF LockPortfolio, Coherent, TypeOK,
       RequestsCoherent, PortfolioOf, books
  <2>. QED
    BY <2>1, <2>2
<1>4. BatchCoherent'
  <2>1. Holder(Settler)' = Holder(Settler)
    BY <1>1, HoldersAssumption DEF LockPortfolio, Coherent, TypeOK, Holder
  <2>. QED
    BY <2>1 DEF LockPortfolio, Coherent, BatchCoherent, ShouldFill
<1>. QED
  BY <1>2, <1>3, <1>4 DEF Coherent

\* Reading a rate, for a fill or for a reservation.
LEMMA ReadRatesCoherent ==
  ASSUME Coherent, NEW s \in Sessions, ReadRates(s)
  PROVE  Coherent'
<1>1. UNCHANGED <<market, books, lock, settle, drafts>>
  BY DEF ReadRates, ReadFxRate, PriceClaim
<1>2. quoted' \in [Orders -> Rates \cup {0}]
  BY OrdersAssumption DEF ReadRates, ReadFxRate, PriceClaim, Coherent, TypeOK
<1>3. req' \in [Sessions -> Requests] /\ RequestsCoherent'
  <2>1. CASE ReadFxRate(s)
    <3> DEFINE r == rate[req[s].intent.ticker]
    <3>1. req[s] \in Requests /\ req[s].intent \in Markets /\ req[s].intent.ticker \in Tickers
      BY <2>1, MarketsAssumption DEF ReadFxRate, Coherent, TypeOK, RequestsCoherent
    <3>2. r \in Rates
      BY <3>1 DEF Coherent, TypeOK
    <3>3. req' = [req EXCEPT ![s] = [req[s] EXCEPT !.rate = r]]
      BY <2>1 DEF ReadFxRate, Coherent, TypeOK
    <3>4. [req[s] EXCEPT !.rate = r] \in Requests
      BY <3>1, <3>2 DEF Requests
    <3>5. req' \in [Sessions -> Requests]
      BY <3>3, <3>4 DEF Coherent, TypeOK
    <3>6. ASSUME NEW z \in Sessions PROVE RequestsCoherent!(z)'
      <4>1. CASE z # s
        BY <1>1, <3>3, <4>1 DEF Coherent, TypeOK, RequestsCoherent, PortfolioOf, books
      <4>2. CASE z = s
        <5>1. /\ req'[z].stage = "begun" /\ req'[z].kind = "market"
              /\ req'[z].intent = req[z].intent /\ req'[z].close = req[z].close
          BY <2>1, <3>1, <3>3, <4>2 DEF ReadFxRate, Coherent, TypeOK, Requests
        <5>2. req[z].close \in Closes /\ req[z].intent \in Markets
          BY <2>1, <3>1, <4>2 DEF ReadFxRate, Coherent, RequestsCoherent
        <5>. QED
          BY <5>1, <5>2
      <4>. QED
        BY <4>1, <4>2
    <3>. QED
      BY <3>5, <3>6 DEF RequestsCoherent
  <2>2. CASE \E o \in Orders : PriceClaim(s, o)
    <3>1. req' = req
      BY <2>2 DEF PriceClaim
    <3>. QED
      BY <1>1, <3>1 DEF Coherent, TypeOK, RequestsCoherent, PortfolioOf, books
  <2>. QED
    BY <2>1, <2>2 DEF ReadRates
<1>4. BatchCoherent'
  BY <1>1 DEF Coherent, BatchCoherent, Holder, ShouldFill
<1>. QED
  BY <1>1, <1>2, <1>3, <1>4 DEF Coherent, TypeOK, market, books, drafts

\* Ending a request disturbs no other transaction, if it wrote only the cash of
\* the portfolios it had locked.
LEMMA FinishCoherent ==
  ASSUME Coherent, NEW s \in Sessions, Finish(s), UNCHANGED settle,
         \A p \in Portfolios : lock[p] # s => cash'[p] = cash[p]
  PROVE  /\ req' \in [Sessions -> Requests]
         /\ lock' \in [Portfolios -> Sessions \cup {Settler, Free}]
         /\ quoted' \in [Orders -> Rates \cup {0}]
         /\ RequestsCoherent'
         /\ BatchCoherent'
<1>1. NoRequest \in Requests /\ NoRequest.stage = "idle"
  BY DEF NoRequest, Requests
<1>2. req' \in [Sessions -> Requests]
  BY <1>1 DEF Finish, Coherent, TypeOK
<1>3. lock' \in [Portfolios -> Sessions \cup {Settler, Free}]
  BY DEF Finish, Released, Coherent, TypeOK
<1>6. quoted' \in [Orders -> Rates \cup {0}]
  BY DEF Finish, Forgotten, Coherent, TypeOK
<1>4. RequestsCoherent'
  <2> SUFFICES ASSUME NEW z \in Sessions
               PROVE  RequestsCoherent!(z)'
    BY DEF RequestsCoherent
  <2>1. CASE z = s
    BY <2>1, <1>1 DEF Finish, Coherent, TypeOK
  <2>2. CASE z # s
    <3>1. req'[z] = req[z]
      BY <2>2 DEF Finish, Coherent, TypeOK
    <3>2. req[z].stage = "locked" => req[z].intent.portfolio \in Portfolios
      BY OrdersAssumption, MarketsAssumption DEF Coherent, RequestsCoherent
    <3>. QED
      BY <2>2, <3>1, <3>2 DEF Finish, Released, Coherent, RequestsCoherent, PortfolioOf
  <2>. QED
    BY <2>1, <2>2
<1>5. BatchCoherent'
  <2>1. Holder(Settler)' = Holder(Settler)
    BY HoldersAssumption DEF Finish, Released, Holder
  <2>. QED
    BY <2>1 DEF Coherent, BatchCoherent, ShouldFill
<1>. QED
  BY <1>2, <1>3, <1>4, <1>5, <1>6

\* A row added to a finite set of trade rows.
LEMMA TradeRowType ==
  ASSUME NEW rows \in SUBSET TradeRows, IsFiniteSet(rows), NEW o \in Orders \cup {None},
         NEW x, x.ticker \in Tickers, x.side \in Sides, x.qty \in Nat, NEW usd \in Nat
  PROVE  /\ rows \cup {TradeRow(rows, o, x, usd)} \in SUBSET TradeRows
         /\ IsFiniteSet(rows \cup {TradeRow(rows, o, x, usd)})
<1>1. Cardinality(rows) + 1 \in Nat
  BY FS_CardinalityType
<1>2. TradeRow(rows, o, x, usd) \in TradeRows
  BY <1>1 DEF TradeRow, TradeRows
<1>. QED
  BY <1>2, FS_AddElement

LEMMA MarketFillCoherent ==
  ASSUME Coherent, NEW s \in Sessions, MarketBuy(s) \/ MarketSell(s)
  PROVE  Coherent'
<1> DEFINE m == req[s].intent
           p == PortfolioOf(s)
<1>1. /\ m \in Markets /\ p \in Portfolios /\ m.ticker \in Tickers /\ m.qty \in Nat
      /\ m.side \in Sides
      /\ p = m.portfolio
      /\ lock[p] = s /\ req[s].cash = cash[p]
      /\ req[s].close \in Closes /\ req[s].rate \in Rates
  BY MarketsAssumption
     DEF MarketBuy, MarketSell, Serving, Coherent, RequestsCoherent, PortfolioOf
<1>2. MarketCost(s) \in Nat
  BY <1>1, CostType, QuotesAssumption DEF MarketCost
<1>3. cash' \in [Portfolios -> Nat] /\ \A q \in Portfolios : q # p => cash'[q] = cash[q]
  <2>1. CASE MarketBuy(s)
    <3> DEFINE R == ReservedCash(quoted, status, p, {})
    <3>1. MarketCost(s) + R <= cash[p]
      BY <2>1, <1>1 DEF MarketBuy, Admitted, Serving, CashCovers
    <3>2. R \in Nat /\ cash[p] \in Nat
      BY <1>1, ReservationType DEF Coherent, TypeOK
    <3> HIDE DEF R
    <3>3. cash[p] - MarketCost(s) \in Nat
      BY <3>1, <3>2, <1>2
    <3>. QED
      BY <2>1, <3>3, <1>1 DEF MarketBuy, Coherent, TypeOK
  <2>2. CASE MarketSell(s)
    BY <2>2, <1>1, <1>2 DEF MarketSell, Coherent, TypeOK
  <2>. QED
    BY <2>1, <2>2
<1>4. held' \in [Portfolios -> [Tickers -> Nat]]
  <2>1. CASE MarketBuy(s)
    BY <2>1, <1>1 DEF MarketBuy, Coherent, TypeOK
  <2>2. CASE MarketSell(s)
    <3>1. m.qty + ReservedShares(status, p, m.ticker, {}) <= held[p][m.ticker]
      BY <2>2, <1>1 DEF MarketSell, Admitted, Serving, SharesCover
    <3>2. held[p][m.ticker] - m.qty \in Nat
      BY <3>1, <1>1, ReservationType DEF Coherent, TypeOK
    <3>. QED
      BY <2>2, <3>2, <1>1 DEF MarketSell, Coherent, TypeOK
  <2>. QED
    BY <2>1, <2>2
<1>5. /\ trades' \in [Portfolios -> SUBSET TradeRows]
      /\ \A q \in Portfolios : IsFiniteSet(trades'[q])
  <2> DEFINE rows == trades[p] \cup {TradeRow(trades[p], None, m, MarketCost(s))}
  <2>1. rows \in SUBSET TradeRows /\ IsFiniteSet(rows)
    BY <1>1, <1>2, TradeRowType DEF Coherent, TypeOK
  <2>2. trades' = [trades EXCEPT ![p] = rows]
    BY <1>1 DEF MarketBuy, MarketSell
  <2>. QED
    BY <1>1, <2>1, <2>2 DEF Coherent, TypeOK
<1>6. Finish(s) /\ UNCHANGED <<market, status, settle, drafts>>
  BY DEF MarketBuy, MarketSell
<1>7. RequestsCoherent' /\ BatchCoherent' /\ req' \in [Sessions -> Requests]
      /\ quoted' \in [Orders -> Rates \cup {0}]
      /\ lock' \in [Portfolios -> Sessions \cup {Settler, Free}]
  BY <1>1, <1>3, <1>6, FinishCoherent
<1>. QED
  BY <1>3, <1>4, <1>5, <1>6, <1>7 DEF Coherent, TypeOK, market, drafts

LEMMA OrderRequestCoherent ==
  ASSUME Coherent, NEW s \in Sessions,
         PlaceOrder(s) \/ CancelOrder(s) \/ Reject(s) \/ Abort(s)
  PROVE  Coherent'
<1>1. Finish(s) /\ UNCHANGED <<market, cash, held, trades, settle, drafts>>
  BY DEF PlaceOrder, CancelOrder, Reject, Abort, books
<1>2. RequestsCoherent' /\ BatchCoherent' /\ req' \in [Sessions -> Requests]
      /\ quoted' \in [Orders -> Rates \cup {0}]
      /\ lock' \in [Portfolios -> Sessions \cup {Settler, Free}]
  BY <1>1, FinishCoherent
<1>3. status' \in [Orders -> Statuses]
  BY DEF PlaceOrder, CancelOrder, Reject, Abort, books, Coherent, TypeOK, Statuses
<1>. QED
  BY <1>1, <1>2, <1>3 DEF Coherent, TypeOK, market, drafts

-----------------------------------------------------------------------------
(* The settlement batch.                                                     *)

LEMMA WorklistCoherent ==
  ASSUME Coherent,
         \/ \E fresh \in SUBSET Tickers : BeginSettle(fresh)
         \/ \E o \in Orders : LeavePending(o) \/ PriceOrder(o)
  PROVE  Coherent'
<1>1. UNCHANGED <<market, books, lock, quoted, req, drafts>>
  BY DEF BeginSettle, LeavePending, PriceOrder
<1>2. settle' \in Batches /\ BatchCoherent'
  <2>0. settle \in Batches
    BY DEF Coherent, TypeOK
  <2>1. ASSUME NEW fresh \in SUBSET Tickers, BeginSettle(fresh)
        PROVE  settle' \in Batches /\ BatchCoherent'
    BY <2>1 DEF BeginSettle, NoBatch, Batches, BatchCoherent
  <2>2. ASSUME NEW o \in Orders, LeavePending(o)
        PROVE  settle' \in Batches /\ BatchCoherent'
    BY <2>0, <2>2 DEF LeavePending, NextInBatch, Batches, BatchCoherent
  <2>3. ASSUME NEW o \in Orders, PriceOrder(o)
        PROVE  settle' \in Batches /\ BatchCoherent'
    <3>1. o.ticker \in Tickers /\ close[o.ticker] \in Closes
      BY <2>3, OrdersAssumption DEF PriceOrder, Triggered, Coherent, TypeOK
    <3>2. settle' = [settle EXCEPT !.todo = settle.todo \ {o}, !.order = o,
                                   !.close = close[o.ticker]]
      BY <2>3 DEF PriceOrder
    <3>3. settle' \in Batches
      BY <2>0, <3>1, <3>2 DEF Batches
    <3>4. /\ settle'.stage = "running" /\ settle'.order = o
          /\ settle'.close = close[o.ticker]
      BY <2>0, <2>3, <3>2 DEF Batches, PriceOrder, NextInBatch
    <3>. QED
      BY <2>3, <3>1, <3>3, <3>4 DEF PriceOrder, Triggered, BatchCoherent, ShouldFill
  <2>. QED
    BY <2>1, <2>2, <2>3
<1>3. RequestsCoherent'
  BY <1>1 DEF Coherent, RequestsCoherent, PortfolioOf, books
<1>4. TypeOK'
  BY <1>1, <1>2 DEF Coherent, TypeOK, market, books, drafts
<1>. QED
  BY <1>2, <1>3, <1>4 DEF Coherent

\* The order at hand is a real order of a real portfolio.
LEMMA OrderAtHand ==
  ASSUME Coherent, settle.order # None
  PROVE  /\ settle.order \in Orders
         /\ settle.order.portfolio \in Portfolios
         /\ settle.order.ticker \in Tickers
         /\ settle.order.qty \in Nat
         /\ settle.order.side \in Sides
         /\ FillCost \in Nat
<1>1. settle.order \in Orders
  BY DEF Coherent, TypeOK, Batches
<1>2. settle.close \in Nat /\ settle.rate \in Nat
  <2>1. Rates \cup {0} \subseteq Nat /\ Closes \subseteq Nat
    BY QuotesAssumption
  <2>2. settle.rate \in Rates \cup {0}
    BY DEF Coherent, TypeOK, Batches
  <2>. QED
    BY <2>1, <2>2 DEF Coherent, BatchCoherent
<1>. QED
  BY <1>1, <1>2, OrdersAssumption, CostType DEF FillCost

LEMMA BatchReadRatesCoherent ==
  ASSUME Coherent, BatchReadRates
  PROVE  Coherent'
<1>1. UNCHANGED <<market, books, lock, req, drafts>> /\ settle.order # None
  BY DEF BatchReadRates, ReadFillRate, PriceOtherClaim, AtOrder
<1>2. settle.order \in Orders /\ settle.order.ticker \in Tickers
  BY <1>1, OrderAtHand
<1>3. settle' \in Batches /\ BatchCoherent'
  <2>1. CASE ReadFillRate
    <3>1. settle \in Batches /\ rate[settle.order.ticker] \in Rates
      BY <1>2 DEF Coherent, TypeOK
    <3>2. /\ settle' \in Batches
          /\ settle'.order = settle.order /\ settle'.close = settle.close
          /\ settle'.stage = settle.stage
      BY <2>1, <3>1 DEF ReadFillRate, Batches
    <3>. QED
      BY <1>1, <3>2 DEF Coherent, BatchCoherent, Holder, ShouldFill
  <2>2. CASE \E o \in Orders : PriceOtherClaim(o)
    <3>1. settle' = settle
      BY <2>2 DEF PriceOtherClaim
    <3>. QED
      BY <1>1, <3>1 DEF Coherent, TypeOK, BatchCoherent, Holder, ShouldFill
  <2>. QED
    BY <2>1, <2>2 DEF BatchReadRates
<1>4. quoted' \in [Orders -> Rates \cup {0}]
  BY OrdersAssumption DEF BatchReadRates, ReadFillRate, PriceOtherClaim, Coherent, TypeOK
<1>5. RequestsCoherent'
  BY <1>1 DEF Coherent, RequestsCoherent, PortfolioOf, books
<1>. QED
  BY <1>1, <1>3, <1>4, <1>5 DEF Coherent, TypeOK, market, books, drafts

LEMMA LockForFillCoherent ==
  ASSUME Coherent, LockForFill
  PROVE  Coherent'
<1>1. settle.order \in Orders /\ settle.order.portfolio \in Portfolios /\ settle.order # None
  BY OrderAtHand DEF LockForFill
<1>2. TypeOK'
  BY <1>1 DEF LockForFill, Coherent, TypeOK, market, books
<1>3. RequestsCoherent'
  <2> SUFFICES ASSUME NEW z \in Sessions
               PROVE  RequestsCoherent!(z)'
    BY DEF RequestsCoherent
  <2>. QED
    BY <1>1, HoldersAssumption DEF LockForFill, Coherent, RequestsCoherent, TypeOK, PortfolioOf, books
<1>4. BatchCoherent'
  BY <1>1 DEF LockForFill, Coherent, BatchCoherent, ShouldFill
<1>. QED
  BY <1>2, <1>3, <1>4 DEF Coherent

LEMMA NextOrderCoherent ==
  ASSUME Coherent, NextOrder, UNCHANGED <<lock, cash, req>>, settle.order # None
  PROVE  /\ settle' \in Batches /\ quoted' \in [Orders -> Rates \cup {0}]
         /\ RequestsCoherent' /\ BatchCoherent'
<1>1. settle \in Batches /\ settle.stage = "running"
  BY DEF Coherent, TypeOK, BatchCoherent
<1>2. settle' = [settle EXCEPT !.order = None, !.close = NoBar, !.rate = 0]
  BY DEF NextOrder
<1>3. settle' \in Batches /\ settle'.stage = "running" /\ settle'.order = None
  BY <1>1, <1>2 DEF Batches
<1>4. RequestsCoherent'
  BY DEF Coherent, RequestsCoherent, PortfolioOf
<1>5. quoted' \in [Orders -> Rates \cup {0}]
  BY DEF NextOrder, Forgotten, Coherent, TypeOK
<1>. QED
  BY <1>3, <1>4, <1>5 DEF BatchCoherent

LEMMA FillOrderCoherent ==
  ASSUME Coherent, DropOrder \/ FillOrder \/ CancelUncovered
  PROVE  Coherent'
<1> DEFINE o == settle.order
           p == o.portfolio
<1>1. o # None /\ NextOrder /\ UNCHANGED <<market, books, lock, req>>
  BY DEF DropOrder, FillOrder, CancelUncovered, AtOrder
<1>2. /\ settle' \in Batches /\ quoted' \in [Orders -> Rates \cup {0}]
      /\ RequestsCoherent' /\ BatchCoherent'
  BY <1>1, NextOrderCoherent DEF books
<1>3. /\ o \in Orders /\ p \in Portfolios /\ o.ticker \in Tickers /\ o.qty \in Nat
      /\ o.side \in Sides /\ FillCost \in Nat
  BY <1>1, OrderAtHand
<1>4. CASE DropOrder
  BY <1>1, <1>2, <1>4 DEF DropOrder, Coherent, TypeOK, market, books, drafts
<1>5. CASE CancelUncovered
  BY <1>1, <1>2, <1>3, <1>5 DEF CancelUncovered, Coherent, TypeOK, Statuses, market, books
<1>6. CASE FillOrder
  <2>1. draftCash' \in [Portfolios -> Nat]
    <3> DEFINE R == ReservedCash(quoted, draftStatus, p, {o})
    <3>1. R \in Nat /\ draftCash[p] \in Nat
      BY <1>3, ReservationType DEF Coherent, TypeOK
    <3>2. o.side = "buy" => FillCost + R <= draftCash[p]
      BY <1>6 DEF FillOrder, FillCovered, CashCovers
    <3> HIDE DEF R
    <3>3. (IF o.side = "buy" THEN draftCash[p] - FillCost ELSE draftCash[p] + FillCost) \in Nat
      BY <1>3, <3>1, <3>2
    <3>. QED
      BY <1>3, <1>6, <3>3 DEF FillOrder, Coherent, TypeOK
  <2>2. draftHeld' \in [Portfolios -> [Tickers -> Nat]]
    <3> DEFINE h == draftHeld[p][o.ticker]
               R == ReservedShares(draftStatus, p, o.ticker, {o})
    <3>1. R \in Nat /\ h \in Nat
      BY <1>3, ReservationType DEF Coherent, TypeOK
    <3>2. o.side # "buy" => o.qty + R <= h
      BY <1>6 DEF FillOrder, FillCovered, SharesCover
    <3>3. draftHeld' = [draftHeld EXCEPT ![p][o.ticker] = IF o.side = "buy" THEN h + o.qty ELSE h - o.qty]
      BY <1>3, <1>6 DEF FillOrder, Coherent, TypeOK
    <3>4. draftHeld \in [Portfolios -> [Tickers -> Nat]]
      BY DEF Coherent, TypeOK
    <3> HIDE DEF R, h
    <3>5. (IF o.side = "buy" THEN h + o.qty ELSE h - o.qty) \in Nat
      BY <1>3, <3>1, <3>2
    <3>. QED
      BY <1>3, <3>3, <3>4, <3>5
  <2>3. draftTrades' \in [Portfolios -> SUBSET TradeRows] /\ \A q \in Portfolios : IsFiniteSet(draftTrades'[q])
    <3> DEFINE rows == draftTrades[p] \cup {TradeRow(draftTrades[p], o, o, FillCost)}
    <3>1. rows \in SUBSET TradeRows /\ IsFiniteSet(rows)
      BY <1>3, TradeRowType DEF Coherent, TypeOK
    <3>2. draftTrades' = [draftTrades EXCEPT ![p] = rows]
      BY <1>6 DEF FillOrder
    <3>. QED
      BY <1>3, <3>1, <3>2 DEF Coherent, TypeOK
  <2>4. draftStatus' \in [Orders -> Statuses]
    BY <1>3, <1>6 DEF FillOrder, FillStatus, Coherent, TypeOK, Statuses
  <2>. QED
    BY <1>1, <1>2, <2>1, <2>2, <2>3, <2>4 DEF Coherent, TypeOK, market, books
<1>. QED
  BY <1>4, <1>5, <1>6

LEMMA EndSettleCoherent ==
  ASSUME Coherent, CommitSettle \/ AbortSettle
  PROVE  Coherent'
<1>1. EndSettle /\ UNCHANGED <<market, req>>
  BY DEF CommitSettle, AbortSettle
<1>2. \A p \in Portfolios : lock[p] # Settler => lock'[p] = lock[p] /\ cash'[p] = cash[p]
  BY DEF CommitSettle, AbortSettle, EndSettle, Released, books, Coherent, TypeOK
<1>3. TypeOK'
  <2>1. settle' \in Batches
    BY <1>1 DEF EndSettle, NoBatch, Batches
  <2>2. /\ lock' \in [Portfolios -> Sessions \cup {Settler, Free}]
        /\ quoted' \in [Orders -> Rates \cup {0}]
        /\ draftCash' \in [Portfolios -> Nat]
        /\ draftHeld' \in [Portfolios -> [Tickers -> Nat]]
        /\ draftStatus' \in [Orders -> Statuses]
        /\ draftTrades' \in [Portfolios -> SUBSET TradeRows]
        /\ \A p \in Portfolios : IsFiniteSet(draftTrades'[p])
    BY <1>1, FS_EmptySet DEF EndSettle, Released, Forgotten, Statuses, Coherent, TypeOK
  <2>3. /\ cash' \in [Portfolios -> Nat]
        /\ held' \in [Portfolios -> [Tickers -> Nat]]
        /\ status' \in [Orders -> Statuses]
        /\ trades' \in [Portfolios -> SUBSET TradeRows]
        /\ \A p \in Portfolios : IsFiniteSet(trades'[p])
    BY DEF CommitSettle, AbortSettle, Coherent, TypeOK, books
  <2>. QED
    BY <1>1, <2>1, <2>2, <2>3 DEF Coherent, TypeOK, market
<1>4. RequestsCoherent'
  <2> SUFFICES ASSUME NEW z \in Sessions
               PROVE  RequestsCoherent!(z)'
    BY DEF RequestsCoherent
  <2>1. req[z].stage = "locked" => req[z].intent.portfolio \in Portfolios
    BY OrdersAssumption, MarketsAssumption DEF Coherent, RequestsCoherent
  <2>. QED
    BY <1>1, <1>2, <2>1, HoldersAssumption DEF Coherent, RequestsCoherent, PortfolioOf
<1>5. BatchCoherent'
  BY <1>1, HoldersAssumption DEF EndSettle, Released, NoBatch, BatchCoherent, Holder
<1>. QED
  BY <1>3, <1>4, <1>5 DEF Coherent

LEMMA StepCoherent == Coherent /\ [Next]_vars => Coherent'
<1> SUFFICES ASSUME Coherent, [Next]_vars PROVE Coherent'
  OBVIOUS
<1>1. CASE UNCHANGED vars
  BY <1>1 DEF vars, market, books, drafts, Coherent, TypeOK, RequestsCoherent, BatchCoherent,
     Holder, PortfolioOf, ShouldFill
<1>2. CASE MarketStep
  BY <1>2, MarketStepCoherent
<1>3. ASSUME NEW s \in Sessions, BeginStep(s) \/ LockPortfolio(s) \/ RequestStep(s) \/ Abort(s)
      PROVE  Coherent'
  BY <1>3, BeginStepCoherent, LockPortfolioCoherent, ReadRatesCoherent, MarketFillCoherent,
     OrderRequestCoherent DEF RequestStep, Decide
<1>4. CASE BatchStep \/ LockForFill \/ AbortSettle \/ \E fresh \in SUBSET Tickers : BeginSettle(fresh)
  BY <1>4, WorklistCoherent, BatchReadRatesCoherent, FillOrderCoherent, LockForFillCoherent,
     EndSettleCoherent DEF BatchStep
<1>. QED
  BY <1>1, <1>2, <1>3, <1>4 DEF Next

LEMMA AlwaysCoherent == Spec => []Coherent
BY InitCoherent, StepCoherent, PTL DEF Spec

\* Every reachable state is well typed: in particular cash_balance and every
\* position stay natural numbers under any interleaving of requests, settlement,
\* crashes, price and FX moves.
THEOREM TypeCorrect == Spec => []TypeOK
<1>1. Coherent => TypeOK
  BY DEF Coherent
<1>. QED
  BY <1>1, AlwaysCoherent, PTL

-----------------------------------------------------------------------------
(* Share reservations.  The invariant speaks of both versions of a book: the *)
(* committed rows and, for a portfolio the batch has locked, its draft.      *)

SharesBacked ==
  /\ SharesPromisedAreHeld
  /\ \A p \in Holder(Settler), t \in Tickers :
       ReservedShares(draftStatus, p, t, {}) <= draftHeld[p][t]

\* Fewer pending sells reserve fewer shares.
LEMMA FewerSells ==
  ASSUME NEW st, NEW st2, NEW p, NEW t, NEW X, NEW X2,
         PendingSells(st2, p, t) \ X2 \subseteq PendingSells(st, p, t) \ X
  PROVE  ReservedShares(st2, p, t, X2) <= ReservedShares(st, p, t, X)
<1> DEFINE S == PendingSells(st, p, t) \ X
<1>1. IsFiniteSet(S) /\ S \subseteq Orders
  BY OrdersAssumption, FS_Subset DEF PendingSells
<1>2. \A o \in Orders : SellReservation[o] \in Nat
  BY OrdersAssumption DEF SellReservation
<1>. QED
  BY <1>1, <1>2, TallyMonotone DEF ReservedShares

\* Leaving out the pending sell o takes exactly its quantity off the sum.
LEMMA OneSellLess ==
  ASSUME NEW st, NEW p, NEW t, NEW o \in PendingSells(st, p, t)
  PROVE  ReservedShares(st, p, t, {}) = ReservedShares(st, p, t, {o}) + o.qty
<1>1. IsFiniteSet(PendingSells(st, p, t)) /\ PendingSells(st, p, t) \subseteq Orders
  BY OrdersAssumption, FS_Subset DEF PendingSells
<1>2. \A x \in Orders : SellReservation[x] \in Nat
  BY OrdersAssumption DEF SellReservation
<1>3. PendingSells(st, p, t) \ {} = PendingSells(st, p, t)
  OBVIOUS
<1>4. SellReservation[o] = o.qty
  BY <1>1 DEF SellReservation
<1>. QED
  BY <1>1, <1>2, <1>3, <1>4, TallyRemove DEF ReservedShares

LEMMA InitSharesBacked == Init => SharesBacked
<1> SUFFICES ASSUME Init PROVE SharesBacked
  OBVIOUS
<1>1. ASSUME NEW p \in Portfolios, NEW t \in Tickers
      PROVE  ReservedShares(status, p, t, {}) <= held[p][t]
  <2>1. PendingSells(status, p, t) \ {} = {}
    BY DEF Init, PendingSells
  <2>2. held[p][t] = 0
    BY DEF Init
  <2>. QED
    BY <2>1, <2>2, TallyEmpty DEF ReservedShares
<1>2. Holder(Settler) = {}
  BY HoldersAssumption DEF Init, Holder
<1>. QED
  BY <1>1, <1>2 DEF SharesBacked, SharesPromisedAreHeld

\* A step that leaves the statuses and drafts alone and takes no share away.
LEMMA NoShareSpent ==
  ASSUME Coherent, Coherent', SharesBacked, UNCHANGED <<status, draftStatus, draftHeld>>,
         Holder(Settler)' \subseteq Holder(Settler),
         \A p \in Portfolios, t \in Tickers : held[p][t] <= held'[p][t]
  PROVE  SharesBacked'
<1>1. ASSUME NEW p \in Portfolios, NEW t \in Tickers
      PROVE  ReservedShares(status', p, t, {}) <= held'[p][t]
  <2> DEFINE R == ReservedShares(status, p, t, {})
  <2>1. R \in Nat /\ held[p][t] \in Nat /\ held'[p][t] \in Nat /\ R <= held[p][t]
    BY ReservationType DEF Coherent, TypeOK, SharesBacked, SharesPromisedAreHeld
  <2>2. held[p][t] <= held'[p][t]
    OBVIOUS
  <2> HIDE DEF R
  <2>3. R <= held'[p][t]
    BY <2>1, <2>2
  <2>. QED
    BY <2>3 DEF R
<1>2. ASSUME NEW p \in Holder(Settler)', NEW t \in Tickers
      PROVE  ReservedShares(draftStatus', p, t, {}) <= draftHeld'[p][t]
  BY DEF SharesBacked
<1>. QED
  BY <1>1, <1>2 DEF SharesBacked, SharesPromisedAreHeld, ReservedShares, PendingSells, SellReservation

LEMMA FinishReleasesOwn ==
  ASSUME NEW s \in Sessions, Finish(s)
  PROVE  Holder(Settler)' = Holder(Settler)
BY HoldersAssumption DEF Finish, Released, Holder

LEMMA MarketSharesBacked ==
  ASSUME Coherent, Coherent', SharesBacked, NEW s \in Sessions, MarketBuy(s) \/ MarketSell(s)
  PROVE  SharesBacked'
<1> DEFINE m == req[s].intent
           p == m.portfolio
<1>1. m \in Markets /\ p \in Portfolios /\ m.ticker \in Tickers /\ m.qty \in Nat
  BY MarketsAssumption DEF MarketBuy, MarketSell, Serving, Coherent, RequestsCoherent
<1>2. Holder(Settler)' = Holder(Settler) /\ UNCHANGED <<status, draftStatus, draftHeld>>
  BY FinishReleasesOwn DEF MarketBuy, MarketSell, drafts
<1>3. CASE MarketBuy(s)
  <2>1. held' = [held EXCEPT ![p][m.ticker] = held[p][m.ticker] + m.qty]
    BY <1>1, <1>3 DEF MarketBuy, Coherent, TypeOK
  <2>2. \A q \in Portfolios, t \in Tickers : held[q][t] <= held'[q][t]
    BY <1>1, <2>1 DEF Coherent, TypeOK
  <2>. QED
    BY <1>2, <2>2, NoShareSpent
<1>4. CASE MarketSell(s)
  <2>1. held' = [held EXCEPT ![p][m.ticker] = held[p][m.ticker] - m.qty]
    BY <1>1, <1>4 DEF MarketSell, Coherent, TypeOK
  <2>2. m.qty + ReservedShares(status, p, m.ticker, {}) <= held[p][m.ticker]
    BY <1>4 DEF MarketSell, Admitted, Serving, SharesCover, PortfolioOf
  <2>3. ASSUME NEW q \in Portfolios, NEW t \in Tickers
        PROVE  ReservedShares(status, q, t, {}) <= held'[q][t]
    <3> DEFINE R == ReservedShares(status, q, t, {})
    <3>1. R \in Nat /\ R <= held[q][t] /\ held[q][t] \in Nat
      BY ReservationType DEF Coherent, TypeOK, SharesBacked, SharesPromisedAreHeld
    <3>2. q = p /\ t = m.ticker => m.qty + R <= held[q][t]
      BY <2>2
    <3> HIDE DEF R
    <3>3. R <= held'[q][t]
      BY <1>1, <2>1, <3>1, <3>2 DEF Coherent, TypeOK
    <3>. QED
      BY <3>3 DEF R
  <2>. QED
    BY <1>2, <2>3 DEF SharesBacked, SharesPromisedAreHeld, ReservedShares, PendingSells, SellReservation
<1>. QED
  BY <1>3, <1>4

LEMMA OrderSharesBacked ==
  ASSUME Coherent, Coherent', SharesBacked, NEW s \in Sessions,
         PlaceOrder(s) \/ CancelOrder(s) \/ Reject(s) \/ Abort(s)
  PROVE  SharesBacked'
<1> DEFINE o == req[s].intent
<1>1. Holder(Settler)' = Holder(Settler) /\ UNCHANGED <<held, draftStatus, draftHeld>>
  BY FinishReleasesOwn DEF PlaceOrder, CancelOrder, Reject, Abort, books, drafts
<1>2. CASE Reject(s) \/ Abort(s)
  BY <1>1, <1>2, NoShareSpent DEF Reject, Abort, books, Coherent, TypeOK
<1>3. CASE PlaceOrder(s) \/ CancelOrder(s)
  <2>1. o \in Orders /\ PortfolioOf(s) = o.portfolio /\ o.qty \in Nat
    BY <1>3, OrdersAssumption
       DEF PlaceOrder, CancelOrder, Serving, Admitted, Coherent, RequestsCoherent, PortfolioOf
  <2>2. ASSUME NEW q \in Portfolios, NEW t \in Tickers
        PROVE  ReservedShares(status', q, t, {}) <= held[q][t]
    <3> DEFINE R == ReservedShares(status, q, t, {})
               R2 == ReservedShares(status', q, t, {})
    <3>1. /\ R \in Nat /\ R2 \in Nat /\ held[q][t] \in Nat
          /\ R <= held[q][t]
      BY ReservationType DEF Coherent, TypeOK, SharesBacked, SharesPromisedAreHeld
    <3>2. CASE o \notin PendingSells(status', q, t)
      <4>1. PendingSells(status', q, t) \ {} \subseteq PendingSells(status, q, t) \ {}
        BY <1>3, <2>1, <3>2 DEF PlaceOrder, CancelOrder, PendingSells, Coherent, TypeOK
      <4>2. R2 <= R
        BY <4>1, FewerSells
      <4> HIDE DEF R, R2
      <4>3. R2 <= held[q][t]
        BY <3>1, <4>2
      <4>. QED
        BY <4>3 DEF R2
    <3>3. CASE o \in PendingSells(status', q, t)
      <4>1. PlaceOrder(s) /\ o.side = "sell" /\ o.portfolio = q /\ o.ticker = t
        BY <1>3, <2>1, <3>3 DEF CancelOrder, PendingSells, Coherent, TypeOK
      <4>2. o.qty + R <= held[q][t]
        BY <4>1, <2>1 DEF PlaceOrder, Admitted, Serving, SharesCover
      <4>3. R2 = ReservedShares(status', q, t, {o}) + o.qty
        BY <3>3, OneSellLess
      <4>4. PendingSells(status', q, t) \ {o} \subseteq PendingSells(status, q, t) \ {}
        BY <4>1, <2>1 DEF PlaceOrder, PendingSells, Coherent, TypeOK
      <4>5. ReservedShares(status', q, t, {o}) <= R
        BY <4>4, FewerSells
      <4>6. ReservedShares(status', q, t, {o}) \in Nat
        BY ReservationType DEF Coherent
      <4> DEFINE R3 == ReservedShares(status', q, t, {o})
      <4>7. R3 \in Nat /\ R3 <= R /\ R2 = R3 + o.qty
        BY <4>3, <4>5, <4>6
      <4> HIDE DEF R, R2, R3
      <4>8. R2 <= held[q][t]
        BY <2>1, <3>1, <4>2, <4>7
      <4>. QED
        BY <4>8 DEF R2
    <3>. QED
      BY <3>2, <3>3
  <2>. QED
    BY <1>1, <2>2 DEF SharesBacked, SharesPromisedAreHeld, ReservedShares, PendingSells, SellReservation
<1>. QED
  BY <1>2, <1>3

LEMMA LockForFillSharesBacked ==
  ASSUME Coherent, SharesBacked, LockForFill
  PROVE  SharesBacked'
<1> DEFINE p == settle.order.portfolio
<1>1. p \in Portfolios
  BY OrderAtHand DEF LockForFill
<1>2. Holder(Settler)' \subseteq Holder(Settler) \cup {p}
  BY <1>1 DEF LockForFill, Holder, Coherent, TypeOK
<1>3. ASSUME NEW q \in Holder(Settler)', NEW t \in Tickers
      PROVE  ReservedShares(draftStatus', q, t, {}) <= draftHeld'[q][t]
  <2>1. CASE q = p
    <3>1. PendingSells(draftStatus', q, t) = PendingSells(status, q, t)
      BY <2>1 DEF LockForFill, PendingSells
    <3>2. draftHeld'[q] = held[q]
      BY <1>1, <2>1 DEF LockForFill, Coherent, TypeOK
    <3>. QED
      BY <1>1, <2>1, <3>1, <3>2 DEF SharesBacked, SharesPromisedAreHeld, ReservedShares
  <2>2. CASE q # p
    <3>1. q \in Holder(Settler) /\ q \in Portfolios
      BY <1>2, <2>2 DEF Holder
    <3>2. PendingSells(draftStatus', q, t) = PendingSells(draftStatus, q, t)
      BY <2>2 DEF LockForFill, PendingSells
    <3>3. draftHeld'[q] = draftHeld[q]
      BY <2>2, <3>1 DEF LockForFill, Coherent, TypeOK
    <3>. QED
      BY <3>1, <3>2, <3>3 DEF SharesBacked, ReservedShares
  <2>. QED
    BY <2>1, <2>2
<1>4. UNCHANGED <<status, held>>
  BY DEF LockForFill, books
<1>. QED
  BY <1>3, <1>4 DEF SharesBacked, SharesPromisedAreHeld, ReservedShares, PendingSells, SellReservation

LEMMA FillOrderSharesBacked ==
  ASSUME Coherent, Coherent', SharesBacked, FillOrder \/ CancelUncovered
  PROVE  SharesBacked'
<1> DEFINE o == settle.order
           p == o.portfolio
<1>1. /\ o \in Orders /\ p \in Portfolios /\ o.ticker \in Tickers /\ o.qty \in Nat
      /\ UNCHANGED <<status, held, lock>>
  BY OrderAtHand DEF FillOrder, CancelUncovered, AtOrder, books
<1>2. ASSUME NEW q \in Holder(Settler)', NEW t \in Tickers
      PROVE  ReservedShares(draftStatus', q, t, {}) <= draftHeld'[q][t]
  <2> DEFINE R == ReservedShares(draftStatus, q, t, {})
             R2 == ReservedShares(draftStatus', q, t, {})
             h == draftHeld[q][t]
             h2 == draftHeld'[q][t]
  <2>0. q \in Holder(Settler) /\ q \in Portfolios
    BY <1>1 DEF Holder
  <2>1. R \in Nat /\ R2 \in Nat /\ h \in Nat /\ h2 \in Nat /\ R <= h
    BY <2>0, ReservationType DEF Coherent, TypeOK, SharesBacked
  <2>2. PendingSells(draftStatus', q, t) \ {} \subseteq PendingSells(draftStatus, q, t) \ {o}
    BY <1>1 DEF FillOrder, CancelUncovered, FillStatus, PendingSells, Coherent, TypeOK
  <2>3. R2 <= R
    BY <2>2, FewerSells
  <2>4. CASE h <= h2
    <3> HIDE DEF R, R2, h, h2
    <3>1. R2 <= h2
      BY <2>1, <2>3, <2>4
    <3>. QED
      BY <3>1 DEF R2, h2
  <2>5. CASE ~(h <= h2)
    <3>1. draftHeld \in [Portfolios -> [Tickers -> Nat]]
      BY DEF Coherent, TypeOK
    <3>2. FillOrder
      BY <2>1, <2>5 DEF CancelUncovered
    <3>3. draftHeld' = [draftHeld EXCEPT ![p][o.ticker] =
              IF o.side = "buy" THEN draftHeld[p][o.ticker] + o.qty ELSE draftHeld[p][o.ticker] - o.qty]
      BY <1>1, <3>1, <3>2 DEF FillOrder
    <3>4. q = p /\ t = o.ticker /\ o.side # "buy" /\ h2 = h - o.qty
      BY <1>1, <2>0, <2>1, <2>5, <3>1, <3>3
    <3> DEFINE R3 == ReservedShares(draftStatus, q, t, {o})
    <3>5. o.qty + R3 <= h
      BY <3>2, <3>4 DEF FillOrder, FillCovered, SharesCover
    <3>6. R2 <= R3 /\ R3 \in Nat
      BY <2>2, FewerSells, ReservationType DEF Coherent
    <3> HIDE DEF R, R2, R3, h, h2
    <3>7. R2 <= h2
      BY <1>1, <2>1, <3>4, <3>5, <3>6
    <3>. QED
      BY <3>7 DEF R2, h2
  <2>. QED
    BY <2>4, <2>5
<1>. QED
  BY <1>1, <1>2 DEF SharesBacked, SharesPromisedAreHeld, ReservedShares, PendingSells, SellReservation

LEMMA EndSettleSharesBacked ==
  ASSUME Coherent, SharesBacked, CommitSettle \/ AbortSettle
  PROVE  SharesBacked'
<1>1. Holder(Settler)' = {}
  BY HoldersAssumption DEF CommitSettle, AbortSettle, EndSettle, Released, Holder
<1>2. ASSUME NEW p \in Portfolios, NEW t \in Tickers
      PROVE  ReservedShares(status', p, t, {}) <= held'[p][t]
  <2>1. CASE CommitSettle /\ lock[p] = Settler
    <3>1. PendingSells(status', p, t) = PendingSells(draftStatus, p, t) /\ held'[p] = draftHeld[p]
      BY <2>1 DEF CommitSettle, PendingSells
    <3>2. p \in Holder(Settler)
      BY <2>1 DEF Holder
    <3>. QED
      BY <3>1, <3>2 DEF SharesBacked, ReservedShares
  <2>2. CASE AbortSettle \/ lock[p] # Settler
    <3>1. PendingSells(status', p, t) = PendingSells(status, p, t) /\ held'[p] = held[p]
      BY <2>2 DEF CommitSettle, AbortSettle, PendingSells, books
    <3>. QED
      BY <3>1 DEF SharesBacked, SharesPromisedAreHeld, ReservedShares
  <2>. QED
    BY <2>1, <2>2
<1>. QED
  BY <1>1, <1>2 DEF SharesBacked, SharesPromisedAreHeld, ReservedShares, PendingSells, SellReservation

LEMMA StepSharesBacked == Coherent /\ Coherent' /\ SharesBacked /\ [Next]_vars => SharesBacked'
<1> SUFFICES ASSUME Coherent, Coherent', SharesBacked, [Next]_vars PROVE SharesBacked'
  OBVIOUS
<1>0. ASSUME UNCHANGED <<status, held, draftStatus, draftHeld>>, Holder(Settler)' \subseteq Holder(Settler)
      PROVE  SharesBacked'
  BY <1>0, NoShareSpent DEF Coherent, TypeOK
<1>1. CASE UNCHANGED vars
  BY <1>0, <1>1 DEF vars, books, drafts, Holder
<1>2. CASE MarketStep
  BY <1>0, <1>2 DEF MarketStep, StoreBar, StoreRate, books, drafts, Holder
<1>3. ASSUME NEW s \in Sessions, BeginStep(s) \/ LockPortfolio(s)
      PROVE  SharesBacked'
  <2>1. Holder(Settler)' \subseteq Holder(Settler)
    BY <1>3, HoldersAssumption
       DEF BeginStep, BeginMarket, BeginPlace, BeginCancel, LockPortfolio, Holder, Coherent, TypeOK
  <2>. QED
    BY <1>0, <1>3, <2>1
       DEF BeginStep, BeginMarket, BeginPlace, BeginCancel, LockPortfolio, books, drafts
<1>4. ASSUME NEW s \in Sessions, RequestStep(s) \/ Abort(s)
      PROVE  SharesBacked'
  <2>1. CASE ReadRates(s)
    BY <1>0, <2>1 DEF ReadRates, ReadFxRate, PriceClaim, books, drafts, Holder
  <2>. QED
    BY <1>4, <2>1, MarketSharesBacked, OrderSharesBacked DEF RequestStep, Decide
<1>5. CASE DropOrder \/ BatchReadRates \/ (\E fresh \in SUBSET Tickers : BeginSettle(fresh))
           \/ (\E o \in Orders : LeavePending(o) \/ PriceOrder(o))
  BY <1>0, <1>5 DEF DropOrder, BatchReadRates, ReadFillRate, PriceOtherClaim, BeginSettle,
     LeavePending, PriceOrder, books, drafts, Holder
<1>6. CASE FillOrder \/ CancelUncovered
  BY <1>6, FillOrderSharesBacked
<1>7. CASE LockForFill \/ CommitSettle \/ AbortSettle
  BY <1>7, LockForFillSharesBacked, EndSettleSharesBacked
<1>. QED
  BY <1>1, <1>2, <1>3, <1>4, <1>5, <1>6, <1>7 DEF Next, BatchStep

\* No interleaving of market orders, new orders, cancels and settlement lets the
\* shares promised by pending sell, stop-loss and take-profit orders exceed the
\* holding, in any portfolio and whatever prices and FX rates do.
THEOREM SharesSafe == Spec => []SharesPromisedAreHeld
<1>1. SharesBacked => SharesPromisedAreHeld
  BY DEF SharesBacked
<1>2. Spec => []SharesBacked
  BY InitSharesBacked, StepSharesBacked, AlwaysCoherent, PTL DEF Spec
<1>. QED
  BY <1>1, <1>2, PTL

=============================================================================
