--------------------------- MODULE TradingLedger ---------------------------
(***************************************************************************)
(* The paper-trading ledger (apps/api/src/stockviz/services/trading):       *)
(* market orders, pending limit / stop-loss / take-profit orders with their *)
(* derived cash and share reservations, user cancels, and the end-of-day    *)
(* settlement batch.  Every one of them is a database transaction that      *)
(* serialises on the portfolio row (SELECT ... FOR UPDATE).                 *)
(*                                                                          *)
(* A request reads the bar, the FX rate and its own, possibly stale, copy   *)
(* of the portfolio without a lock; it takes the row lock and refreshes the *)
(* copy; one query per pending order, it reads the rates that price the     *)
(* reservations; it validates, writes and commits, or is rejected and rolls *)
(* back.  Rates are rows no portfolio lock protects: the FX job may store   *)
(* one between any two of these steps.                                      *)
(* Settlement is ONE transaction over all pending orders of                 *)
(* all portfolios: it keeps every portfolio lock it takes, and its writes   *)
(* stay in the draft variables, invisible to others, until it commits.      *)
(* Either kind of transaction may be cut short and roll back.               *)
(*                                                                          *)
(* Money is counted in whole micros of a dollar, so no amount is rounded.   *)
(***************************************************************************)
EXTENDS Naturals, FiniteSets, Tally

CONSTANTS
  Portfolios,   \* portfolio rows
  Tickers,      \* symbols
  Orders,       \* every pending order that passes create_pending_order's validation
  Markets,      \* every market order that may be sent, as a record
  Sessions,     \* concurrent request handlers
  Settler,      \* the settlement job, as a lock holder
  Free,         \* an unlocked portfolio row
  None,         \* no order, no request
  NoBar,        \* a ticker without a stored daily bar
  Closes,       \* closes a daily bar may have, in native currency
  Rates,        \* FX rates, USD per native unit
  StartCash,    \* DEFAULT_STARTING_CASH
  MaxTrades     \* bound: market orders are sent while a book has fewer trades

Sides == {"buy", "sell"}

OrderTypes == {"limit", "stop_loss", "take_profit"}

ASSUME OrdersAssumption ==
  /\ IsFiniteSet(Orders)
  /\ None \notin Orders
  /\ \A o \in Orders :
       /\ o.portfolio \in Portfolios
       /\ o.ticker \in Tickers
       /\ o.side \in Sides
       /\ o.type \in OrderTypes
       /\ o.qty \in Nat \ {0}
       /\ o.limit \in Nat \ {0}
       /\ o.type \in {"stop_loss", "take_profit"} => o.side = "sell"

ASSUME MarketsAssumption ==
  \A m \in Markets :
    /\ m.portfolio \in Portfolios
    /\ m.ticker \in Tickers
    /\ m.side \in Sides
    /\ m.qty \in Nat \ {0}

ASSUME QuotesAssumption ==
  /\ Closes \subseteq Nat \ {0}
  /\ Rates \subseteq Nat \ {0}
  /\ NoBar \notin Closes
  /\ StartCash \in Nat

ASSUME HoldersAssumption == Settler \notin Sessions /\ Free \notin Sessions \cup {Settler}

VARIABLES
  close,        \* close[t]: the latest stored daily close, or NoBar
  rate,         \* rate[t]: the latest FX rate of t's currency
  cash,         \* cash[p]: portfolios.cash_balance, committed
  held,         \* held[p][t]: positions.quantity, committed (0: no row)
  status,       \* status[o]: pending_orders.status, committed ("absent": no row)
  trades,       \* trades[p]: the Trade rows of p, each with its outbox row
  lock,         \* lock[p]: who holds p's row lock
  quoted,       \* quoted[o]: the rate that the holder of the lock of o's portfolio
                \* has read to price o's reservation (0: not read)
  req,          \* req[s]: the request that session s is serving
  settle,       \* the settlement batch: its worklist and the order at hand
  draftCash, draftHeld, draftStatus, draftTrades
                \* uncommitted writes of the batch, for the rows it has locked

market == <<close, rate>>
books == <<cash, held, status, trades>>
drafts == <<draftCash, draftHeld, draftStatus, draftTrades>>
vars == <<market, books, lock, quoted, req, settle, drafts>>

-----------------------------------------------------------------------------
(* Amounts and reservations.  They are computed from a view <<st, c, h>> of  *)
(* the order statuses, cash and holdings that the asking transaction sees.   *)

Statuses == {"absent", "pending", "filled", "cancelled"}

UsdCost(qty, price, fx) == qty * price * fx

\* What each BUY order reserves, when its claim is priced at fx[o]; what each SELL
\* reserves.
BuyReservation(fx) == [o \in Orders |-> UsdCost(o.qty, o.limit, fx[o])]
SellReservation == [o \in Orders |-> o.qty]

PendingBuys(st, p) ==
  {o \in Orders : o.portfolio = p /\ o.side = "buy" /\ st[o] = "pending"}

PendingSells(st, p, t) ==
  {o \in Orders : o.portfolio = p /\ o.ticker = t /\ o.side = "sell" /\ st[o] = "pending"}

ReservedCash(fx, st, p, excluded) == Tally(BuyReservation(fx), PendingBuys(st, p) \ excluded)
ReservedShares(st, p, t, excluded) == Tally(SellReservation, PendingSells(st, p, t) \ excluded)

\* Mutations: spend the balance whatever it backs; count the filling order's own
\* reservation against it; sell shares that were promised or never owned.
CashCoversIgnoringClaims(st, p, balance, cost, excluded) == cost <= balance
CashCoversCountingOwn(st, p, balance, cost, excluded) ==
  cost + ReservedCash(quoted, st, p, excluded)
       + Tally([o \in excluded |-> UsdCost(o.qty, o.limit, settle.rate)], excluded) <= balance
SharesCoverAlways(st, p, t, holding, qty, excluded) == TRUE
SharesCoverIgnoringClaims(st, p, t, holding, qty, excluded) == qty <= holding

\* cost fits in available_cash: the balance less the other orders' claims, each at
\* the rate that was read for it.
CashCovers(st, p, balance, cost, excluded) ==
  cost + ReservedCash(quoted, st, p, excluded) <= balance

SharesCover(st, p, t, holding, qty, excluded) ==
  qty + ReservedShares(st, p, t, excluded) <= holding

\* The close-only trigger rules of the LEGACY_CLOSE execution profile.
ShouldFill(o, c) ==
  \/ o.type = "limit" /\ o.side = "buy" /\ c <= o.limit
  \/ o.type = "limit" /\ o.side = "sell" /\ c >= o.limit
  \/ o.type = "stop_loss" /\ c <= o.limit
  \/ o.type = "take_profit" /\ c >= o.limit

TradeRow(rows, order, x, usd) ==
  [n |-> Cardinality(rows) + 1, order |-> order, ticker |-> x.ticker,
   side |-> x.side, qty |-> x.qty, usd |-> usd]

-----------------------------------------------------------------------------
NoRequest == [stage |-> "idle", kind |-> None, intent |-> None,
              close |-> NoBar, rate |-> 0, cash |-> 0]

NoBatch == [stage |-> "idle", todo |-> {}, fresh |-> {},
            order |-> None, close |-> NoBar, rate |-> 0]

Init ==
  /\ close \in [Tickers -> Closes \cup {NoBar}]
  /\ rate \in [Tickers -> Rates]
  /\ cash = [p \in Portfolios |-> StartCash]
  /\ held = [p \in Portfolios |-> [t \in Tickers |-> 0]]
  /\ status = [o \in Orders |-> "absent"]
  /\ trades = [p \in Portfolios |-> {}]
  /\ lock = [p \in Portfolios |-> Free]
  /\ quoted = [o \in Orders |-> 0]
  /\ req = [s \in Sessions |-> NoRequest]
  /\ settle = NoBatch
  /\ draftCash = [p \in Portfolios |-> 0]
  /\ draftHeld = [p \in Portfolios |-> [t \in Tickers |-> 0]]
  /\ draftStatus = [o \in Orders |-> "absent"]
  /\ draftTrades = [p \in Portfolios |-> {}]

-----------------------------------------------------------------------------
(* The market: ingest writes a bar, the FX job writes a rate.                *)

StoreBar(t, c) ==
  /\ close' = [close EXCEPT ![t] = c]
  /\ UNCHANGED <<rate, books, lock, quoted, req, settle, drafts>>

StoreRate(t, r) ==
  /\ rate' = [rate EXCEPT ![t] = r]
  /\ UNCHANGED <<close, books, lock, quoted, req, settle, drafts>>

-----------------------------------------------------------------------------
(* Requests.                                                                 *)

PortfolioOf(s) == req[s].intent.portfolio

Begun(kind, intent, c) ==
  [stage |-> "begun", kind |-> kind, intent |-> intent,
   close |-> c, rate |-> 0, cash |-> cash[intent.portfolio]]

\* execute_trade up to apply_fill: resolve_priced_symbol reads the bar, then the
\* rate (ReadFxRate), and the portfolio is loaded without a lock.  A ticker
\* without a bar is refused here.
BeginMarket(s, m) ==
  /\ req[s].stage = "idle"
  /\ close[m.ticker] # NoBar
  /\ Cardinality(trades[m.portfolio]) < MaxTrades
  /\ req' = [req EXCEPT ![s] = Begun("market", m, close[m.ticker])]
  /\ UNCHANGED <<market, books, lock, quoted, settle, drafts>>

ReadFxRate(s) ==
  /\ req[s].stage = "begun" /\ req[s].kind = "market" /\ req[s].rate = 0
  /\ req' = [req EXCEPT ![s].rate = rate[req[s].intent.ticker]]
  /\ UNCHANGED <<market, books, lock, quoted, settle, drafts>>

\* create_pending_order up to the lock: it needs no bar.
BeginPlace(s, o) ==
  /\ req[s].stage = "idle"
  /\ status[o] = "absent"
  /\ \A r \in Sessions : ~(req[r].kind = "place" /\ req[r].intent = o)
  /\ req' = [req EXCEPT ![s] = Begun("place", o, NoBar)]
  /\ UNCHANGED <<market, books, lock, quoted, settle, drafts>>

\* cancel_pending_order up to the lock, on an order the user has seen.
BeginCancel(s, o) ==
  /\ req[s].stage = "idle"
  /\ status[o] # "absent"
  /\ req' = [req EXCEPT ![s] = Begun("cancel", o, NoBar)]
  /\ UNCHANGED <<market, books, lock, quoted, settle, drafts>>

\* The refresh in lock_portfolio; the mutation keeps the copy in the identity map.
UnrefreshedCash(s) == req[s].cash
RefreshedCash(s) == cash[PortfolioOf(s)]

\* lock_portfolio: wait for the row lock, then refresh the stale copy.
LockPortfolio(s) ==
  /\ req[s].stage = "begun"
  /\ req[s].kind = "market" => req[s].rate # 0
  /\ lock[PortfolioOf(s)] = Free
  /\ lock' = [lock EXCEPT ![PortfolioOf(s)] = s]
  /\ req' = [req EXCEPT ![s].stage = "locked", ![s].cash = RefreshedCash(s)]
  /\ UNCHANGED <<market, books, quoted, settle, drafts>>

\* The row locks after holder h's transaction ends; the mutation leaks them.
LeakedLocks(h) == lock
Released(h) == [p \in Portfolios |-> IF lock[p] = h THEN Free ELSE lock[p]]

\* Of the rates read for reservations, those read under a lock that h keeps or that
\* is not h's remain.
Forgotten(h) == [o \in Orders |-> IF lock[o.portfolio] = h THEN 0 ELSE quoted[o]]

\* The end of every transaction of s: the row lock goes, what was read under it is
\* forgotten, the session is idle.
Finish(s) ==
  /\ lock' = Released(s)
  /\ quoted' = Forgotten(s)
  /\ req' = [req EXCEPT ![s] = NoRequest]

Serving(s, kind) == req[s].stage = "locked" /\ req[s].kind = kind

MarketCost(s) == UsdCost(req[s].intent.qty, req[s].close, req[s].rate)

\* The orders whose reservations a request that spends or reserves cash adds up:
\* buy_reservation_usd of the new order, then reserved_cash over the pending ones.
ToPrice(s) ==
  IF req[s].intent.side = "buy" /\ req[s].kind # "cancel"
  THEN PendingBuys(status, PortfolioOf(s))
         \cup (IF req[s].kind = "place" THEN {req[s].intent} ELSE {})
  ELSE {}

\* latest_rate, one query per order.
PriceClaim(s, o) ==
  /\ req[s].stage = "locked"
  /\ o \in ToPrice(s) /\ quoted[o] = 0
  /\ req[s].kind = "place" => o = req[s].intent \/ quoted[req[s].intent] # 0
  /\ quoted' = [quoted EXCEPT ![o] = rate[o.ticker]]
  /\ UNCHANGED <<market, books, lock, req, settle, drafts>>

\* Every rate the decision needs has been read.
ClaimsPriced(s) == \A o \in ToPrice(s) : quoted[o] # 0

\* The checks each request makes under the lock.
Admitted(s) ==
  LET x == req[s].intent
      p == PortfolioOf(s)
  IN \/ /\ Serving(s, "market") /\ x.side = "buy"
        /\ CashCovers(status, p, req[s].cash, MarketCost(s), {})
     \/ /\ Serving(s, "market") /\ x.side = "sell"
        /\ SharesCover(status, p, x.ticker, held[p][x.ticker], x.qty, {})
     \/ /\ Serving(s, "place") /\ x.side = "buy"
        /\ CashCovers(status, p, req[s].cash, BuyReservation(quoted)[x], {})
     \/ /\ Serving(s, "place") /\ x.side = "sell"
        /\ SharesCover(status, p, x.ticker, held[p][x.ticker], x.qty, {})
     \/ /\ Serving(s, "cancel")
        /\ status[x] = "pending"

\* Decision and commit are one step of the model: what was decided on, the locked
\* rows and the rates read, is the same at the commit.  The latest rates may not be.

\* apply_fill and the commit of execute_trade: cash, position, trade row and
\* outbox row change together.
MarketBuy(s) ==
  LET m == req[s].intent
      p == m.portfolio
  IN /\ Serving(s, "market") /\ m.side = "buy" /\ ClaimsPriced(s) /\ Admitted(s)
     /\ cash' = [cash EXCEPT ![p] = req[s].cash - MarketCost(s)]
     /\ held' = [held EXCEPT ![p][m.ticker] = @ + m.qty]
     /\ trades' = [trades EXCEPT ![p] = @ \cup {TradeRow(@, None, m, MarketCost(s))}]
     /\ Finish(s)
     /\ UNCHANGED <<market, status, settle, drafts>>

MarketSell(s) ==
  LET m == req[s].intent
      p == m.portfolio
  IN /\ Serving(s, "market") /\ m.side = "sell" /\ Admitted(s)
     /\ cash' = [cash EXCEPT ![p] = req[s].cash + MarketCost(s)]
     /\ held' = [held EXCEPT ![p][m.ticker] = @ - m.qty]
     /\ trades' = [trades EXCEPT ![p] = @ \cup {TradeRow(@, None, m, MarketCost(s))}]
     /\ Finish(s)
     /\ UNCHANGED <<market, status, settle, drafts>>

PlaceOrder(s) ==
  /\ Serving(s, "place") /\ ClaimsPriced(s) /\ Admitted(s)
  /\ status' = [status EXCEPT ![req[s].intent] = "pending"]
  /\ Finish(s)
  /\ UNCHANGED <<market, cash, held, trades, settle, drafts>>

CancelOrder(s) ==
  /\ Serving(s, "cancel") /\ Admitted(s)
  /\ status' = [status EXCEPT ![req[s].intent] = "cancelled"]
  /\ Finish(s)
  /\ UNCHANGED <<market, cash, held, trades, settle, drafts>>

\* InsufficientCash, InsufficientPosition, "Only pending orders can be
\* cancelled": the error leaves the handler and the transaction rolls back.
Reject(s) ==
  /\ req[s].stage = "locked"
  /\ ClaimsPriced(s)
  /\ ~Admitted(s)
  /\ Finish(s)
  /\ UNCHANGED <<market, books, settle, drafts>>

\* The process or its connection dies: the database rolls back.
Abort(s) ==
  /\ req[s].stage # "idle"
  /\ Finish(s)
  /\ UNCHANGED <<market, books, settle, drafts>>

-----------------------------------------------------------------------------
(* settle_pending_orders.                                                    *)

\* The unlocked SELECT of all pending orders.  fresh: the tickers whose latest
\* bar is dated on or after session_date (all of them when it is None).
BeginSettle(fresh) ==
  /\ settle.stage = "idle"
  /\ settle' = [NoBatch EXCEPT !.stage = "running", !.fresh = fresh,
                               !.todo = {o \in Orders : status[o] = "pending"}]
  /\ UNCHANGED <<market, books, lock, quoted, req, drafts>>

NextInBatch(o) == settle.stage = "running" /\ settle.order = None /\ o \in settle.todo

Triggered(o) ==
  /\ close[o.ticker] # NoBar
  /\ o.ticker \in settle.fresh
  /\ ShouldFill(o, close[o.ticker])

\* No market data, a stale bar, or not triggered: the order stays pending.
LeavePending(o) ==
  /\ NextInBatch(o)
  /\ ~Triggered(o)
  /\ settle' = [settle EXCEPT !.todo = @ \ {o}]
  /\ UNCHANGED <<market, books, lock, quoted, req, drafts>>

\* The close and the trigger are decided here, before the portfolio is locked; the
\* rate of the fill is the next query (ReadFillRate).
PriceOrder(o) ==
  /\ NextInBatch(o)
  /\ Triggered(o)
  /\ settle' = [settle EXCEPT !.todo = @ \ {o}, !.order = o, !.close = close[o.ticker]]
  /\ UNCHANGED <<market, books, lock, quoted, req, drafts>>

ReadFillRate ==
  /\ settle.order # None /\ settle.rate = 0
  /\ settle' = [settle EXCEPT !.rate = rate[settle.order.ticker]]
  /\ UNCHANGED <<market, books, lock, quoted, req, drafts>>

\* lock_portfolio in _fill: a row not yet locked by the batch must be free, and
\* its committed contents become the draft.
LockForFill ==
  LET p == settle.order.portfolio
  IN /\ settle.order # None /\ settle.rate # 0
     /\ lock[p] = Free
     /\ lock' = [lock EXCEPT ![p] = Settler]
     /\ draftCash' = [draftCash EXCEPT ![p] = cash[p]]
     /\ draftHeld' = [draftHeld EXCEPT ![p] = held[p]]
     /\ draftTrades' = [draftTrades EXCEPT ![p] = trades[p]]
     /\ draftStatus' = [o \in Orders |-> IF o.portfolio = p THEN status[o] ELSE draftStatus[o]]
     /\ UNCHANGED <<market, books, quoted, req, settle>>

FillCost == UsdCost(settle.order.qty, settle.close, settle.rate)

\* apply_fill's checks, which let the order consume its own reservation.
FillCovered ==
  LET o == settle.order
      p == o.portfolio
  IN \/ /\ o.side = "buy"
        /\ CashCovers(draftStatus, p, draftCash[p], FillCost, {o})
     \/ /\ o.side = "sell"
        /\ SharesCover(draftStatus, p, o.ticker, draftHeld[p][o.ticker], o.qty, {o})

AtOrder ==
  /\ settle.order # None /\ settle.rate # 0
  /\ lock[settle.order.portfolio] = Settler

NextOrder ==
  /\ settle' = [settle EXCEPT !.order = None, !.close = NoBar, !.rate = 0]
  /\ quoted' = Forgotten(Settler)

\* The re-check of the order's status under the lock; the mutation trusts the
\* unlocked SELECT.
AssumedPending == TRUE
StillPending == draftStatus[settle.order] = "pending"

\* The refreshed order is no longer pending: nothing to do.
DropOrder ==
  /\ AtOrder
  /\ ~StillPending
  /\ NextOrder
  /\ UNCHANGED <<market, books, lock, req, drafts>>

\* The other orders of the book whose reservations a fill must leave covered.
OthersToPrice ==
  LET o == settle.order
  IN IF o.side = "buy" THEN PendingBuys(draftStatus, o.portfolio) \ {o} ELSE {}

\* reserved_cash in apply_fill: again one query per order.
PriceOtherClaim(o) ==
  /\ AtOrder
  /\ StillPending
  /\ o \in OthersToPrice /\ quoted[o] = 0
  /\ quoted' = [quoted EXCEPT ![o] = rate[o.ticker]]
  /\ UNCHANGED <<market, books, lock, req, settle, drafts>>

OthersPriced == \A o \in OthersToPrice : quoted[o] # 0

\* The order's status once filled; the mutation forgets to write it.
UnwrittenFillStatus == "pending"
FillStatus == "filled"

FillOrder ==
  LET o == settle.order
      p == o.portfolio
  IN /\ AtOrder
     /\ StillPending
     /\ OthersPriced
     /\ FillCovered
     /\ draftCash' = [draftCash EXCEPT ![p] = IF o.side = "buy" THEN @ - FillCost ELSE @ + FillCost]
     /\ draftHeld' = [draftHeld EXCEPT ![p][o.ticker] = IF o.side = "buy" THEN @ + o.qty ELSE @ - o.qty]
     /\ draftTrades' = [draftTrades EXCEPT ![p] = @ \cup {TradeRow(@, o, o, FillCost)}]
     /\ draftStatus' = [draftStatus EXCEPT ![o] = FillStatus]
     /\ NextOrder
     /\ UNCHANGED <<market, books, lock, req>>

\* A triggered order the account cannot cover is cancelled with a reason.
CancelUncovered ==
  /\ AtOrder
  /\ StillPending
  /\ OthersPriced
  /\ ~FillCovered
  /\ draftStatus' = [draftStatus EXCEPT ![settle.order] = "cancelled"]
  /\ NextOrder
  /\ UNCHANGED <<market, books, lock, req, draftCash, draftHeld, draftTrades>>

EndSettle ==
  /\ settle' = NoBatch
  /\ lock' = Released(Settler)
  /\ quoted' = Forgotten(Settler)
  /\ draftCash' = [p \in Portfolios |-> 0]
  /\ draftHeld' = [p \in Portfolios |-> [t \in Tickers |-> 0]]
  /\ draftStatus' = [o \in Orders |-> "absent"]
  /\ draftTrades' = [p \in Portfolios |-> {}]

\* The single commit of the batch publishes every draft at once.
CommitSettle ==
  /\ settle.stage = "running" /\ settle.todo = {} /\ settle.order = None
  /\ cash' = [p \in Portfolios |-> IF lock[p] = Settler THEN draftCash[p] ELSE cash[p]]
  /\ held' = [p \in Portfolios |-> IF lock[p] = Settler THEN draftHeld[p] ELSE held[p]]
  /\ trades' = [p \in Portfolios |-> IF lock[p] = Settler THEN draftTrades[p] ELSE trades[p]]
  /\ status' = [o \in Orders |-> IF lock[o.portfolio] = Settler THEN draftStatus[o] ELSE status[o]]
  /\ EndSettle
  /\ UNCHANGED <<market, req>>

\* The job dies: everything it filled in this batch is rolled back.
AbortSettle ==
  /\ settle.stage = "running"
  /\ EndSettle
  /\ UNCHANGED <<market, books, req>>

-----------------------------------------------------------------------------
MarketStep ==
  \/ \E t \in Tickers, c \in Closes : StoreBar(t, c)
  \/ \E t \in Tickers, r \in Rates : StoreRate(t, r)

BeginStep(s) ==
  \/ \E m \in Markets : BeginMarket(s, m)
  \/ \E o \in Orders : BeginPlace(s, o) \/ BeginCancel(s, o)

ReadRates(s) == ReadFxRate(s) \/ \E o \in Orders : PriceClaim(s, o)

Decide(s) ==
  MarketBuy(s) \/ MarketSell(s) \/ PlaceOrder(s) \/ CancelOrder(s) \/ Reject(s)

RequestStep(s) == ReadRates(s) \/ Decide(s)

BatchReadRates == ReadFillRate \/ \E o \in Orders : PriceOtherClaim(o)

BatchStep ==
  \/ \E o \in Orders : LeavePending(o) \/ PriceOrder(o)
  \/ BatchReadRates \/ DropOrder \/ FillOrder \/ CancelUncovered \/ CommitSettle

Next ==
  \/ MarketStep
  \/ \E s \in Sessions : BeginStep(s) \/ LockPortfolio(s) \/ RequestStep(s) \/ Abort(s)
  \/ \E fresh \in SUBSET Tickers : BeginSettle(fresh)
  \/ BatchStep \/ LockForFill \/ AbortSettle

Spec == Init /\ [][Next]_vars

\* A transaction that is not waiting goes on; PostgreSQL queues the waiters of
\* a row lock, so one that keeps waiting is served.  Nothing obliges a request
\* or a batch to start, or the market to move.
Fairness ==
  /\ \A s \in Sessions : WF_vars(RequestStep(s)) /\ SF_vars(LockPortfolio(s))
  /\ WF_vars(BatchStep)
  /\ SF_vars(LockForFill)

FairSpec == Spec /\ Fairness

-----------------------------------------------------------------------------
(* Properties.                                                               *)

Holder(h) == {p \in Portfolios : lock[p] = h}

Kinds == {"market", "place", "cancel"}

Requests ==
  [stage : {"idle", "begun", "locked"}, kind : Kinds \cup {None},
   intent : Markets \cup Orders \cup {None},
   close : Closes \cup {NoBar}, rate : Rates \cup {0}, cash : Nat]

Batches ==
  [stage : {"idle", "running"}, todo : SUBSET Orders, fresh : SUBSET Tickers,
   order : Orders \cup {None}, close : Closes \cup {NoBar}, rate : Rates \cup {0}]

TradeRows ==
  [n : Nat, order : Orders \cup {None}, ticker : Tickers, side : Sides, qty : Nat, usd : Nat]

\* Every variable holds a value the schema allows.  Cash and holdings are
\* natural numbers: no interleaving of transactions and FX moves overdraws a
\* book or sells a share it does not hold.
TypeOK ==
  /\ close \in [Tickers -> Closes \cup {NoBar}]
  /\ rate \in [Tickers -> Rates]
  /\ cash \in [Portfolios -> Nat]
  /\ held \in [Portfolios -> [Tickers -> Nat]]
  /\ status \in [Orders -> Statuses]
  /\ trades \in [Portfolios -> SUBSET TradeRows]
  /\ lock \in [Portfolios -> Sessions \cup {Settler, Free}]
  /\ quoted \in [Orders -> Rates \cup {0}]
  /\ req \in [Sessions -> Requests]
  /\ settle \in Batches
  /\ draftCash \in [Portfolios -> Nat]
  /\ draftHeld \in [Portfolios -> [Tickers -> Nat]]
  /\ draftStatus \in [Orders -> Statuses]
  /\ draftTrades \in [Portfolios -> SUBSET TradeRows]
  /\ \A p \in Portfolios : IsFiniteSet(trades[p]) /\ IsFiniteSet(draftTrades[p])

\* What a transaction in flight knows.  A request under way names what its kind
\* acts on, and one past its lock holds the row and a copy equal to it.
RequestsCoherent ==
  \A s \in Sessions :
    /\ req[s].stage # "idle" =>
         \/ req[s].kind = "market" /\ req[s].intent \in Markets
              /\ req[s].close \in Closes
         \/ req[s].kind \in {"place", "cancel"} /\ req[s].intent \in Orders
    /\ req[s].stage = "locked" =>
         /\ lock[PortfolioOf(s)] = s
         /\ req[s].cash = cash[PortfolioOf(s)]
         /\ req[s].kind = "market" => req[s].rate \in Rates

\* The batch's locks and prices belong to a running batch, and the order at hand
\* triggered at the close that was read for it.
BatchCoherent ==
  /\ Holder(Settler) # {} => settle.stage = "running"
  /\ settle.order # None =>
       /\ settle.stage = "running"
       /\ settle.close \in Closes
       /\ ShouldFill(settle.order, settle.close)

\* The shares promised by pending sells are held, whatever prices and FX do
\* (buying_power.py: "two concurrent transactions cannot both observe the same
\* available buying power").
SharesPromisedAreHeld ==
  \A p \in Portfolios, t \in Tickers : ReservedShares(status, p, t, {}) <= held[p][t]

LatestRates == [o \in Orders |-> rate[o.ticker]]

\* The cash promised by pending buys is in the account.  FX re-prices existing
\* reservations, so this is a property of runs in which no rate moves.
CashPromisedIsThere ==
  \A p \in Portfolios : ReservedCash(LatestRates, status, p, {}) <= cash[p]

Buys(p) == {x \in trades[p] : x.side = "buy"}
Sells(p) == {x \in trades[p] : x.side = "sell"}
UsdOf(p) == [x \in trades[p] |-> x.usd]
QtyOf(p) == [x \in trades[p] |-> x.qty]

\* Cash and positions are what the trade log says they are: no commit loses or
\* repeats another's debit, so the log (and the trade.executed events written
\* with it) explains every balance.
TradesExplainBook ==
  \A p \in Portfolios :
    /\ cash[p] + Tally(UsdOf(p), Buys(p)) = StartCash + Tally(UsdOf(p), Sells(p))
    /\ \A t \in Tickers :
         held[p][t] + Tally(QtyOf(p), {x \in Sells(p) : x.ticker = t})
           = Tally(QtyOf(p), {x \in Buys(p) : x.ticker = t})

\* An order is filled exactly when one trade row carries it, across batches that
\* die and are run again.
OneTradePerFill ==
  \A o \in Orders :
    Cardinality({x \in trades[o.portfolio] : x.order = o}) = IF status[o] = "filled" THEN 1 ELSE 0

\* A fill or a cancel is final (cancel_pending_order: "a fill that committed while
\* we waited cannot be overwritten back to CANCELLED"; _fill re-reads likewise).
TerminalIsFinal ==
  [][\A o \in Orders : status[o] \in {"filled", "cancelled"} => status'[o] = status[o]]_vars

\* While no rate moves, an order that was accepted is never cancelled by the
\* settlement for want of cash or shares: the reservation taken when it was placed
\* still covers it when it triggers.  Only its owner cancels it.
OnlyOwnerCancels ==
  [][\A o \in Orders :
       status[o] = "pending" /\ status'[o] = "cancelled" =>
         \E s \in Sessions : Serving(s, "cancel") /\ req[s].intent = o]_vars

\* Every request that has begun ends, though settlement keeps its locks over the
\* whole batch.
RequestsEnd == \A s \in Sessions : req[s].stage # "idle" ~> req[s].stage = "idle"

\* Every batch that has begun ends, though it waits for locks while holding others.
BatchEnds == settle.stage = "running" ~> settle.stage = "idle"

\* The committed books move in atomic steps: a request is decided and applied on the
\* cash, holdings, orders and trades of the moment of its commit, with every claim
\* priced at a rate read since the last decision on that book (the latest rate may have
\* moved since), and a batch over many books appears all at once
\* (INTERVIEW_GUIDE.md: "Cash, positions, reservations, orders, and trades have
\* multi-row invariants that need one atomic decision").
Book == INSTANCE AccountBook
BookSpec == Book!Spec

=============================================================================
