-------------------------- MODULE LedgerBookProofs --------------------------
(***************************************************************************)
(* More proofs about the trading ledger: a fill or a cancel is final, the   *)
(* trade rows explain every book and every filled order, and, as long as no *)
(* FX rate moves, the cash promised by pending buys is in the account and   *)
(* only its owner cancels an order.  Last, that the ledger implements       *)
(* AccountBook.                                                             *)
(*                                                                          *)
(* As for the share reservations, each invariant speaks of both versions of *)
(* a book: the committed rows and, for a portfolio that the settlement has  *)
(* locked, the batch's draft of them.                                       *)
(***************************************************************************)
EXTENDS TradingLedgerProofs

Locked(p) == lock[p] = Settler

\* Book p, as a request left it: nothing of it moves while the batch holds p.
BookKept(p) ==
  /\ cash'[p] = cash[p] /\ held'[p] = held[p] /\ trades'[p] = trades[p]
  /\ \A o \in Orders : o.portfolio = p => status'[o] = status[o]

DraftKept(p) ==
  /\ draftCash'[p] = draftCash[p] /\ draftHeld'[p] = draftHeld[p] /\ draftTrades'[p] = draftTrades[p]
  /\ \A o \in Orders : o.portfolio = p => draftStatus'[o] = draftStatus[o]

\* The draft of p becomes what is committed; what is committed becomes the draft.
DraftPublished(p) ==
  /\ cash'[p] = draftCash[p] /\ held'[p] = draftHeld[p] /\ trades'[p] = draftTrades[p]
  /\ \A o \in Orders : o.portfolio = p => status'[o] = draftStatus[o]

BookCopied(p) ==
  /\ draftCash'[p] = cash[p] /\ draftHeld'[p] = held[p] /\ draftTrades'[p] = trades[p]
  /\ \A o \in Orders : o.portfolio = p => draftStatus'[o] = status[o]

RequestAction(s) == BeginStep(s) \/ LockPortfolio(s) \/ Decide(s) \/ Abort(s)

\* A market, placing or cancelling request that decides names a row of its own
\* portfolio, which is not the batch's.
LEMMA ServedRequest ==
  ASSUME Coherent, NEW s \in Sessions, Decide(s)
  PROVE  /\ PortfolioOf(s) \in Portfolios /\ lock[PortfolioOf(s)] = s
         /\ req[s].cash = cash[PortfolioOf(s)]
         /\ Serving(s, "market") => /\ req[s].intent \in Markets
                                    /\ req[s].close \in Closes /\ req[s].rate \in Rates
         /\ Serving(s, "place") \/ Serving(s, "cancel") => req[s].intent \in Orders
<1>1. req[s].stage = "locked"
  BY DEF Decide, MarketBuy, MarketSell, PlaceOrder, CancelOrder, Reject, Serving
<1>. QED
  BY <1>1, OrdersAssumption, MarketsAssumption DEF Coherent, RequestsCoherent, PortfolioOf, Serving

\* A request writes its own portfolio only, and only while it holds its row.
LEMMA RequestIsolated ==
  ASSUME Coherent, NEW s \in Sessions, RequestAction(s)
  PROVE  /\ \A p \in Portfolios : Locked(p)' <=> Locked(p)
         /\ UNCHANGED <<settle, drafts, market>>
         /\ \A p \in Portfolios : Locked(p) => BookKept(p)
<1>1. CASE BeginStep(s)
  BY <1>1 DEF BeginStep, BeginMarket, BeginPlace, BeginCancel, Locked, BookKept, books
<1>2. CASE LockPortfolio(s)
  BY <1>2, HoldersAssumption DEF LockPortfolio, Locked, BookKept, books, Coherent, TypeOK
<1>3. CASE Abort(s)
  BY <1>3, HoldersAssumption DEF Abort, Finish, Released, Locked, BookKept, books
<1>4. CASE Decide(s)
  <2> DEFINE q == PortfolioOf(s)
  <2>1. q \in Portfolios /\ lock[q] = s
    BY <1>4, ServedRequest
  <2>2. Finish(s) /\ UNCHANGED <<settle, drafts, market>>
    BY <1>4 DEF Decide, MarketBuy, MarketSell, PlaceOrder, CancelOrder, Reject
  <2>3. \A p \in Portfolios : p # q => BookKept(p)
    <3>1. CASE MarketBuy(s) \/ MarketSell(s)
      BY <2>1, <3>1 DEF MarketBuy, MarketSell, BookKept, PortfolioOf, Coherent, TypeOK
    <3>2. CASE PlaceOrder(s) \/ CancelOrder(s)
      BY <2>1, <3>2 DEF PlaceOrder, CancelOrder, BookKept, PortfolioOf, Coherent, TypeOK
    <3>3. CASE Reject(s)
      BY <3>3 DEF Reject, BookKept, books
    <3>. QED
      BY <1>4, <3>1, <3>2, <3>3 DEF Decide
  <2>. QED
    BY <2>1, <2>2, <2>3, HoldersAssumption DEF Finish, Released, Locked
<1>. QED
  BY <1>1, <1>2, <1>3, <1>4 DEF RequestAction

\* The batch's own steps, seen from one book.
LEMMA WorklistStep ==
  ASSUME \/ MarketStep \/ DropOrder \/ UNCHANGED vars
         \/ \E fresh \in SUBSET Tickers : BeginSettle(fresh)
         \/ \E o \in Orders : LeavePending(o) \/ PriceOrder(o)
         \/ BatchReadRates \/ \E s \in Sessions : ReadRates(s)
  PROVE  UNCHANGED <<books, lock, drafts>>
BY DEF MarketStep, StoreBar, StoreRate, DropOrder, BeginSettle, LeavePending, PriceOrder, vars,
   BatchReadRates, ReadFillRate, PriceOtherClaim, ReadRates, ReadFxRate, PriceClaim

LEMMA LockForFillStep ==
  ASSUME Coherent, LockForFill, NEW p \in Portfolios
  PROVE  /\ BookKept(p)
         /\ Locked(p)' => (Locked(p) /\ DraftKept(p)) \/ BookCopied(p)
<1>1. settle.order.portfolio \in Portfolios
  BY OrderAtHand DEF LockForFill
<1>2. CASE p = settle.order.portfolio
  BY <1>1, <1>2 DEF LockForFill, BookKept, BookCopied, books, Coherent, TypeOK
<1>3. CASE p # settle.order.portfolio
  BY <1>1, <1>3 DEF LockForFill, BookKept, DraftKept, Locked, books, Coherent, TypeOK
<1>. QED
  BY <1>2, <1>3

LEMMA EndSettleStep ==
  ASSUME Coherent, CommitSettle \/ AbortSettle, NEW p \in Portfolios
  PROVE  /\ ~ Locked(p)'
         /\ BookKept(p) \/ (Locked(p) /\ DraftPublished(p))
<1>1. ~ Locked(p)'
  BY HoldersAssumption DEF CommitSettle, AbortSettle, EndSettle, Released, Locked
<1>2. CASE CommitSettle
  BY <1>1, <1>2 DEF CommitSettle, BookKept, DraftPublished, Locked
<1>3. CASE AbortSettle
  BY <1>1, <1>3 DEF AbortSettle, BookKept, books
<1>. QED
  BY <1>2, <1>3

-----------------------------------------------------------------------------
(* A fill or a cancel is final.                                              *)

Terminal == {"filled", "cancelled"}

Placing(s) == req[s].stage # "idle" /\ req[s].kind = "place"

\* An order a request is about to insert is not in the table yet, and no other
\* request inserts it; the batch moves pending orders only.
StatusesSound ==
  /\ \A s \in Sessions : Placing(s) =>
       /\ status[req[s].intent] = "absent"
       /\ \A r \in Sessions : Placing(r) /\ req[r].intent = req[s].intent => r = s
  /\ \A o \in Orders :
       Locked(o.portfolio) /\ status[o] # "pending" => draftStatus[o] = status[o]

EndedStay == \A o \in Orders : status[o] \in Terminal => status'[o] = status[o]

LEMMA InitStatusesSound == Init => StatusesSound
BY DEF Init, StatusesSound, Placing, NoRequest

LEMMA RequestStatusesSound ==
  ASSUME Coherent, StatusesSound, NEW s \in Sessions, RequestAction(s)
  PROVE  StatusesSound' /\ EndedStay
<1>1. \A o \in Orders : o.portfolio \in Portfolios
  BY OrdersAssumption
<1>2. \A o \in Orders :
        Locked(o.portfolio)' /\ status'[o] # "pending" => draftStatus'[o] = status'[o]
  BY <1>1, RequestIsolated DEF StatusesSound, BookKept, drafts
<1>3. CASE BeginStep(s)
  <2>1. UNCHANGED status /\ \A z \in Sessions : z # s => req'[z] = req[z]
    BY <1>3 DEF BeginStep, BeginMarket, BeginPlace, BeginCancel, books, Coherent, TypeOK
  <2>2. CASE \E o \in Orders : BeginPlace(s, o)
    <3>1. PICK o \in Orders : BeginPlace(s, o)
      BY <2>2
    <3>2. req'[s].intent = o /\ status[o] = "absent"
      BY <3>1 DEF BeginPlace, Begun, Coherent, TypeOK
    <3>3. \A r \in Sessions : Placing(r) => req[r].intent # o
      BY <3>1 DEF BeginPlace, Placing
    <3>. QED
      BY <1>2, <2>1, <3>2, <3>3 DEF StatusesSound, EndedStay, Placing
  <2>3. CASE ~ \E o \in Orders : BeginPlace(s, o)
    <3>1. ~ Placing(s)'
      BY <1>3, <2>3 DEF BeginStep, BeginMarket, BeginCancel, Begun, Placing, Coherent, TypeOK
    <3>. QED
      BY <1>2, <2>1, <3>1 DEF StatusesSound, EndedStay, Placing
  <2>. QED
    BY <2>2, <2>3
<1>4. CASE LockPortfolio(s)
  <2>1. UNCHANGED status
    BY <1>4 DEF LockPortfolio, books
  <2>2. \A z \in Sessions :
          req'[z].intent = req[z].intent /\ req'[z].kind = req[z].kind
          /\ (req'[z].stage # "idle" => req[z].stage # "idle")
    BY <1>4 DEF LockPortfolio, Coherent, TypeOK, Requests
  <2>. QED
    BY <1>2, <2>1, <2>2 DEF StatusesSound, EndedStay, Placing
<1>5. CASE Decide(s) \/ Abort(s)
  <2>1. \A z \in Sessions : z # s => req'[z] = req[z]
    BY <1>5 DEF Decide, MarketBuy, MarketSell, PlaceOrder, CancelOrder, Reject, Abort,
       Finish, Coherent, TypeOK
  <2>2. ~ Placing(s)'
    BY <1>5 DEF Decide, MarketBuy, MarketSell, PlaceOrder, CancelOrder, Reject, Abort,
       Finish, NoRequest, Placing, Coherent, TypeOK
  <2>3. CASE PlaceOrder(s) \/ CancelOrder(s)
    <3>1. req[s].intent \in Orders
      BY <2>3, OrdersAssumption
         DEF PlaceOrder, CancelOrder, Admitted, Serving, Coherent, RequestsCoherent
    <3>2. \A o \in Orders : o # req[s].intent => status'[o] = status[o]
      BY <2>3 DEF PlaceOrder, CancelOrder, Coherent, TypeOK
    <3>3. status[req[s].intent] \notin Terminal
      <4>1. PlaceOrder(s) => Placing(s)
        BY DEF PlaceOrder, Serving, Placing
      <4>2. CancelOrder(s) => status[req[s].intent] = "pending"
        BY DEF CancelOrder, Admitted, Serving
      <4>. QED
        BY <2>3, <4>1, <4>2 DEF StatusesSound, Terminal
    <3>4. \A z \in Sessions : Placing(z)' =>
            z # s /\ Placing(z) /\ req[z].intent \in Orders /\ req[z].intent # req[s].intent
      <4> SUFFICES ASSUME NEW z \in Sessions, Placing(z)'
                   PROVE  /\ z # s /\ Placing(z) /\ req[z].intent \in Orders
                          /\ req[z].intent # req[s].intent
        OBVIOUS
      <4>1. z # s /\ Placing(z) /\ status[req[z].intent] = "absent"
        BY <2>1, <2>2 DEF Placing, StatusesSound
      <4>2. req[z].intent \in Orders
        BY <4>1 DEF Placing, Coherent, RequestsCoherent
      <4>3. PlaceOrder(s) => Placing(s)
        BY DEF PlaceOrder, Serving, Placing
      <4>4. CancelOrder(s) => status[req[s].intent] = "pending"
        BY DEF CancelOrder, Admitted, Serving
      <4>. QED
        BY <2>3, <4>1, <4>2, <4>3, <4>4 DEF StatusesSound
    <3>. QED
      BY <1>2, <2>1, <3>1, <3>2, <3>3, <3>4 DEF StatusesSound, EndedStay, Placing
  <2>4. CASE ~ (PlaceOrder(s) \/ CancelOrder(s))
    <3>1. UNCHANGED status
      BY <1>5, <2>4 DEF Decide, MarketBuy, MarketSell, Reject, Abort, books
    <3>. QED
      BY <1>2, <2>1, <2>2, <3>1 DEF StatusesSound, EndedStay, Placing
  <2>. QED
    BY <2>3, <2>4
<1>. QED
  BY <1>3, <1>4, <1>5 DEF RequestAction

\* No step takes an ended order out of its state, in the committed rows or, by
\* way of a draft, at the next commit.
LEMMA StepStatusesSound ==
  Coherent /\ StatusesSound /\ [Next]_vars => StatusesSound' /\ EndedStay
<1> SUFFICES ASSUME Coherent, StatusesSound, [Next]_vars
             PROVE  StatusesSound' /\ EndedStay
  OBVIOUS
<1>0. /\ \A o \in Orders : o.portfolio \in Portfolios
      /\ \A s \in Sessions : Placing(s) => req[s].intent \in Orders
  BY OrdersAssumption DEF Placing, Coherent, RequestsCoherent
<1>1. CASE UNCHANGED <<books, lock, drafts, req>>
  BY <1>1 DEF StatusesSound, EndedStay, Locked, Placing, books, drafts
<1>2. ASSUME NEW s \in Sessions, RequestAction(s)
      PROVE  StatusesSound' /\ EndedStay
  BY <1>2, RequestStatusesSound
<1>3. CASE LockForFill
  <2>1. UNCHANGED <<status, req>>
    BY <1>3 DEF LockForFill, books
  <2>2. \A o \in Orders :
          Locked(o.portfolio)' /\ status'[o] # "pending" => draftStatus'[o] = status'[o]
    BY <1>0, <1>3, LockForFillStep DEF StatusesSound, BookKept, DraftKept, BookCopied
  <2>. QED
    BY <2>1, <2>2 DEF StatusesSound, EndedStay, Placing
<1>4. CASE FillOrder \/ CancelUncovered
  <2>1. UNCHANGED <<status, lock, req>> /\ settle.order \in Orders /\ StillPending
    BY <1>4, OrderAtHand DEF FillOrder, CancelUncovered, AtOrder, books
  <2>2. \A o \in Orders : o # settle.order => draftStatus'[o] = draftStatus[o]
    BY <1>4 DEF FillOrder, CancelUncovered, Coherent, TypeOK
  <2>3. Locked(settle.order.portfolio) => status[settle.order] = "pending"
    BY <2>1 DEF StatusesSound, StillPending
  <2>. QED
    BY <2>1, <2>2, <2>3 DEF StatusesSound, EndedStay, Locked, Placing
<1>5. CASE CommitSettle \/ AbortSettle
  <2>1. UNCHANGED req /\ \A p \in Portfolios : ~ Locked(p)'
    BY <1>5, EndSettleStep DEF CommitSettle, AbortSettle
  <2>2. \A o \in Orders : status[o] # "pending" => status'[o] = status[o]
    BY <1>0, <1>5, EndSettleStep DEF StatusesSound, BookKept, DraftPublished
  <2>. QED
    BY <1>0, <2>1, <2>2 DEF StatusesSound, EndedStay, Placing, Terminal
<1>6. CASE MarketStep \/ DropOrder \/ UNCHANGED vars
           \/ (\E fresh \in SUBSET Tickers : BeginSettle(fresh))
           \/ (\E o \in Orders : LeavePending(o) \/ PriceOrder(o))
           \/ BatchReadRates
  BY <1>1, <1>6, WorklistStep
     DEF MarketStep, StoreBar, StoreRate, DropOrder, BeginSettle, LeavePending, PriceOrder, vars,
         BatchReadRates, ReadFillRate, PriceOtherClaim
<1>7. CASE \E s \in Sessions : ReadRates(s)
  <2>1. UNCHANGED <<books, lock, drafts>>
    BY <1>7, WorklistStep
  <2>2. \A z \in Sessions : /\ req'[z].stage = req[z].stage /\ req'[z].kind = req[z].kind
                            /\ req'[z].intent = req[z].intent
    <3>1. CASE \E s \in Sessions : ReadFxRate(s)
      <4>1. PICK s \in Sessions : req' = [req EXCEPT ![s].rate = rate[req[s].intent.ticker]]
        BY <3>1 DEF ReadFxRate
      <4>2. \A z \in Sessions : req[z] \in Requests
        BY DEF Coherent, TypeOK
      <4>3. DOMAIN req = Sessions
        BY DEF Coherent, TypeOK
      <4>. QED
        BY <4>1, <4>2, <4>3 DEF Requests
    <3>2. CASE \E s \in Sessions, o \in Orders : PriceClaim(s, o)
      BY <3>2 DEF PriceClaim
    <3>. QED
      BY <1>7, <3>1, <3>2 DEF ReadRates
  <2>. QED
    BY <2>1, <2>2 DEF StatusesSound, EndedStay, Locked, Placing, books, drafts
<1>. QED
  BY <1>2, <1>3, <1>4, <1>5, <1>6, <1>7 DEF Next, BatchStep, RequestStep, RequestAction

LEMMA AlwaysStatusesSound == Spec => []StatusesSound
BY InitStatusesSound, StepStatusesSound, AlwaysCoherent, PTL DEF Spec

\* An order that was filled or cancelled stays so, whatever cancels, settlements,
\* crashes and re-runs follow: neither a cancel that waited for the lock nor a
\* batch working from an old SELECT overwrites it.
THEOREM TerminalFinal == Spec => TerminalIsFinal
<1>1. Coherent /\ StatusesSound /\ [Next]_vars =>
        [\A o \in Orders : status[o] \in {"filled", "cancelled"} => status'[o] = status[o]]_vars
  BY StepStatusesSound DEF EndedStay, Terminal
<1>. QED
  BY <1>1, AlwaysCoherent, AlwaysStatusesSound, PTL DEF Spec, TerminalIsFinal

-----------------------------------------------------------------------------
(* The trade rows explain the book.  A book is a view <<st, c, h, rows>> of  *)
(* the statuses, cash, holdings and trades of portfolio p.                   *)

RowsOf(rows, side) == {x \in rows : x.side = side}
RowsIn(rows, side, t) == {x \in RowsOf(rows, side) : x.ticker = t}
Usd(rows) == [x \in rows |-> x.usd]
Qty(rows) == [x \in rows |-> x.qty]

BookExplained(c, h, rows) ==
  /\ c + Tally(Usd(rows), RowsOf(rows, "buy")) = StartCash + Tally(Usd(rows), RowsOf(rows, "sell"))
  /\ \A t \in Tickers :
       h[t] + Tally(Qty(rows), RowsIn(rows, "sell", t)) = Tally(Qty(rows), RowsIn(rows, "buy", t))

\* Row numbers count up, so a new row is never one that is already there.
RowsNumbered(rows) == \A x \in rows : x.n <= Cardinality(rows)

FillsAttributed(st, rows, p) ==
  \A o \in Orders : o.portfolio = p =>
    Cardinality({x \in rows : x.order = o}) = IF st[o] = "filled" THEN 1 ELSE 0

BookSound(st, c, h, rows, p) ==
  BookExplained(c, h, rows) /\ RowsNumbered(rows) /\ FillsAttributed(st, rows, p)

BooksSound ==
  \A p \in Portfolios :
    /\ BookSound(status, cash[p], held[p], trades[p], p)
    /\ Locked(p) => BookSound(draftStatus, draftCash[p], draftHeld[p], draftTrades[p], p)

\* g extends the amounts f of the rows to one row more.
OneMoreAmount(rows, row, f, g, S) ==
  /\ IsFiniteSet(rows) /\ row \notin rows /\ S \subseteq rows \cup {row}
  /\ g[row] \in Nat /\ \A x \in rows : f[x] \in Nat /\ g[x] = f[x]

\* What the row adds to a sum over S.
AmountIn(row, g, S) == IF row \in S THEN g[row] ELSE 0

\* A row added to a sum over some of the rows.
LEMMA TallyRow ==
  ASSUME NEW rows, NEW row, NEW f, NEW g, NEW S, OneMoreAmount(rows, row, f, g, S)
  PROVE  /\ Tally(f, S \cap rows) \in Nat
         /\ Tally(g, S) = Tally(f, S \cap rows) + AmountIn(row, g, S)
<1>. /\ IsFiniteSet(rows) /\ row \notin rows /\ S \subseteq rows \cup {row}
     /\ g[row] \in Nat /\ \A x \in rows : f[x] \in Nat /\ g[x] = f[x]
  BY DEF OneMoreAmount
<1> DEFINE R == S \cap rows
<1>1. IsFiniteSet(R) /\ row \notin R /\ R \subseteq rows
  BY FS_Subset
<1>2. Tally(f, R) \in Nat /\ Tally(g, R) = Tally(f, R)
  BY <1>1, TallyType, TallyCongruent
<1>3. CASE row \in S
  <2>1. S = R \cup {row}
    BY <1>3
  <2>2. Tally(g, R \cup {row}) = Tally(g, R) + g[row]
    <3>1. \A x \in R \cup {row} : g[x] \in Nat
      OBVIOUS
    <3> HIDE DEF R
    <3>. QED
      BY <1>1, <3>1, TallyAdd
  <2> HIDE DEF R
  <2>. QED
    BY <1>2, <1>3, <2>1, <2>2 DEF R, AmountIn
<1>4. CASE row \notin S
  <2>1. S = R
    BY <1>4
  <2>. QED
    BY <1>2, <1>4, <2>1 DEF AmountIn
<1>. QED
  BY <1>3, <1>4

\* A row numbered past the others is new.
LEMMA NewRow ==
  ASSUME NEW rows \in SUBSET TradeRows, IsFiniteSet(rows), RowsNumbered(rows),
         NEW row \in TradeRows, row.n = Cardinality(rows) + 1
  PROVE  /\ row \notin rows
         /\ RowsNumbered(rows \cup {row})
<1> DEFINE k == Cardinality(rows)
<1>1. k \in Nat
  BY FS_CardinalityType
<1>2. row \notin rows
  BY <1>1 DEF RowsNumbered
<1>3. Cardinality(rows \cup {row}) = k + 1
  BY <1>2, FS_AddElement
<1>4. \A x \in rows : x.n \in Nat /\ x.n <= k
  BY DEF RowsNumbered, TradeRows
<1> HIDE DEF k
<1>5. \A x \in rows \cup {row} : x.n <= k + 1
  BY <1>1, <1>4, row.n = k + 1 DEF k
<1>. QED
  BY <1>2, <1>3, <1>5 DEF RowsNumbered

\* Booking a trade: the cash and the shares move by what the new row says, and the
\* order it carries, if any, becomes filled and no other one does.
TradeBooked(st, st2, c, c2, h, h2, rows, row, p) ==
  /\ rows \in SUBSET TradeRows /\ IsFiniteSet(rows)
  /\ row \in TradeRows /\ row.n = Cardinality(rows) + 1
  /\ c \in Nat /\ c2 \in Nat /\ h \in [Tickers -> Nat] /\ h2 \in [Tickers -> Nat]
  /\ row.side = "buy" => c = c2 + row.usd
  /\ row.side = "sell" => c2 = c + row.usd
  /\ row.side = "sell" => h[row.ticker] = h2[row.ticker] + row.qty
  /\ \A t \in Tickers : h2[t] = IF t # row.ticker THEN h[t]
                                ELSE IF row.side = "buy" THEN h[t] + row.qty
                                ELSE h2[t]
  /\ row.order # None => st[row.order] # "filled"
  /\ \A o \in Orders : o.portfolio = p =>
       (st2[o] = "filled" <=> st[o] = "filled" \/ o = row.order)

LEMMA BookTrade ==
  ASSUME NEW st, NEW st2, NEW c, NEW c2, NEW h, NEW h2, NEW rows, NEW row, NEW p,
         TradeBooked(st, st2, c, c2, h, h2, rows, row, p),
         BookSound(st, c, h, rows, p)
  PROVE  BookSound(st2, c2, h2, rows \cup {row}, p)
<1>. /\ rows \in SUBSET TradeRows /\ IsFiniteSet(rows)
     /\ row \in TradeRows /\ row.n = Cardinality(rows) + 1
     /\ c \in Nat /\ c2 \in Nat /\ h \in [Tickers -> Nat] /\ h2 \in [Tickers -> Nat]
  BY DEF TradeBooked
<1>. /\ row.side = "buy" => c = c2 + row.usd
     /\ row.side = "sell" => c2 = c + row.usd
     /\ row.side = "sell" => h[row.ticker] = h2[row.ticker] + row.qty
     /\ \A t \in Tickers : h2[t] = IF t # row.ticker THEN h[t]
                                   ELSE IF row.side = "buy" THEN h[t] + row.qty
                                   ELSE h2[t]
  BY DEF TradeBooked
<1>. /\ row.order # None => st[row.order] # "filled"
     /\ \A o \in Orders : o.portfolio = p =>
          (st2[o] = "filled" <=> st[o] = "filled" \/ o = row.order)
  BY DEF TradeBooked
<1> DEFINE rows2 == rows \cup {row}
<1>1. row \notin rows /\ RowsNumbered(rows2)
  BY NewRow DEF BookSound
<1>2. /\ row.usd \in Nat /\ row.qty \in Nat /\ row.side \in Sides /\ row.ticker \in Tickers
      /\ \A x \in rows : x.usd \in Nat /\ x.qty \in Nat
  BY DEF TradeRows
<1>3. /\ \A x \in rows : Usd(rows)[x] \in Nat /\ Usd(rows2)[x] = Usd(rows)[x]
      /\ \A x \in rows : Qty(rows)[x] \in Nat /\ Qty(rows2)[x] = Qty(rows)[x]
      /\ Usd(rows2)[row] = row.usd /\ Qty(rows2)[row] = row.qty
  BY <1>2 DEF Usd, Qty
<1>4. ASSUME NEW side \in Sides
      PROVE  /\ Tally(Usd(rows), RowsOf(rows, side)) \in Nat
             /\ Tally(Usd(rows2), RowsOf(rows2, side))
                  = Tally(Usd(rows), RowsOf(rows, side)) + (IF row.side = side THEN row.usd ELSE 0)
  <2> DEFINE S == RowsOf(rows2, side)
             f == Usd(rows)
             g == Usd(rows2)
  <2>1. /\ S \subseteq rows \cup {row} /\ S \cap rows = RowsOf(rows, side)
        /\ row \in S <=> row.side = side
    BY DEF RowsOf
  <2>2. /\ \A x \in rows : f[x] \in Nat /\ g[x] = f[x]
        /\ g[row] \in Nat /\ g[row] = row.usd
    BY <1>2, <1>3
  <2> HIDE DEF S, f, g
  <2>3. /\ Tally(f, S \cap rows) \in Nat
        /\ Tally(g, S) = Tally(f, S \cap rows) + AmountIn(row, g, S)
    <3>1. OneMoreAmount(rows, row, f, g, S)
      BY <1>1, <2>1, <2>2 DEF OneMoreAmount
    <3>. QED
      BY <3>1, TallyRow
  <2>. QED
    BY <2>1, <2>2, <2>3 DEF S, f, g, AmountIn
<1>5. ASSUME NEW side \in Sides, NEW t \in Tickers
      PROVE  /\ Tally(Qty(rows), RowsIn(rows, side, t)) \in Nat
             /\ Tally(Qty(rows2), RowsIn(rows2, side, t))
                  = Tally(Qty(rows), RowsIn(rows, side, t))
                      + (IF row.side = side /\ row.ticker = t THEN row.qty ELSE 0)
  <2> DEFINE S == RowsIn(rows2, side, t)
             f == Qty(rows)
             g == Qty(rows2)
  <2>1. /\ S \subseteq rows \cup {row} /\ S \cap rows = RowsIn(rows, side, t)
        /\ row \in S <=> row.side = side /\ row.ticker = t
    BY DEF RowsIn, RowsOf
  <2>2. /\ \A x \in rows : f[x] \in Nat /\ g[x] = f[x]
        /\ g[row] \in Nat /\ g[row] = row.qty
    BY <1>2, <1>3
  <2> HIDE DEF S, f, g
  <2>3. /\ Tally(f, S \cap rows) \in Nat
        /\ Tally(g, S) = Tally(f, S \cap rows) + AmountIn(row, g, S)
    <3>1. OneMoreAmount(rows, row, f, g, S)
      BY <1>1, <2>1, <2>2 DEF OneMoreAmount
    <3>. QED
      BY <3>1, TallyRow
  <2>. QED
    BY <2>1, <2>2, <2>3 DEF S, f, g, AmountIn
<1>6. BookExplained(c2, h2, rows2)
  <2> DEFINE spent == Tally(Usd(rows), RowsOf(rows, "buy"))
             earned == Tally(Usd(rows), RowsOf(rows, "sell"))
             spent2 == Tally(Usd(rows2), RowsOf(rows2, "buy"))
             earned2 == Tally(Usd(rows2), RowsOf(rows2, "sell"))
  <2>1. /\ spent \in Nat /\ earned \in Nat
        /\ spent2 = spent + (IF row.side = "buy" THEN row.usd ELSE 0)
        /\ earned2 = earned + (IF row.side = "sell" THEN row.usd ELSE 0)
        /\ c + spent = StartCash + earned
    BY <1>4 DEF Sides, BookSound, BookExplained
  <2>2. ASSUME NEW t \in Tickers
        PROVE  h2[t] + Tally(Qty(rows2), RowsIn(rows2, "sell", t))
                 = Tally(Qty(rows2), RowsIn(rows2, "buy", t))
    <3> DEFINE bought == Tally(Qty(rows), RowsIn(rows, "buy", t))
               sold == Tally(Qty(rows), RowsIn(rows, "sell", t))
               bought2 == Tally(Qty(rows2), RowsIn(rows2, "buy", t))
               sold2 == Tally(Qty(rows2), RowsIn(rows2, "sell", t))
    <3>1. /\ bought \in Nat /\ sold \in Nat
          /\ bought2 = bought + (IF row.side = "buy" /\ row.ticker = t THEN row.qty ELSE 0)
          /\ sold2 = sold + (IF row.side = "sell" /\ row.ticker = t THEN row.qty ELSE 0)
          /\ h[t] + sold = bought
      BY <1>5 DEF Sides, BookSound, BookExplained
    <3>2. h[t] \in Nat /\ h2[t] \in Nat
      OBVIOUS
    <3> HIDE DEF bought, sold, bought2, sold2
    <3>3. h2[t] + sold2 = bought2
      BY <1>2, <3>1, <3>2 DEF Sides
    <3>. QED
      BY <3>3 DEF bought2, sold2
  <2>3. StartCash \in Nat
    BY QuotesAssumption
  <2> HIDE DEF spent, earned, spent2, earned2
  <2>4. c2 + spent2 = StartCash + earned2
    BY <1>2, <2>1, <2>3 DEF Sides
  <2>. QED
    BY <2>2, <2>4 DEF BookExplained, spent2, earned2
<1>7. FillsAttributed(st2, rows2, p)
  <2> SUFFICES ASSUME NEW o \in Orders, o.portfolio = p
               PROVE  Cardinality({x \in rows2 : x.order = o}) = IF st2[o] = "filled" THEN 1 ELSE 0
    BY DEF FillsAttributed
  <2> DEFINE A == {x \in rows : x.order = o}
             A2 == {x \in rows2 : x.order = o}
  <2>1. Cardinality(A) = IF st[o] = "filled" THEN 1 ELSE 0
    BY DEF BookSound, FillsAttributed
  <2>2. CASE row.order = o
    <3>1. o # None /\ st[o] # "filled" /\ st2[o] = "filled"
      BY <2>2, OrdersAssumption
    <3>2. IsFiniteSet(A) /\ row \notin A /\ A2 = A \cup {row}
      BY <1>1, <2>2, FS_Subset
    <3> HIDE DEF A, A2
    <3>3. Cardinality(A2) = Cardinality(A) + 1
      BY <3>2, FS_AddElement
    <3>. QED
      BY <2>1, <3>1, <3>3 DEF A2
  <2>3. CASE row.order # o
    <3>1. A2 = A
      BY <2>3
    <3>. QED
      BY <2>1, <2>3, <3>1
  <2>. QED
    BY <2>2, <2>3
<1>. QED
  BY <1>1, <1>6, <1>7 DEF BookSound

\* A view of the statuses in which the same orders of p are filled.
LEMMA BookStatus ==
  ASSUME NEW st, NEW st2, NEW c, NEW h, NEW rows, NEW p,
         BookSound(st, c, h, rows, p),
         \A o \in Orders : o.portfolio = p => (st2[o] = "filled" <=> st[o] = "filled")
  PROVE  BookSound(st2, c, h, rows, p)
BY DEF BookSound, FillsAttributed

LEMMA InitBooksSound == Init => BooksSound
<1> SUFFICES ASSUME Init, NEW p \in Portfolios
             PROVE  BookSound(status, cash[p], held[p], trades[p], p) /\ ~ Locked(p)
  BY DEF BooksSound
<1>1. trades[p] = {} /\ cash[p] = StartCash /\ held[p] = [t \in Tickers |-> 0]
  BY DEF Init
<1>2. BookExplained(cash[p], held[p], trades[p])
  <2>1. \A side, t : RowsOf({}, side) = {} /\ RowsIn({}, side, t) = {}
    BY DEF RowsOf, RowsIn
  <2>2. \A f : Tally(f, {}) = 0
    BY TallyEmpty
  <2>. QED
    BY <1>1, <2>1, <2>2, QuotesAssumption DEF BookExplained
<1>3. FillsAttributed(status, trades[p], p)
  <2>1. \A o : {x \in trades[p] : x.order = o} = {}
    BY <1>1
  <2>2. \A o \in Orders : status[o] # "filled"
    BY DEF Init
  <2>. QED
    BY <2>1, <2>2, FS_EmptySet DEF FillsAttributed
<1>4. RowsNumbered(trades[p])
  BY <1>1 DEF RowsNumbered
<1>5. ~ Locked(p)
  BY HoldersAssumption DEF Init, Locked
<1>. QED
  BY <1>2, <1>3, <1>4, <1>5 DEF BookSound

LEMMA MarketBooksSound ==
  ASSUME Coherent, Coherent', BooksSound, NEW s \in Sessions, MarketBuy(s) \/ MarketSell(s)
  PROVE  LET p == PortfolioOf(s)
         IN  BookSound(status', cash'[p], held'[p], trades'[p], p)
<1> DEFINE p == PortfolioOf(s)
           m == req[s].intent
           rows == trades[p]
           row == TradeRow(rows, None, m, MarketCost(s))
<1>1. /\ p \in Portfolios /\ p = m.portfolio /\ req[s].cash = cash[p]
      /\ m \in Markets /\ m.ticker \in Tickers /\ m.side \in Sides /\ m.qty \in Nat
      /\ req[s].close \in Nat /\ req[s].rate \in Nat
  BY ServedRequest, MarketsAssumption, QuotesAssumption
     DEF Decide, MarketBuy, MarketSell, PortfolioOf
<1>2. MarketCost(s) \in Nat
  BY <1>1, CostType DEF MarketCost
<1>3. /\ rows \in SUBSET TradeRows /\ IsFiniteSet(rows)
      /\ cash[p] \in Nat /\ cash'[p] \in Nat
      /\ held[p] \in [Tickers -> Nat] /\ held'[p] \in [Tickers -> Nat]
  BY <1>1 DEF Coherent, TypeOK
<1>4. row \in TradeRows /\ row.n = Cardinality(rows) + 1
  BY <1>1, <1>2, <1>3, FS_CardinalityType DEF TradeRow, TradeRows
<1>5. /\ row.order = None /\ row.side = m.side /\ row.ticker = m.ticker
      /\ row.qty = m.qty /\ row.usd = MarketCost(s)
  BY DEF TradeRow
<1>6. trades'[p] = rows \cup {row} /\ status' = status
  BY <1>1 DEF MarketBuy, MarketSell, Coherent, TypeOK
<1>7. /\ m.side = "buy" => /\ cash'[p] = cash[p] - MarketCost(s)
                            /\ held'[p] = [held[p] EXCEPT ![m.ticker] = held[p][m.ticker] + m.qty]
      /\ m.side = "sell" => /\ cash'[p] = cash[p] + MarketCost(s)
                             /\ held'[p] = [held[p] EXCEPT ![m.ticker] = held[p][m.ticker] - m.qty]
  BY <1>1 DEF MarketBuy, MarketSell, Coherent, TypeOK
<1>8. BookSound(status, cash[p], held[p], rows, p)
  BY <1>1 DEF BooksSound
<1> HIDE DEF row, rows
<1>9. /\ row.side = "buy" => cash[p] = cash'[p] + row.usd
      /\ row.side = "sell" => cash'[p] = cash[p] + row.usd
      /\ row.side = "sell" => held[p][row.ticker] = held'[p][row.ticker] + row.qty
      /\ \A t \in Tickers : held'[p][t] = IF t # row.ticker THEN held[p][t]
                                          ELSE IF row.side = "buy" THEN held[p][t] + row.qty
                                          ELSE held'[p][t]
  <2>1. CASE m.side = "buy"
    BY <1>1, <1>2, <1>3, <1>5, <1>7, <2>1
  <2>2. CASE m.side = "sell"
    BY <1>1, <1>2, <1>3, <1>5, <1>7, <2>2
  <2>. QED
    BY <1>1, <2>1, <2>2 DEF Sides
<1>10. \A o \in Orders : o.portfolio = p =>
         (status'[o] = "filled" <=> status[o] = "filled" \/ o = row.order)
  BY <1>5, <1>6, OrdersAssumption
<1>11. row.order # None => status[row.order] # "filled"
  BY <1>5
<1>12. TradeBooked(status, status', cash[p], cash'[p], held[p], held'[p], rows, row, p)
  BY <1>3, <1>4, <1>9, <1>10, <1>11 DEF TradeBooked
<1>. QED
  BY <1>6, <1>8, <1>12, BookTrade

LEMMA RequestBooksSound ==
  ASSUME Coherent, Coherent', StatusesSound, BooksSound, NEW s \in Sessions, RequestAction(s)
  PROVE  BooksSound'
<1> SUFFICES ASSUME NEW p \in Portfolios
             PROVE  /\ BookSound(status', cash'[p], held'[p], trades'[p], p)
                    /\ Locked(p)' => BookSound(draftStatus, draftCash[p], draftHeld[p], draftTrades[p], p)
  BY RequestIsolated DEF BooksSound, drafts
<1>1. Locked(p)' <=> Locked(p)
  BY RequestIsolated
<1>2. /\ BookSound(status, cash[p], held[p], trades[p], p)
      /\ Locked(p) => BookSound(draftStatus, draftCash[p], draftHeld[p], draftTrades[p], p)
  BY DEF BooksSound
<1>3. CASE (MarketBuy(s) \/ MarketSell(s)) /\ p = PortfolioOf(s)
  BY <1>1, <1>2, <1>3, MarketBooksSound
<1>4. CASE ~ ((MarketBuy(s) \/ MarketSell(s)) /\ p = PortfolioOf(s))
  <2>1. cash'[p] = cash[p] /\ held'[p] = held[p] /\ trades'[p] = trades[p]
    <3>1. CASE MarketBuy(s) \/ MarketSell(s)
      BY <1>4, <3>1 DEF MarketBuy, MarketSell, PortfolioOf, Coherent, TypeOK
    <3>2. CASE ~ (MarketBuy(s) \/ MarketSell(s))
      BY <3>2 DEF RequestAction, BeginStep, BeginMarket, BeginPlace, BeginCancel, LockPortfolio,
         Decide, PlaceOrder, CancelOrder, Reject, Abort, books
    <3>. QED
      BY <3>1, <3>2
  <2>2. \A o \in Orders : status'[o] = "filled" <=> status[o] = "filled"
    <3>1. \A o \in Orders : status[o] = "filled" => status'[o] = "filled"
      BY RequestStatusesSound DEF EndedStay, Terminal
    <3>2. \A o \in Orders : status'[o] = "filled" => status[o] = "filled"
      BY DEF RequestAction, BeginStep, BeginMarket, BeginPlace, BeginCancel, LockPortfolio,
         Decide, MarketBuy, MarketSell, PlaceOrder, CancelOrder, Reject, Abort, books,
         Coherent, TypeOK
    <3>. QED
      BY <3>1, <3>2
  <2>3. BookSound(status', cash[p], held[p], trades[p], p)
    BY <1>2, <2>2, BookStatus
  <2>. QED
    BY <1>1, <1>2, <2>1, <2>3
<1>. QED
  BY <1>3, <1>4

LEMMA FillBooksSound ==
  ASSUME Coherent, Coherent', BooksSound, FillOrder
  PROVE  LET p == settle.order.portfolio
         IN  BookSound(draftStatus', draftCash'[p], draftHeld'[p], draftTrades'[p], p)
<1> DEFINE o == settle.order
           p == o.portfolio
           rows == draftTrades[p]
           row == TradeRow(rows, o, o, FillCost)
<1>1. /\ o \in Orders /\ p \in Portfolios /\ o.ticker \in Tickers /\ o.side \in Sides
      /\ o.qty \in Nat /\ FillCost \in Nat /\ Locked(p)
  BY OrderAtHand DEF FillOrder, AtOrder, Locked
<1>2. /\ rows \in SUBSET TradeRows /\ IsFiniteSet(rows)
      /\ draftCash[p] \in Nat /\ draftCash'[p] \in Nat
      /\ draftHeld[p] \in [Tickers -> Nat] /\ draftHeld'[p] \in [Tickers -> Nat]
  BY <1>1 DEF Coherent, TypeOK
<1>3. row \in TradeRows /\ row.n = Cardinality(rows) + 1
  BY <1>1, <1>2, FS_CardinalityType DEF TradeRow, TradeRows
<1>4. /\ row.order = o /\ row.side = o.side /\ row.ticker = o.ticker
      /\ row.qty = o.qty /\ row.usd = FillCost
  BY DEF TradeRow
<1>5. /\ draftTrades'[p] = rows \cup {row}
      /\ draftStatus[o] = "pending"
      /\ draftStatus' = [draftStatus EXCEPT ![o] = "filled"]
  BY <1>1 DEF FillOrder, FillStatus, StillPending, Coherent, TypeOK
<1>6. /\ o.side = "buy" => /\ draftCash'[p] = draftCash[p] - FillCost
                            /\ draftHeld'[p] = [draftHeld[p] EXCEPT ![o.ticker] = draftHeld[p][o.ticker] + o.qty]
      /\ o.side = "sell" => /\ draftCash'[p] = draftCash[p] + FillCost
                             /\ draftHeld'[p] = [draftHeld[p] EXCEPT ![o.ticker] = draftHeld[p][o.ticker] - o.qty]
  BY <1>1 DEF FillOrder, Coherent, TypeOK
<1>7. BookSound(draftStatus, draftCash[p], draftHeld[p], rows, p)
  BY <1>1 DEF BooksSound
<1>8. \A x \in Orders : x.portfolio = p =>
        (draftStatus'[x] = "filled" <=> draftStatus[x] = "filled" \/ x = o)
  BY <1>1, <1>5 DEF Coherent, TypeOK
<1> HIDE DEF row, rows
<1>9. /\ row.side = "buy" => draftCash[p] = draftCash'[p] + row.usd
      /\ row.side = "sell" => draftCash'[p] = draftCash[p] + row.usd
      /\ row.side = "sell" => draftHeld[p][row.ticker] = draftHeld'[p][row.ticker] + row.qty
      /\ \A t \in Tickers : draftHeld'[p][t] = IF t # row.ticker THEN draftHeld[p][t]
                                          ELSE IF row.side = "buy" THEN draftHeld[p][t] + row.qty
                                          ELSE draftHeld'[p][t]
  <2>1. CASE o.side = "buy"
    BY <1>1, <1>2, <1>4, <1>6, <2>1
  <2>2. CASE o.side = "sell"
    BY <1>1, <1>2, <1>4, <1>6, <2>2
  <2>. QED
    BY <1>1, <2>1, <2>2 DEF Sides
<1>10. /\ \A x \in Orders : x.portfolio = p =>
            (draftStatus'[x] = "filled" <=> draftStatus[x] = "filled" \/ x = row.order)
       /\ draftStatus[row.order] # "filled"
  BY <1>4, <1>5, <1>8
<1>11. TradeBooked(draftStatus, draftStatus', draftCash[p], draftCash'[p], draftHeld[p], draftHeld'[p], rows, row, p)
  BY <1>2, <1>3, <1>9, <1>10 DEF TradeBooked
<1>. QED
  BY <1>5, <1>7, <1>11, BookTrade

LEMMA StepBooksSound ==
  Coherent /\ Coherent' /\ StatusesSound /\ BooksSound /\ [Next]_vars => BooksSound'
<1> SUFFICES ASSUME Coherent, Coherent', StatusesSound, BooksSound, [Next]_vars
             PROVE  BooksSound'
  OBVIOUS
<1>1. CASE UNCHANGED <<books, lock, drafts>>
  BY <1>1 DEF BooksSound, BookSound, BookExplained, FillsAttributed, Locked, books, drafts
<1>2. ASSUME NEW s \in Sessions, RequestAction(s)
      PROVE  BooksSound'
  BY <1>2, RequestBooksSound
<1>3. CASE LockForFill \/ FillOrder \/ CancelUncovered \/ CommitSettle \/ AbortSettle
  <2> SUFFICES ASSUME NEW p \in Portfolios
               PROVE  /\ BookSound(status', cash'[p], held'[p], trades'[p], p)
                      /\ Locked(p)' => BookSound(draftStatus', draftCash'[p], draftHeld'[p], draftTrades'[p], p)
    BY DEF BooksSound
  <2>1. /\ BookSound(status, cash[p], held[p], trades[p], p)
        /\ Locked(p) => BookSound(draftStatus, draftCash[p], draftHeld[p], draftTrades[p], p)
    BY DEF BooksSound
  <2>2. BookKept(p) => BookSound(status', cash'[p], held'[p], trades'[p], p)
    <3>1. \A o \in Orders : BookKept(p) /\ o.portfolio = p => (status'[o] = "filled" <=> status[o] = "filled")
      BY DEF BookKept
    <3>2. BookKept(p) => BookSound(status', cash[p], held[p], trades[p], p)
      BY <2>1, <3>1, BookStatus
    <3>. QED
      BY <3>2 DEF BookKept
  <2>3. CASE LockForFill
    <3>1. BookKept(p) /\ (Locked(p)' => (Locked(p) /\ DraftKept(p)) \/ BookCopied(p))
      BY <2>3, LockForFillStep
    <3>2. Locked(p) /\ DraftKept(p) => BookSound(draftStatus', draftCash[p], draftHeld[p], draftTrades[p], p)
      BY <2>1, BookStatus DEF DraftKept
    <3>3. BookCopied(p) => BookSound(draftStatus', cash[p], held[p], trades[p], p)
      BY <2>1, BookStatus DEF BookCopied
    <3>. QED
      BY <2>2, <3>1, <3>2, <3>3 DEF DraftKept, BookCopied
  <2>4. CASE CommitSettle \/ AbortSettle
    <3>1. ~ Locked(p)' /\ (BookKept(p) \/ (Locked(p) /\ DraftPublished(p)))
      BY <2>4, EndSettleStep
    <3>2. Locked(p) /\ DraftPublished(p) => BookSound(status', draftCash[p], draftHeld[p], draftTrades[p], p)
      BY <2>1, BookStatus DEF DraftPublished
    <3>. QED
      BY <2>2, <3>1, <3>2 DEF DraftPublished
  <2>5. CASE FillOrder \/ CancelUncovered
    <3>1. BookKept(p) /\ (Locked(p)' <=> Locked(p)) /\ settle.order \in Orders
      BY <2>5, OrderAtHand DEF FillOrder, CancelUncovered, AtOrder, BookKept, Locked, books
    <3>2. CASE FillOrder /\ p = settle.order.portfolio
      BY <2>2, <3>1, <3>2, FillBooksSound
    <3>3. CASE ~ (FillOrder /\ p = settle.order.portfolio)
      <4>1. draftCash'[p] = draftCash[p] /\ draftHeld'[p] = draftHeld[p] /\ draftTrades'[p] = draftTrades[p]
        BY <2>5, <3>3 DEF FillOrder, CancelUncovered, Coherent, TypeOK
      <4>2. \A o \in Orders : o.portfolio = p => (draftStatus'[o] = "filled" <=> draftStatus[o] = "filled")
        BY <2>5, <3>1, <3>3 DEF FillOrder, CancelUncovered, StillPending, Coherent, TypeOK
      <4>3. Locked(p) => BookSound(draftStatus', draftCash[p], draftHeld[p], draftTrades[p], p)
        BY <2>1, <4>2, BookStatus
      <4>. QED
        BY <2>2, <3>1, <4>1, <4>3
    <3>. QED
      BY <3>2, <3>3
  <2>. QED
    BY <1>3, <2>3, <2>4, <2>5
<1>4. CASE MarketStep \/ DropOrder \/ UNCHANGED vars
           \/ (\E fresh \in SUBSET Tickers : BeginSettle(fresh))
           \/ (\E o \in Orders : LeavePending(o) \/ PriceOrder(o))
           \/ BatchReadRates \/ \E s \in Sessions : ReadRates(s)
  BY <1>1, <1>4, WorklistStep
<1>. QED
  BY <1>2, <1>3, <1>4 DEF Next, BatchStep, RequestStep, RequestAction

LEMMA AlwaysBooksSound == Spec => []BooksSound
BY InitBooksSound, StepBooksSound, AlwaysCoherent, AlwaysStatusesSound, PTL DEF Spec

\* Every cash balance and every position equals what the trade rows of the portfolio
\* add up to, so the trade.executed events written with them lose and repeat nothing:
\* for any interleaving of requests with the settlement, its crashes and re-runs.
THEOREM BookExplainedByTrades == Spec => []TradesExplainBook
<1>1. BooksSound => TradesExplainBook
  BY DEF BooksSound, BookSound, BookExplained, TradesExplainBook, Buys, Sells, UsdOf, QtyOf,
     RowsOf, RowsIn, Usd, Qty
<1>. QED
  BY <1>1, AlwaysBooksSound, PTL

\* An order is filled by exactly one trade row, and no trade row carries an order
\* that is not filled, however often a settlement dies and is run again.
THEOREM OneTradeForEachFill == Spec => []OneTradePerFill
<1>1. BooksSound => OneTradePerFill
  BY OrdersAssumption DEF BooksSound, BookSound, FillsAttributed, OneTradePerFill
<1>. QED
  BY <1>1, AlwaysBooksSound, PTL

-----------------------------------------------------------------------------
(* Cash reservations, while no FX rate moves.                                *)

RateKept == rate' = rate

\* What one order, and the pending buys of a book, reserve at the latest rates.
Reservation == BuyReservation(LatestRates)
Promised(st, p, X) == ReservedCash(LatestRates, st, p, X)

\* The rates that have been read are the latest.
QuotesCurrent == \A o \in Orders : quoted[o] # 0 => quoted[o] = rate[o.ticker]

CashBacked ==
  /\ QuotesCurrent
  /\ \A p \in Portfolios :
       /\ Promised(status, p, {}) <= cash[p]
       /\ Locked(p) => Promised(draftStatus, p, {}) <= draftCash[p]

LEMMA BuyReservationType ==
  ASSUME TypeOK
  PROVE  \A o \in Orders : Reservation[o] \in Nat
<1> TAKE o \in Orders
<1>1. o.qty \in Nat /\ o.limit \in Nat /\ LatestRates[o] \in Nat
  BY OrdersAssumption, QuotesAssumption DEF TypeOK, LatestRates
<1>. QED
  BY <1>1, CostType DEF BuyReservation, Reservation

LEMMA PromisedType ==
  ASSUME TypeOK, NEW st, NEW p, NEW X
  PROVE  Promised(st, p, X) \in Nat
<1>1. IsFiniteSet(PendingBuys(st, p) \ X) /\ PendingBuys(st, p) \ X \subseteq Orders
  BY OrdersAssumption, FS_Subset DEF PendingBuys
<1>. QED
  BY <1>1, BuyReservationType, TallyType DEF Promised, ReservedCash, Reservation

\* Claims priced at rates that are the latest are priced at the latest rates.
LEMMA QuotedPromise ==
  ASSUME QuotesCurrent, NEW st, NEW p, NEW X,
         \A o \in PendingBuys(st, p) \ X : quoted[o] # 0
  PROVE  ReservedCash(quoted, st, p, X) = Promised(st, p, X)
<1>1. \A o \in PendingBuys(st, p) \ X : BuyReservation(quoted)[o] = BuyReservation(LatestRates)[o]
  BY DEF QuotesCurrent, BuyReservation, LatestRates, PendingBuys
<1>. QED
  BY <1>1, TallyCongruent DEF ReservedCash, Promised

\* Fewer pending buys reserve less cash.
LEMMA FewerBuys ==
  ASSUME TypeOK, NEW st, NEW st2, NEW p, NEW X, NEW X2,
         PendingBuys(st2, p) \ X2 \subseteq PendingBuys(st, p) \ X
  PROVE  Promised(st2, p, X2) <= Promised(st, p, X)
<1> DEFINE S == PendingBuys(st, p) \ X
<1>1. IsFiniteSet(S) /\ S \subseteq Orders
  BY OrdersAssumption, FS_Subset DEF PendingBuys
<1>. QED
  BY <1>1, BuyReservationType, TallyMonotone DEF Promised, ReservedCash, Reservation

\* Leaving out the pending buy o takes exactly its reservation off the sum.
LEMMA OneBuyLess ==
  ASSUME TypeOK, NEW st, NEW p, NEW o \in PendingBuys(st, p)
  PROVE  Promised(st, p, {}) = Promised(st, p, {o}) + Reservation[o]
<1>1. IsFiniteSet(PendingBuys(st, p)) /\ PendingBuys(st, p) \subseteq Orders
  BY OrdersAssumption, FS_Subset DEF PendingBuys
<1>2. PendingBuys(st, p) \ {} = PendingBuys(st, p)
  OBVIOUS
<1>. QED
  BY <1>1, <1>2, BuyReservationType, TallyRemove DEF Promised, ReservedCash, Reservation

\* The reservation depends on the statuses of the portfolio's own orders.
LEMMA ReservationKept ==
  ASSUME NEW st, NEW st2, NEW p, NEW X,
         \A o \in Orders : o.portfolio = p => st2[o] = st[o]
  PROVE  Promised(st2, p, X) = Promised(st, p, X)
<1>1. PendingBuys(st2, p) = PendingBuys(st, p)
  BY DEF PendingBuys
<1>. QED
  BY <1>1 DEF Promised, ReservedCash

\* With the rates kept, the next state's reservations are those of its statuses.
LEMMA BackedNext ==
  ASSUME RateKept, QuotesCurrent',
         \A p \in Portfolios :
           /\ Promised(status', p, {}) <= cash'[p]
           /\ Locked(p)' => Promised(draftStatus', p, {}) <= draftCash'[p]
  PROVE  CashBacked'
BY DEF RateKept, CashBacked, Promised, ReservedCash, PendingBuys, BuyReservation, LatestRates

LEMMA InitCashBacked == Init => CashBacked
<1> SUFFICES ASSUME Init, NEW p \in Portfolios
             PROVE  Promised(status, p, {}) <= cash[p] /\ ~ Locked(p)
  BY DEF CashBacked, QuotesCurrent, Init
<1>1. PendingBuys(status, p) \ {} = {}
  BY DEF Init, PendingBuys
<1>2. Promised(status, p, {}) = 0
  BY <1>1, TallyEmpty DEF Promised, ReservedCash
<1>. QED
  BY <1>2, QuotesAssumption, HoldersAssumption DEF Init, Locked

\* The request's own book: what it spends or promises, it found available under the lock.
LEMMA OwnBookBacked ==
  ASSUME Coherent, Coherent', CashBacked, NEW s \in Sessions, Decide(s)
  PROVE  LET p == PortfolioOf(s) IN Promised(status', p, {}) <= cash'[p]
<1> DEFINE p == PortfolioOf(s)
           x == req[s].intent
           R == Promised(status, p, {})
           R2 == Promised(status', p, {})
<1>1. /\ p \in Portfolios /\ p = x.portfolio /\ req[s].cash = cash[p]
      /\ R \in Nat /\ cash[p] \in Nat /\ R <= cash[p]
  BY ServedRequest, PromisedType DEF Coherent, TypeOK, CashBacked, PortfolioOf
<1>8. ASSUME x.side = "buy", req[s].kind # "cancel", ClaimsPriced(s)
      PROVE  ReservedCash(quoted, status, p, {}) = R
  BY <1>8, QuotedPromise DEF ClaimsPriced, ToPrice, CashBacked
<1>2. CASE MarketBuy(s) \/ MarketSell(s)
  <2>1. MarketCost(s) \in Nat /\ x.side \in Sides
    BY <1>2, ServedRequest, CostType, MarketsAssumption, QuotesAssumption
       DEF Decide, MarketBuy, MarketSell, MarketCost
  <2>2. R2 = R
    BY <1>2 DEF MarketBuy, MarketSell
  <2>3. MarketBuy(s) => cash'[p] = cash[p] - MarketCost(s) /\ MarketCost(s) + R <= cash[p]
    BY <1>1, <1>8 DEF MarketBuy, Admitted, Serving, CashCovers, PortfolioOf, Coherent, TypeOK
  <2>4. MarketSell(s) => cash'[p] = cash[p] + MarketCost(s)
    BY <1>1 DEF MarketSell, PortfolioOf, Coherent, TypeOK
  <2> HIDE DEF R, R2, p
  <2>5. R2 <= cash'[p]
    BY <1>1, <1>2, <2>1, <2>2, <2>3, <2>4
  <2>. QED
    BY <2>5 DEF R2, p
<1>3. CASE PlaceOrder(s) \/ CancelOrder(s)
  <2>1. x \in Orders /\ cash' = cash
    BY <1>3, ServedRequest DEF Decide, PlaceOrder, CancelOrder
  <2>2. CASE x \in PendingBuys(status', p)
    <3>1. PlaceOrder(s) /\ x.side = "buy"
      BY <1>3, <2>1, <2>2 DEF CancelOrder, PendingBuys, Coherent, TypeOK
    <3>2. Reservation[x] + R <= cash[p]
      <4>1. BuyReservation(quoted)[x] + R <= cash[p]
        BY <1>1, <1>8, <3>1 DEF PlaceOrder, Admitted, Serving, CashCovers, PortfolioOf
      <4>2. quoted[x] = LatestRates[x]
        BY <2>1, <3>1 DEF PlaceOrder, Serving, ClaimsPriced, ToPrice, CashBacked, QuotesCurrent,
           LatestRates
      <4>. QED
        BY <2>1, <4>1, <4>2 DEF BuyReservation, Reservation
    <3> DEFINE R3 == Promised(status', p, {x})
    <3>3. R2 = R3 + Reservation[x]
      BY <2>2, OneBuyLess DEF Coherent
    <3>4. PendingBuys(status', p) \ {x} \subseteq PendingBuys(status, p) \ {}
      BY <2>1, <3>1 DEF PlaceOrder, PendingBuys, Coherent, TypeOK
    <3>5. R3 <= R
      BY <3>4, FewerBuys DEF Coherent
    <3>6. R3 \in Nat /\ Reservation[x] \in Nat
      BY <2>1, PromisedType, BuyReservationType DEF Coherent
    <3> DEFINE own == Reservation[x]
    <3>7. R2 = R3 + own /\ own + R <= cash[p] /\ own \in Nat
      BY <3>2, <3>3, <3>6
    <3> HIDE DEF R, R2, R3, own, p
    <3>8. R2 <= cash[p]
      BY <1>1, <3>5, <3>6, <3>7
    <3>. QED
      BY <2>1, <3>8 DEF R2, p
  <2>3. CASE x \notin PendingBuys(status', p)
    <3>1. PendingBuys(status', p) \ {} \subseteq PendingBuys(status, p) \ {}
      BY <1>3, <2>1, <2>3 DEF PlaceOrder, CancelOrder, PendingBuys, Coherent, TypeOK
    <3>2. R2 <= R
      BY <3>1, FewerBuys DEF Coherent
    <3>4. R2 \in Nat
      BY PromisedType DEF Coherent
    <3> HIDE DEF R, R2, p
    <3>3. R2 <= cash[p]
      BY <1>1, <3>2, <3>4
    <3>. QED
      BY <2>1, <3>3 DEF R2, p
  <2>. QED
    BY <2>2, <2>3
<1>4. CASE Reject(s)
  BY <1>1, <1>4 DEF Reject, books
<1>. QED
  BY <1>2, <1>3, <1>4 DEF Decide

LEMMA RequestCashBacked ==
  ASSUME Coherent, Coherent', CashBacked, QuotesCurrent', RateKept, NEW s \in Sessions,
         RequestAction(s)
  PROVE  CashBacked'
<1> SUFFICES ASSUME NEW p \in Portfolios
             PROVE  /\ Promised(status', p, {}) <= cash'[p]
                    /\ Locked(p)' => Promised(draftStatus', p, {}) <= draftCash'[p]
  BY BackedNext
<1>1. Locked(p)' => Promised(draftStatus', p, {}) <= draftCash'[p]
  BY RequestIsolated DEF CashBacked, drafts
<1>2. CASE Decide(s) /\ p = PortfolioOf(s)
  BY <1>1, <1>2, OwnBookBacked
<1>3. CASE ~ (Decide(s) /\ p = PortfolioOf(s))
  <2>1. BookKept(p)
    <3>1. CASE MarketBuy(s) \/ MarketSell(s) \/ PlaceOrder(s) \/ CancelOrder(s)
      <4>1. Decide(s) /\ p # PortfolioOf(s)
        BY <1>3, <3>1 DEF Decide
      <4>. QED
        BY <3>1, <4>1 DEF MarketBuy, MarketSell, PlaceOrder, CancelOrder, BookKept, PortfolioOf,
           Coherent, TypeOK
    <3>2. CASE ~ (MarketBuy(s) \/ MarketSell(s) \/ PlaceOrder(s) \/ CancelOrder(s))
      BY <3>2 DEF RequestAction, BeginStep, BeginMarket, BeginPlace, BeginCancel, LockPortfolio,
         Decide, Reject, Abort, BookKept, books
    <3>. QED
      BY <3>1, <3>2
  <2>2. Promised(status', p, {}) = Promised(status, p, {})
    BY <2>1, ReservationKept DEF BookKept
  <2>. QED
    BY <1>1, <2>1, <2>2 DEF BookKept, CashBacked
<1>. QED
  BY <1>2, <1>3

LEMMA FillCashBacked ==
  ASSUME Coherent, Coherent', CashBacked, QuotesCurrent', RateKept, FillOrder \/ CancelUncovered
  PROVE  CashBacked'
<1> DEFINE o == settle.order
<1>1. /\ o \in Orders /\ o.portfolio \in Portfolios /\ o.side \in Sides
      /\ FillCost \in Nat
      /\ UNCHANGED <<status, cash, lock>>
  BY OrderAtHand DEF FillOrder, CancelUncovered, AtOrder, books
<1> SUFFICES ASSUME NEW p \in Portfolios, Locked(p)
             PROVE  Promised(draftStatus', p, {}) <= draftCash'[p]
  BY <1>1, BackedNext DEF CashBacked, Locked
<1> DEFINE R == Promised(draftStatus, p, {})
           R2 == Promised(draftStatus', p, {})
           R3 == Promised(draftStatus, p, {o})
           d == draftCash[p]
           d2 == draftCash'[p]
<1>2. /\ R \in Nat /\ R2 \in Nat /\ R3 \in Nat /\ d \in Nat /\ d2 \in Nat /\ R <= d
  BY PromisedType DEF Coherent, TypeOK, CashBacked
<1>3. PendingBuys(draftStatus', p) \ {} \subseteq PendingBuys(draftStatus, p) \ {o}
  BY <1>1 DEF FillOrder, CancelUncovered, FillStatus, PendingBuys, Coherent, TypeOK
<1>4. R2 <= R3 /\ R2 <= R
  BY <1>3, FewerBuys DEF Coherent
<1>5. \/ d2 = d \/ d2 = d + FillCost
      \/ d2 = d - FillCost /\ FillCost + R3 <= d
  <2>1. CASE FillOrder /\ p = o.portfolio
    <3>1. draftCash' = [draftCash EXCEPT ![p] = IF o.side = "buy" THEN d - FillCost ELSE d + FillCost]
      BY <2>1 DEF FillOrder, Coherent, TypeOK
    <3>2. o.side = "buy" => FillCost + R3 <= d
      <4>1. o.side = "buy" => ReservedCash(quoted, draftStatus, p, {o}) = R3
        BY <2>1, QuotedPromise DEF FillOrder, OthersPriced, OthersToPrice, CashBacked
      <4>. QED
        BY <2>1, <4>1 DEF FillOrder, FillCovered, CashCovers
    <3>. QED
      BY <1>1, <3>1, <3>2 DEF Coherent, TypeOK
  <2>2. CASE ~ (FillOrder /\ p = o.portfolio)
    BY <2>2 DEF FillOrder, CancelUncovered, Coherent, TypeOK
  <2>. QED
    BY <2>1, <2>2
<1> HIDE DEF R, R2, R3, d, d2
<1>6. R2 <= d2
  BY <1>1, <1>2, <1>4, <1>5
<1>. QED
  BY <1>6 DEF R2, d2

LEMMA StepQuotesCurrent ==
  ASSUME Coherent, QuotesCurrent, [Next]_vars, RateKept
  PROVE  QuotesCurrent'
<1> DEFINE Moved == \/ UNCHANGED quoted
                    \/ \E h \in Sessions \cup {Settler} : quoted' = Forgotten(h)
                    \/ \E o \in Orders : quoted' = [quoted EXCEPT ![o] = rate[o.ticker]]
<1>1. Moved
  <2>1. CASE UNCHANGED vars
    BY <2>1 DEF vars
  <2>2. CASE MarketStep \/ (\E fresh \in SUBSET Tickers : BeginSettle(fresh))
             \/ (\E o \in Orders : LeavePending(o) \/ PriceOrder(o)) \/ LockForFill
    BY <2>2 DEF MarketStep, StoreBar, StoreRate, BeginSettle, LeavePending, PriceOrder, LockForFill
  <2>3. ASSUME NEW s \in Sessions, BeginStep(s) \/ LockPortfolio(s) \/ ReadRates(s)
        PROVE  Moved
    BY <2>3 DEF BeginStep, BeginMarket, BeginPlace, BeginCancel, LockPortfolio, ReadRates,
       ReadFxRate, PriceClaim
  <2>4. ASSUME NEW s \in Sessions, Decide(s) \/ Abort(s)
        PROVE  quoted' = Forgotten(s)
    BY <2>4 DEF Decide, MarketBuy, MarketSell, PlaceOrder, CancelOrder, Reject, Abort, Finish
  <2>5. CASE DropOrder \/ FillOrder \/ CancelUncovered \/ CommitSettle \/ AbortSettle
    BY <2>5 DEF DropOrder, FillOrder, CancelUncovered, CommitSettle, AbortSettle, NextOrder, EndSettle
  <2>6. CASE BatchReadRates
    BY <2>6 DEF BatchReadRates, ReadFillRate, PriceOtherClaim
  <2>. QED
    BY <2>1, <2>2, <2>3, <2>4, <2>5, <2>6 DEF Next, BatchStep, RequestStep
<1>. QED
  BY <1>1 DEF QuotesCurrent, RateKept, Forgotten, Coherent, TypeOK

LEMMA StepCashBacked ==
  Coherent /\ Coherent' /\ CashBacked /\ [Next]_vars /\ [RateKept]_vars => CashBacked'
<1> SUFFICES ASSUME Coherent, Coherent', CashBacked, [Next]_vars, [RateKept]_vars
             PROVE  CashBacked'
  OBVIOUS
<1>0. RateKept /\ QuotesCurrent'
  <2>1. RateKept
    BY DEF RateKept, vars, market
  <2>. QED
    BY <2>1, StepQuotesCurrent DEF CashBacked
<1>1. CASE UNCHANGED <<books, lock, drafts>>
  BY <1>0, <1>1, BackedNext DEF CashBacked, Locked, books, drafts
<1>2. ASSUME NEW s \in Sessions, RequestAction(s)
      PROVE  CashBacked'
  BY <1>0, <1>2, RequestCashBacked
<1>3. CASE FillOrder \/ CancelUncovered
  BY <1>0, <1>3, FillCashBacked
<1>4. CASE LockForFill \/ CommitSettle \/ AbortSettle
  <2> SUFFICES ASSUME NEW p \in Portfolios
               PROVE  /\ Promised(status', p, {}) <= cash'[p]
                      /\ Locked(p)' => Promised(draftStatus', p, {}) <= draftCash'[p]
    BY <1>0, BackedNext
  <2>1. BookKept(p) => Promised(status', p, {}) <= cash'[p]
    BY ReservationKept DEF BookKept, CashBacked
  <2>2. Locked(p) /\ DraftPublished(p) => Promised(status', p, {}) <= cash'[p]
    BY ReservationKept DEF DraftPublished, CashBacked
  <2>3. (Locked(p) /\ DraftKept(p)) \/ BookCopied(p) => Promised(draftStatus', p, {}) <= draftCash'[p]
    BY ReservationKept DEF DraftKept, BookCopied, CashBacked
  <2>. QED
    BY <1>4, <2>1, <2>2, <2>3, LockForFillStep, EndSettleStep
<1>5. CASE MarketStep \/ DropOrder \/ UNCHANGED vars
           \/ (\E fresh \in SUBSET Tickers : BeginSettle(fresh))
           \/ (\E o \in Orders : LeavePending(o) \/ PriceOrder(o))
           \/ BatchReadRates \/ \E s \in Sessions : ReadRates(s)
  BY <1>1, <1>5, WorklistStep
<1>. QED
  BY <1>2, <1>3, <1>4, <1>5 DEF Next, BatchStep, RequestStep, RequestAction

LEMMA AlwaysCashBacked == Spec /\ [][RateKept]_vars => []CashBacked
BY InitCashBacked, StepCashBacked, AlwaysCoherent, PTL DEF Spec

\* As long as no FX rate moves, the cash promised by the pending buys of a portfolio is in
\* its account, for every interleaving of market buys, new orders, cancels and settlement.
THEOREM CashSafe == Spec /\ [][RateKept]_vars => []CashPromisedIsThere
<1>1. CashBacked => CashPromisedIsThere
  BY DEF CashBacked, CashPromisedIsThere, Promised
<1>. QED
  BY <1>1, AlwaysCashBacked, PTL

-----------------------------------------------------------------------------
(* While no FX rate moves, the settlement cancels nothing.                   *)

\* The batch prices the order at hand with the rate that the reservation uses.
BatchRateCurrent ==
  IF settle.order = None THEN settle.rate = 0
  ELSE settle.rate \in {0, rate[settle.order.ticker]}

\* So priced, it has cancelled no order of a portfolio it holds.
BatchCancelsNothing ==
  /\ BatchRateCurrent
  /\ \A o \in Orders :
       Locked(o.portfolio) /\ draftStatus[o] = "cancelled" => status[o] = "cancelled"

OwnerCancelled ==
  \A o \in Orders : status[o] = "pending" /\ status'[o] = "cancelled" =>
    \E s \in Sessions : Serving(s, "cancel") /\ req[s].intent = o

\* A dearer unit makes a dearer total.
LEMMA CostMonotone ==
  ASSUME NEW q \in Nat, NEW c \in Nat, NEW l \in Nat, c <= l, NEW r \in Nat
  PROVE  UsdCost(q, c, r) <= UsdCost(q, l, r)
<1> DEFINE d == l - c
<1>1. d \in Nat /\ l = c + d
  OBVIOUS
<1>2. q * c \in Nat /\ q * d \in Nat /\ q * l = q * c + q * d
  BY <1>1
<1>3. ASSUME NEW a \in Nat, NEW b \in Nat
      PROVE  a * r <= (a + b) * r
  <2>1. a * r \in Nat /\ b * r \in Nat /\ (a + b) * r = a * r + b * r
    OBVIOUS
  <2>. QED
    BY <2>1
<1>. QED
  BY <1>2, <1>3 DEF UsdCost

\* A triggered order still covers itself: its own reservation is in the sum of what the
\* account backs, and it fills at its limit or better.
LEMMA FillIsCovered ==
  ASSUME Coherent, SharesBacked, CashBacked, BatchCancelsNothing, AtOrder, StillPending,
         OthersPriced
  PROVE  FillCovered
<1> DEFINE o == settle.order
           p == o.portfolio
<1>1. /\ o \in Orders /\ p \in Portfolios /\ o.ticker \in Tickers
      /\ o.side \in Sides /\ o.qty \in Nat /\ FillCost \in Nat
      /\ Locked(p) /\ p \in Holder(Settler) /\ draftStatus[o] = "pending"
  BY OrderAtHand DEF AtOrder, Locked, Holder, StillPending
<1>2. CASE o.side = "buy"
  <2>1. FillCost <= Reservation[o]
    <3>1. settle.close \in Nat /\ settle.rate \in Nat /\ o.limit \in Nat /\ o.qty \in Nat
      <4>1. settle.close \in Closes /\ settle.rate \in Rates
        BY DEF AtOrder, Coherent, TypeOK, Batches, BatchCoherent
      <4>. QED
        BY <1>1, <4>1, OrdersAssumption, QuotesAssumption
    <3>2. settle.close <= o.limit
      BY <1>1, <1>2, OrdersAssumption DEF AtOrder, Coherent, BatchCoherent, ShouldFill, OrderTypes
    <3>3. settle.rate = rate[o.ticker]
      BY DEF AtOrder, BatchCancelsNothing, BatchRateCurrent
    <3>. QED
      BY <1>1, <3>1, <3>2, <3>3, CostMonotone DEF FillCost, BuyReservation, Reservation, LatestRates
  <2> DEFINE R == Promised(draftStatus, p, {})
             R3 == Promised(draftStatus, p, {o})
             own == Reservation[o]
  <2>2. o \in PendingBuys(draftStatus, p)
    BY <1>1, <1>2 DEF PendingBuys
  <2>3. R = R3 + own
    BY <2>2, OneBuyLess DEF Coherent
  <2>4. R <= draftCash[p] /\ R3 \in Nat /\ own \in Nat /\ draftCash[p] \in Nat
    BY <1>1, PromisedType, BuyReservationType DEF Coherent, TypeOK, CashBacked
  <2>7. ReservedCash(quoted, draftStatus, p, {o}) = R3
    BY <1>2, QuotedPromise DEF OthersPriced, OthersToPrice, CashBacked
  <2>5. FillCost <= own
    BY <2>1
  <2> HIDE DEF R, R3, own, p
  <2>6. FillCost + R3 <= draftCash[p]
    BY <1>1, <2>3, <2>4, <2>5
  <2>. QED
    BY <1>2, <2>6, <2>7 DEF FillCovered, CashCovers, R3, p
<1>3. CASE o.side = "sell"
  <2> DEFINE R == ReservedShares(draftStatus, p, o.ticker, {})
             R3 == ReservedShares(draftStatus, p, o.ticker, {o})
  <2>1. o \in PendingSells(draftStatus, p, o.ticker)
    BY <1>1, <1>3 DEF PendingSells
  <2>2. R = R3 + o.qty
    BY <2>1, OneSellLess
  <2>3. R <= draftHeld[p][o.ticker] /\ R3 \in Nat
    BY <1>1, ReservationType DEF Coherent, SharesBacked
  <2> HIDE DEF R, R3
  <2>4. o.qty + R3 <= draftHeld[p][o.ticker]
    BY <1>1, <2>2, <2>3
  <2>. QED
    BY <1>3, <2>4 DEF FillCovered, SharesCover, R3
<1>. QED
  BY <1>1, <1>2, <1>3 DEF Sides

LEMMA InitBatchCancelsNothing == Init => BatchCancelsNothing
BY DEF Init, NoBatch, BatchCancelsNothing, BatchRateCurrent

LEMMA StepBatchCancelsNothing ==
  Coherent /\ SharesBacked /\ CashBacked /\ BatchCancelsNothing /\ [Next]_vars /\ [RateKept]_vars
    => BatchCancelsNothing' /\ OwnerCancelled
<1> SUFFICES ASSUME Coherent, SharesBacked, CashBacked, BatchCancelsNothing, [Next]_vars, [RateKept]_vars
             PROVE  BatchCancelsNothing' /\ OwnerCancelled
  OBVIOUS
<1>0. UNCHANGED rate /\ \A o \in Orders : o.portfolio \in Portfolios
  BY OrdersAssumption DEF RateKept, vars, market
<1>1. CASE UNCHANGED <<books, lock, drafts, settle>>
  BY <1>0, <1>1 DEF BatchCancelsNothing, BatchRateCurrent, OwnerCancelled, Locked, books, drafts
<1>2. ASSUME NEW s \in Sessions, RequestAction(s)
      PROVE  BatchCancelsNothing' /\ OwnerCancelled
  <2>1. BatchCancelsNothing'
    BY <1>0, <1>2, RequestIsolated DEF BatchCancelsNothing, BatchRateCurrent, BookKept, drafts
  <2>2. OwnerCancelled
    BY <1>2 DEF RequestAction, BeginStep, BeginMarket, BeginPlace, BeginCancel, LockPortfolio,
       Decide, MarketBuy, MarketSell, PlaceOrder, CancelOrder, Reject, Abort, books,
       OwnerCancelled, Coherent, TypeOK
  <2>. QED
    BY <2>1, <2>2
<1>3. ASSUME NEW o \in Orders, LeavePending(o) \/ PriceOrder(o)
      PROVE  BatchCancelsNothing' /\ OwnerCancelled
  <2>1. UNCHANGED <<books, lock, drafts>>
    BY <1>3 DEF LeavePending, PriceOrder
  <2>2. BatchRateCurrent'
    BY <1>3 DEF LeavePending, PriceOrder, NextInBatch, BatchCancelsNothing, BatchRateCurrent,
       Coherent, TypeOK, Batches
  <2>. QED
    BY <1>0, <2>1, <2>2 DEF BatchCancelsNothing, BatchRateCurrent, OwnerCancelled, Locked, books, drafts
<1>4. CASE \E fresh \in SUBSET Tickers : BeginSettle(fresh)
  <2>1. UNCHANGED <<books, lock, drafts>> /\ settle'.order = None /\ settle'.rate = 0
    BY <1>4 DEF BeginSettle, NoBatch
  <2>. QED
    BY <2>1 DEF BatchCancelsNothing, BatchRateCurrent, OwnerCancelled, Locked, books, drafts
<1>5. CASE LockForFill
  <2>1. UNCHANGED <<status, settle>>
    BY <1>5 DEF LockForFill, books
  <2>2. \A o \in Orders : Locked(o.portfolio)' /\ draftStatus'[o] = "cancelled" => status[o] = "cancelled"
    BY <1>0, <1>5, LockForFillStep DEF BatchCancelsNothing, DraftKept, BookCopied
  <2>. QED
    BY <1>0, <2>1, <2>2 DEF BatchCancelsNothing, BatchRateCurrent, OwnerCancelled
<1>6. CASE DropOrder \/ FillOrder \/ CancelUncovered
  <2>1. ~ CancelUncovered
    BY FillIsCovered DEF CancelUncovered
  <2>2. UNCHANGED <<status, lock>> /\ settle'.order = None /\ settle'.rate = 0
    BY <1>6 DEF DropOrder, FillOrder, CancelUncovered, NextOrder, books, Coherent, TypeOK, Batches
  <2>3. \A o \in Orders : draftStatus'[o] = "cancelled" => draftStatus[o] = "cancelled"
    BY <1>6, <2>1 DEF DropOrder, FillOrder, FillStatus, drafts, Coherent, TypeOK
  <2>. QED
    BY <2>2, <2>3 DEF BatchCancelsNothing, BatchRateCurrent, OwnerCancelled, Locked
<1>7. CASE CommitSettle \/ AbortSettle
  <2>1. settle'.order = None /\ settle'.rate = 0 /\ \A p \in Portfolios : ~ Locked(p)'
    BY <1>7, EndSettleStep DEF CommitSettle, AbortSettle, EndSettle, NoBatch
  <2>2. \A o \in Orders : status'[o] = "cancelled" => status[o] = "cancelled"
    BY <1>0, <1>7, EndSettleStep DEF BatchCancelsNothing, BookKept, DraftPublished
  <2>. QED
    BY <1>0, <2>1, <2>2 DEF BatchCancelsNothing, BatchRateCurrent, OwnerCancelled
<1>8. CASE MarketStep \/ UNCHANGED vars
  BY <1>1, <1>8 DEF MarketStep, StoreBar, StoreRate, vars
<1>9. CASE BatchReadRates \/ \E s \in Sessions : ReadRates(s)
  <2>1. UNCHANGED <<books, lock, drafts>>
    BY <1>9, WorklistStep
  <2>2. BatchRateCurrent'
    <3>1. settle \in Batches
      BY DEF Coherent, TypeOK
    <3>2. CASE ReadFillRate
      BY <1>0, <3>1, <3>2 DEF ReadFillRate, BatchRateCurrent, Batches
    <3>3. CASE ~ ReadFillRate
      <4>1. UNCHANGED settle
        BY <1>9, <3>3 DEF BatchReadRates, PriceOtherClaim, ReadRates, ReadFxRate, PriceClaim
      <4>. QED
        BY <1>0, <4>1 DEF BatchCancelsNothing, BatchRateCurrent
    <3>. QED
      BY <3>2, <3>3
  <2>. QED
    BY <1>0, <2>1, <2>2 DEF BatchCancelsNothing, BatchRateCurrent, OwnerCancelled, Locked, books, drafts
<1>. QED
  BY <1>2, <1>3, <1>4, <1>5, <1>6, <1>7, <1>8, <1>9 DEF Next, BatchStep, RequestStep, RequestAction

LEMMA AlwaysSharesBacked == Spec => []SharesBacked
BY InitSharesBacked, StepSharesBacked, AlwaysCoherent, PTL DEF Spec

\* As long as no FX rate moves, only its owner cancels an order: a triggered order is
\* always covered by the reservation taken when it was placed, whatever was traded,
\* placed and filled since, so the settlement's "insufficient" branch is never taken.
THEOREM OwnerCancelsOnly == Spec /\ [][RateKept]_vars => OnlyOwnerCancels
<1>1. Spec /\ [][RateKept]_vars => []BatchCancelsNothing
  BY InitBatchCancelsNothing, StepBatchCancelsNothing, AlwaysCoherent, AlwaysSharesBacked,
     AlwaysCashBacked, PTL DEF Spec
<1>2. Coherent /\ SharesBacked /\ CashBacked /\ BatchCancelsNothing /\ [Next]_vars /\ [RateKept]_vars =>
        [\A o \in Orders :
           status[o] = "pending" /\ status'[o] = "cancelled" =>
             \E s \in Sessions : Serving(s, "cancel") /\ req[s].intent = o]_vars
  BY StepBatchCancelsNothing DEF OwnerCancelled
<1>. QED
  BY <1>1, <1>2, AlwaysCoherent, AlwaysSharesBacked, AlwaysCashBacked, PTL DEF Spec, OnlyOwnerCancels

-----------------------------------------------------------------------------
(* The ledger implements AccountBook.  The variables have the same names, so *)
(* a committed book is its own abstract state; what has to be shown is that  *)
(* the step that commits is one step of the abstract book.                   *)

\* Both modules add up claims and trade rows with the same sum.
LEMMA SameTally ==
  ASSUME NEW f, NEW S
  PROVE  Book!Tally(f, S) = Tally(f, S)
BY DEF Book!Tally, Book!Units, Book!Cardinality, Tally, Units, Cardinality

\* Both number the trade rows alike.
LEMMA SameNumber ==
  ASSUME NEW p, NEW x, NEW usd, p = x.portfolio
  PROVE  Book!Booked(x, usd) = TradeRow(trades[p], None, x, usd)
<1>1. Book!Cardinality(trades[p]) = Cardinality(trades[p])
  BY DEF Book!Cardinality, Cardinality
<1>. QED
  BY <1>1 DEF Book!Booked, TradeRow

\* What a guard of the ledger calls available, once the claims are priced, is what the
\* abstract book leaves.
LEMMA SameClaims ==
  ASSUME NEW p, NEW t, NEW amount
  PROVE  /\ /\ CashCovers(status, p, cash[p], amount, {})
            /\ \A o \in PendingBuys(status, p) : quoted[o] # 0
            => Book!CashLeftFor(p, amount)
         /\ SharesCover(status, p, t, held[p][t], amount, {}) <=> Book!SharesLeftFor(p, t, amount)
<1>1. /\ PendingBuys(status, p) \ {} = Book!Buyers(p)
      /\ PendingSells(status, p, t) \ {}
           = {o \in Book!Pending : o.portfolio = p /\ o.ticker = t /\ o.side = "sell"}
  BY DEF PendingBuys, PendingSells, Book!Pending, Book!Buyers
<1>2. /\ BuyReservation(quoted) = Book!Claim
      /\ SellReservation = [o \in Orders |-> o.qty]
  BY DEF BuyReservation, SellReservation, UsdCost, Book!Claim
<1>3. /\ ReservedCash(quoted, status, p, {}) = Book!CashClaimed(p)
      /\ ReservedShares(status, p, t, {}) = Book!SharesClaimed(p, t)
  BY <1>1, <1>2, SameTally DEF ReservedCash, ReservedShares, Book!CashClaimed, Book!SharesClaimed
<1>. QED
  BY <1>1, <1>3 DEF CashCovers, SharesCover, Book!CashLeftFor, Book!SharesLeftFor

\* The draft of a locked book is the committed book with some of its pending orders
\* filled, each by a row at a price it allows, and some cancelled.
FilledRow(x, p) ==
  /\ x.order \in Orders /\ x.order.portfolio = p
  /\ status[x.order] = "pending" /\ draftStatus[x.order] = "filled"
  /\ Book!FillRow(x, x.order)

DraftExtends(p) ==
  /\ trades[p] \subseteq draftTrades[p]
  /\ \A x \in draftTrades[p] \ trades[p] : FilledRow(x, p)
  /\ \A o \in Orders : o.portfolio = p /\ draftStatus[o] # status[o] =>
       status[o] = "pending" /\ draftStatus[o] \in Terminal

DraftsExtend == \A p \in Portfolios : Locked(p) => DraftExtends(p)

LEMMA InitDraftsExtend == Init => DraftsExtend
BY HoldersAssumption DEF Init, DraftsExtend, Locked

\* An order filled by the batch adds a row at the close that triggered it.
LEMMA FillDraftExtends ==
  ASSUME Coherent, DraftsExtend, FillOrder, NEW p, p = settle.order.portfolio
  PROVE  DraftExtends(p)'
<1>0. PICK o : o = settle.order
  OBVIOUS
<1>1. o \in Orders /\ p \in Portfolios /\ p = o.portfolio /\ Locked(p) /\ o # None
  BY <1>0, OrderAtHand DEF FillOrder, AtOrder, Locked
<1>01. PICK row : row = TradeRow(draftTrades[p], o, o, FillCost)
  OBVIOUS
<1>2. DraftExtends(p) /\ UNCHANGED books
  BY <1>1 DEF DraftsExtend, FillOrder
<1>3. draftStatus[o] = "pending" /\ status[o] = "pending"
  BY <1>0, <1>1, <1>2 DEF FillOrder, StillPending, DraftExtends, Terminal
<1>4. /\ draftTrades'[p] = draftTrades[p] \cup {row}
      /\ draftStatus' = [draftStatus EXCEPT ![o] = "filled"]
      /\ draftStatus \in [Orders -> Statuses]
  BY <1>0, <1>1, <1>01 DEF FillOrder, FillStatus, Coherent, TypeOK
<1>5. Book!FillRow(row, o)
  <2>1. row.ticker = o.ticker /\ row.side = o.side /\ row.qty = o.qty /\ row.usd = FillCost
    BY <1>01 DEF TradeRow
  <2>2. /\ settle.close \in Closes /\ settle.rate \in Rates
        /\ ShouldFill(o, settle.close)
    BY <1>0, <1>1 DEF FillOrder, AtOrder, Coherent, TypeOK, Batches, BatchCoherent
  <2>3. Book!Honours(o, settle.close)
    BY <1>1, <2>2, OrdersAssumption DEF ShouldFill, Book!Honours, Sides
  <2>. QED
    BY <1>0, <2>1, <2>2, <2>3 DEF FillCost, UsdCost, Book!FillRow
<1>6. row.order = o
  BY <1>01 DEF TradeRow
<1>7. trades'[p] \subseteq draftTrades'[p]
  BY <1>2, <1>4 DEF DraftExtends, books
<1>8. ASSUME NEW x \in draftTrades'[p] \ trades'[p]
      PROVE  FilledRow(x, p)'
  <2>1. CASE x = row
    BY <1>1, <1>2, <1>3, <1>4, <1>5, <1>6, <2>1 DEF FilledRow, books
  <2>2. CASE x # row
    BY <1>2, <1>3, <1>4, <1>8, <2>2 DEF DraftExtends, FilledRow, books
  <2>. QED
    BY <2>1, <2>2
<1>9. ASSUME NEW y \in Orders, y.portfolio = p, draftStatus'[y] # status'[y]
      PROVE  status'[y] = "pending" /\ draftStatus'[y] \in Terminal
  BY <1>2, <1>3, <1>4, <1>9 DEF DraftExtends, Terminal, books
<1>. QED
  BY <1>7, <1>8, <1>9 DEF DraftExtends

LEMMA StepDraftsExtend ==
  Coherent /\ DraftsExtend /\ [Next]_vars => DraftsExtend'
<1> SUFFICES ASSUME Coherent, DraftsExtend, [Next]_vars, NEW p \in Portfolios, Locked(p)'
             PROVE  DraftExtends(p)'
  BY DEF DraftsExtend
<1>0. Locked(p) => DraftExtends(p)
  BY DEF DraftsExtend
<1>1. Locked(p) /\ BookKept(p) /\ DraftKept(p) => DraftExtends(p)'
  BY <1>0 DEF DraftExtends, FilledRow, BookKept, DraftKept
<1>2. ASSUME NEW s \in Sessions, RequestAction(s)
      PROVE  DraftExtends(p)'
  BY <1>1, <1>2, RequestIsolated DEF DraftKept, drafts
<1>3. CASE LockForFill
  <2>1. BookKept(p) /\ BookCopied(p) => DraftExtends(p)'
    BY DEF DraftExtends, FilledRow, BookKept, BookCopied
  <2>. QED
    BY <1>1, <1>3, <2>1, LockForFillStep
<1>4. CASE FillOrder
  <2>1. CASE p = settle.order.portfolio
    BY <1>4, <2>1, FillDraftExtends
  <2>2. CASE p # settle.order.portfolio
    BY <1>1, <1>4, <2>2 DEF FillOrder, BookKept, DraftKept, Locked, books, Coherent, TypeOK
  <2>. QED
    BY <2>1, <2>2
<1>5. CASE CancelUncovered
  <2>1. /\ UNCHANGED <<books, lock, draftCash, draftHeld, draftTrades>>
        /\ settle.order \in Orders /\ draftStatus[settle.order] = "pending"
        /\ draftStatus' = [draftStatus EXCEPT ![settle.order] = "cancelled"]
        /\ draftStatus \in [Orders -> Statuses]
    BY <1>5, OrderAtHand DEF CancelUncovered, AtOrder, StillPending, Coherent, TypeOK
  <2>. QED
    BY <1>0, <2>1 DEF DraftExtends, FilledRow, Locked, Terminal, books
<1>6. CASE CommitSettle \/ AbortSettle
  BY <1>6, EndSettleStep
<1>7. CASE MarketStep \/ DropOrder \/ UNCHANGED vars
           \/ (\E fresh \in SUBSET Tickers : BeginSettle(fresh))
           \/ (\E o \in Orders : LeavePending(o) \/ PriceOrder(o))
           \/ BatchReadRates \/ \E s \in Sessions : ReadRates(s)
  BY <1>1, <1>7, WorklistStep DEF BookKept, DraftKept, Locked, books, drafts
<1>. QED
  BY <1>2, <1>3, <1>4, <1>5, <1>6, <1>7 DEF Next, BatchStep, RequestStep, RequestAction

LEMMA AlwaysDraftsExtend == Spec => []DraftsExtend
BY InitDraftsExtend, StepDraftsExtend, AlwaysCoherent, PTL DEF Spec

\* S consists of old rows A and new rows B, whose amounts are f, that is g and h.
SplitAmounts(S, A, B, f, g, h) ==
  /\ S = A \cup B /\ A \cap B = {} /\ IsFiniteSet(A) /\ IsFiniteSet(B)
  /\ \A x \in A : g[x] \in Nat /\ f[x] = g[x]
  /\ \A x \in B : h[x] \in Nat /\ f[x] = h[x]

\* A sum over old and new rows.
LEMMA TallySplit ==
  ASSUME NEW S, NEW A, NEW B, NEW f, NEW g, NEW h, SplitAmounts(S, A, B, f, g, h)
  PROVE  /\ Tally(g, A) \in Nat /\ Tally(h, B) \in Nat
         /\ Tally(f, S) = Tally(g, A) + Tally(h, B)
<1>. /\ S = A \cup B /\ A \cap B = {} /\ IsFiniteSet(A) /\ IsFiniteSet(B)
     /\ \A x \in A : g[x] \in Nat /\ f[x] = g[x]
     /\ \A x \in B : h[x] \in Nat /\ f[x] = h[x]
  BY DEF SplitAmounts
<1>1. Tally(g, A) \in Nat /\ Tally(h, B) \in Nat
  BY TallyType
<1>2. Tally(f, A \cup B) = Tally(f, A) + Tally(f, B)
  <2>1. \A x \in A \cup B : f[x] \in Nat
    OBVIOUS
  <2>. QED
    BY <2>1, TallyUnion
<1>3. Tally(f, A) = Tally(g, A)
  BY TallyCongruent
<1>4. Tally(f, B) = Tally(h, B)
  BY TallyCongruent
<1>. QED
  BY <1>1, <1>2, <1>3, <1>4

\* The dollars and the shares of new rows are the difference they make to the log.
LEMMA NewRowsAdd ==
  ASSUME NEW rows, NEW more \in SUBSET TradeRows, IsFiniteSet(more), rows \subseteq more,
         NEW side, NEW t
  PROVE  LET new == more \ rows
         IN  /\ Tally(Usd(rows), RowsOf(rows, side)) \in Nat
             /\ Book!Dollars(new, side) \in Nat
             /\ Tally(Usd(more), RowsOf(more, side))
                  = Tally(Usd(rows), RowsOf(rows, side)) + Book!Dollars(new, side)
             /\ Tally(Qty(rows), RowsIn(rows, side, t)) \in Nat
             /\ Book!Shares(new, side, t) \in Nat
             /\ Tally(Qty(more), RowsIn(more, side, t))
                  = Tally(Qty(rows), RowsIn(rows, side, t)) + Book!Shares(new, side, t)
<1> DEFINE new == more \ rows
<1>1. /\ IsFiniteSet(rows) /\ IsFiniteSet(new)
      /\ \A x \in more : x.usd \in Nat /\ x.qty \in Nat
  BY FS_Subset DEF TradeRows
<1>2. /\ RowsOf(more, side) = RowsOf(rows, side) \cup {x \in new : x.side = side}
      /\ RowsIn(more, side, t)
           = RowsIn(rows, side, t) \cup {x \in new : x.side = side /\ x.ticker = t}
      /\ RowsOf(rows, side) \subseteq rows /\ RowsIn(rows, side, t) \subseteq rows
      /\ rows \cap new = {} /\ rows \subseteq more /\ new \subseteq more
  BY DEF RowsOf, RowsIn
<1>3. /\ Book!Dollars(new, side) = Tally([x \in new |-> x.usd], {x \in new : x.side = side})
      /\ Book!Shares(new, side, t)
           = Tally([x \in new |-> x.qty], {x \in new : x.side = side /\ x.ticker = t})
  BY SameTally DEF Book!Dollars, Book!Shares
<1>4. /\ \A x \in more : Usd(more)[x] \in Nat /\ Qty(more)[x] \in Nat
      /\ \A x \in rows : Usd(rows)[x] = Usd(more)[x] /\ Qty(rows)[x] = Qty(more)[x]
      /\ \A x \in new : /\ [y \in new |-> y.usd][x] = Usd(more)[x]
                        /\ [y \in new |-> y.qty][x] = Qty(more)[x]
  BY <1>1 DEF Usd, Qty
<1> HIDE DEF new
<1>5. /\ Tally(Usd(rows), RowsOf(rows, side)) \in Nat
      /\ Book!Dollars(new, side) \in Nat
      /\ Tally(Usd(more), RowsOf(more, side))
           = Tally(Usd(rows), RowsOf(rows, side)) + Book!Dollars(new, side)
  <2> DEFINE S == RowsOf(more, side)
             f == Usd(more)
             g == Usd(rows)
             h == [x \in new |-> x.usd]
             A == RowsOf(rows, side)
             B == {x \in new : x.side = side}
  <2>1. /\ S = A \cup B /\ A \cap B = {} /\ A \subseteq rows /\ B \subseteq new
        /\ \A x \in A : g[x] \in Nat /\ f[x] = g[x]
        /\ \A x \in B : h[x] \in Nat /\ f[x] = h[x]
    BY <1>2, <1>4
  <2>2. IsFiniteSet(A) /\ IsFiniteSet(B)
    BY <1>1, <2>1, FS_Subset
  <2>3. Book!Dollars(new, side) = Tally(h, B)
    BY <1>3
  <2> HIDE DEF S, f, g, h, A, B
  <2>4. /\ Tally(g, A) \in Nat /\ Tally(h, B) \in Nat
        /\ Tally(f, S) = Tally(g, A) + Tally(h, B)
    <3>1. SplitAmounts(S, A, B, f, g, h)
      BY <2>1, <2>2 DEF SplitAmounts
    <3>. QED
      BY <3>1, TallySplit
  <2>. QED
    BY <2>3, <2>4 DEF S, f, g, A
<1>6. /\ Tally(Qty(rows), RowsIn(rows, side, t)) \in Nat
      /\ Book!Shares(new, side, t) \in Nat
      /\ Tally(Qty(more), RowsIn(more, side, t))
           = Tally(Qty(rows), RowsIn(rows, side, t)) + Book!Shares(new, side, t)
  <2> DEFINE S == RowsIn(more, side, t)
             f == Qty(more)
             g == Qty(rows)
             h == [x \in new |-> x.qty]
             A == RowsIn(rows, side, t)
             B == {x \in new : x.side = side /\ x.ticker = t}
  <2>1. /\ S = A \cup B /\ A \cap B = {} /\ A \subseteq rows /\ B \subseteq new
        /\ \A x \in A : g[x] \in Nat /\ f[x] = g[x]
        /\ \A x \in B : h[x] \in Nat /\ f[x] = h[x]
    BY <1>2, <1>4
  <2>2. IsFiniteSet(A) /\ IsFiniteSet(B)
    BY <1>1, <2>1, FS_Subset
  <2>3. Book!Shares(new, side, t) = Tally(h, B)
    BY <1>3
  <2> HIDE DEF S, f, g, h, A, B
  <2>4. /\ Tally(g, A) \in Nat /\ Tally(h, B) \in Nat
        /\ Tally(f, S) = Tally(g, A) + Tally(h, B)
    <3>1. SplitAmounts(S, A, B, f, g, h)
      BY <2>1, <2>2 DEF SplitAmounts
    <3>. QED
      BY <3>1, TallySplit
  <2>. QED
    BY <2>3, <2>4 DEF S, f, g, A
<1>. QED
  BY <1>5, <1>6 DEF new

\* What the commit of a batch does to one book.
LEMMA CommittedBook ==
  ASSUME Coherent, DraftsExtend, CommitSettle, NEW p \in Portfolios
  PROVE  /\ trades[p] \subseteq trades'[p]
         /\ \A x \in trades'[p] \ trades[p] :
              /\ x.order \in Orders /\ x.order.portfolio = p
              /\ status[x.order] = "pending" /\ status'[x.order] = "filled"
              /\ Book!FillRow(x, x.order)
         /\ \A o \in Orders : o.portfolio = p /\ status'[o] # status[o] =>
              status[o] = "pending" /\ status'[o] \in Terminal
<1>1. CASE BookKept(p)
  BY <1>1 DEF BookKept
<1>2. CASE Locked(p) /\ DraftPublished(p)
  BY <1>2 DEF DraftsExtend, DraftExtends, FilledRow, DraftPublished
<1>. QED
  BY <1>1, <1>2, EndSettleStep

\* The orders of p that the commit fills.
FilledAtCommit(p) ==
  {o \in Orders : o.portfolio = p /\ status[o] = "pending" /\ status'[o] = "filled"}

\* The commit settles book p: one row for each filled order, and a balance that moved
\* by what these rows say.
LEMMA CommitSettlesBook ==
  ASSUME Coherent, Coherent', BooksSound, BooksSound', DraftsExtend, CommitSettle,
         NEW p \in Portfolios
  PROVE  Book!SettleBook(p, FilledAtCommit(p))
<1> DEFINE old == trades[p]
           all == trades'[p]
           new == all \ old
<1>1. /\ old \subseteq all
      /\ \A x \in new : /\ x.order \in FilledAtCommit(p)
                        /\ Book!FillRow(x, x.order)
  BY CommittedBook DEF FilledAtCommit
<1>2. /\ all \in SUBSET TradeRows /\ IsFiniteSet(all) /\ IsFiniteSet(old)
      /\ cash[p] \in Nat /\ cash'[p] \in Nat
      /\ \A t \in Tickers : held[p][t] \in Nat /\ held'[p][t] \in Nat
  BY DEF Coherent, TypeOK
<1>3. /\ BookSound(status, cash[p], held[p], old, p)
      /\ BookSound(status', cash'[p], held'[p], all, p)
  BY DEF BooksSound
<1> HIDE DEF old, all
<1>4. ASSUME NEW o \in FilledAtCommit(p)
      PROVE  \E x \in new : x.order = o /\ \A y \in new : y.order = o => y = x
  <2> DEFINE A == {x \in old : x.order = o}
             B == {x \in all : x.order = o}
  <2>1. Cardinality(A) = 0 /\ Cardinality(B) = 1
    BY <1>3 DEF FilledAtCommit, BookSound, FillsAttributed
  <2>2. IsFiniteSet(A) /\ IsFiniteSet(B)
    BY <1>2, FS_Subset
  <2> HIDE DEF A, B
  <2>3. A = {} /\ \E x : B = {x}
    BY <2>1, <2>2, FS_EmptySet, FS_Singleton
  <2>. QED
    BY <2>3 DEF A, B
<1>5. {x.order : x \in new} = FilledAtCommit(p)
  BY <1>1, <1>4
<1>6. \A x, y \in new : x.order = y.order => x = y
  BY <1>1, <1>4
<1>7. cash'[p] + Book!Dollars(new, "buy") = cash[p] + Book!Dollars(new, "sell")
  <2> DEFINE spent == Tally(Usd(old), RowsOf(old, "buy"))
             earned == Tally(Usd(old), RowsOf(old, "sell"))
             spent2 == Tally(Usd(all), RowsOf(all, "buy"))
             earned2 == Tally(Usd(all), RowsOf(all, "sell"))
  <2>1. /\ spent \in Nat /\ Book!Dollars(new, "buy") \in Nat
        /\ spent2 = spent + Book!Dollars(new, "buy")
        /\ earned \in Nat /\ Book!Dollars(new, "sell") \in Nat
        /\ earned2 = earned + Book!Dollars(new, "sell")
    BY <1>1, <1>2, NewRowsAdd
  <2>2. /\ cash[p] + spent = StartCash + earned
        /\ cash'[p] + spent2 = StartCash + earned2
    BY <1>3 DEF BookSound, BookExplained
  <2>3. StartCash \in Nat
    BY QuotesAssumption
  <2> HIDE DEF spent, earned, spent2, earned2, new
  <2>. QED
    BY <1>2, <2>1, <2>2, <2>3
<1>8. ASSUME NEW t \in Tickers
      PROVE  held'[p][t] + Book!Shares(new, "sell", t) = held[p][t] + Book!Shares(new, "buy", t)
  <2> DEFINE bought == Tally(Qty(old), RowsIn(old, "buy", t))
             sold == Tally(Qty(old), RowsIn(old, "sell", t))
             bought2 == Tally(Qty(all), RowsIn(all, "buy", t))
             sold2 == Tally(Qty(all), RowsIn(all, "sell", t))
  <2>1. /\ bought \in Nat /\ Book!Shares(new, "buy", t) \in Nat
        /\ bought2 = bought + Book!Shares(new, "buy", t)
    BY <1>1, <1>2, NewRowsAdd
  <2>3. /\ sold \in Nat /\ Book!Shares(new, "sell", t) \in Nat
        /\ sold2 = sold + Book!Shares(new, "sell", t)
    BY <1>1, <1>2, NewRowsAdd
  <2>2. /\ held[p][t] + sold = bought
        /\ held'[p][t] + sold2 = bought2
    BY <1>3 DEF BookSound, BookExplained
  <2> HIDE DEF bought, sold, bought2, sold2, new
  <2>. QED
    BY <1>2, <2>1, <2>2, <2>3
<1>. QED
  BY <1>1, <1>5, <1>6, <1>7, <1>8 DEF Book!SettleBook, old, all

\* Ending a transaction forgets the rates read under its locks.
LEMMA ForgottenIsForget ==
  ASSUME NEW h, quoted' = Forgotten(h)
  PROVE  \E O \in SUBSET Orders : Book!Forget(O)
<1> DEFINE O == {o \in Orders : lock[o.portfolio] = h}
<1>1. Book!Forget(O)
  BY DEF Forgotten, Book!Forget
<1>. QED
  BY <1>1

\* The request that is deciding holds the lock of its own book and of no other.
LocksOwned ==
  \A s \in Sessions, p \in Portfolios :
    lock[p] = s => req[s].stage = "locked" /\ PortfolioOf(s) = p

LEMMA InitLocksOwned == Init => LocksOwned
BY HoldersAssumption DEF Init, LocksOwned

LEMMA StepLocksOwned == Coherent /\ LocksOwned /\ [Next]_vars => LocksOwned'
<1> SUFFICES ASSUME Coherent, LocksOwned, [Next]_vars,
                    NEW z \in Sessions, NEW p \in Portfolios, lock'[p] = z
             PROVE  req'[z].stage = "locked" /\ req'[z].intent.portfolio = p
  BY DEF LocksOwned, PortfolioOf
<1>0. lock[p] = z => req[z].stage = "locked" /\ req[z].intent.portfolio = p
  BY DEF LocksOwned, PortfolioOf
<1>1. CASE UNCHANGED <<lock, req>>
  BY <1>0, <1>1
<1>2. ASSUME NEW s \in Sessions, BeginStep(s)
      PROVE  req'[z].stage = "locked" /\ req'[z].intent.portfolio = p
  BY <1>0, <1>2 DEF BeginStep, BeginMarket, BeginPlace, BeginCancel, Coherent, TypeOK
<1>3. ASSUME NEW s \in Sessions, LockPortfolio(s)
      PROVE  req'[z].stage = "locked" /\ req'[z].intent.portfolio = p
  <2>1. /\ lock' = [lock EXCEPT ![req[s].intent.portfolio] = s]
        /\ req[s].stage = "begun" /\ req[s] \in Requests /\ req[z] \in Requests
        /\ req' = [req EXCEPT ![s] = [req[s] EXCEPT !.stage = "locked", !.cash = RefreshedCash(s)]]
    BY <1>3 DEF LockPortfolio, PortfolioOf, Coherent, TypeOK
  <2>2. CASE z = s
    <3>1. lock[p] # s
      BY <1>0, <2>1, <2>2
    <3>. QED
      BY <2>1, <2>2, <3>1 DEF Requests, Coherent, TypeOK
  <2>3. CASE z # s
    BY <1>0, <2>1, <2>3 DEF Coherent, TypeOK
  <2>. QED
    BY <2>2, <2>3
<1>4. ASSUME NEW s \in Sessions, ReadRates(s)
      PROVE  req'[z].stage = "locked" /\ req'[z].intent.portfolio = p
  BY <1>0, <1>4 DEF ReadRates, ReadFxRate, PriceClaim, Coherent, TypeOK, Requests
<1>5. ASSUME NEW s \in Sessions, Decide(s) \/ Abort(s)
      PROVE  req'[z].stage = "locked" /\ req'[z].intent.portfolio = p
  <2>1. Finish(s)
    BY <1>5 DEF Decide, MarketBuy, MarketSell, PlaceOrder, CancelOrder, Reject, Abort
  <2>. QED
    BY <1>0, <2>1, HoldersAssumption DEF Finish, Released, Coherent, TypeOK
<1>6. CASE LockForFill \/ CommitSettle \/ AbortSettle
  BY <1>0, <1>6, HoldersAssumption
     DEF LockForFill, CommitSettle, AbortSettle, EndSettle, Released, Coherent, TypeOK
<1>7. CASE MarketStep \/ DropOrder \/ FillOrder \/ CancelUncovered \/ BatchReadRates
           \/ UNCHANGED vars \/ (\E fresh \in SUBSET Tickers : BeginSettle(fresh))
           \/ (\E o \in Orders : LeavePending(o) \/ PriceOrder(o))
  BY <1>1, <1>7 DEF MarketStep, StoreBar, StoreRate, DropOrder, FillOrder, CancelUncovered,
     BatchReadRates, ReadFillRate, PriceOtherClaim, BeginSettle, LeavePending, PriceOrder, vars
<1>. QED
  BY <1>2, <1>3, <1>4, <1>5, <1>6, <1>7 DEF Next, BatchStep, RequestStep

LEMMA AlwaysLocksOwned == Spec => []LocksOwned
BY InitLocksOwned, StepLocksOwned, AlwaysCoherent, PTL DEF Spec

\* A batch that commits is one settlement of the abstract book.
LEMMA CommitIsSettle ==
  ASSUME Coherent, Coherent', BooksSound, BooksSound', DraftsExtend, CommitSettle
  PROVE  Book!Next
<1> DEFINE filled == {o \in Book!Pending : status'[o] = "filled"}
           dropped == {o \in Book!Pending : status'[o] = "cancelled"}
<1>1. filled \in SUBSET Book!Pending /\ dropped \in SUBSET Book!Pending /\ filled \cap dropped = {}
  OBVIOUS
<1>2. status' = [o \in Orders |-> IF o \in filled THEN "filled"
                                  ELSE IF o \in dropped THEN "cancelled" ELSE status[o]]
  <2>1. /\ \A o \in Orders : status'[o] # status[o] =>
             status[o] = "pending" /\ status'[o] \in {"filled", "cancelled"}
        /\ status' \in [Orders -> Statuses]
    BY CommittedBook, OrdersAssumption DEF Terminal, Coherent, TypeOK
  <2>2. \A o \in Orders : status'[o] = IF o \in filled THEN "filled"
                                       ELSE IF o \in dropped THEN "cancelled" ELSE status[o]
    BY <2>1 DEF Book!Pending
  <2> HIDE DEF filled, dropped
  <2>. QED
    BY <2>1, <2>2
<1>3. cash' \in [Portfolios -> Nat] /\ held' \in [Portfolios -> [Tickers -> Nat]] /\ UNCHANGED rate
  BY DEF Coherent, TypeOK, CommitSettle, market
<1>4. ASSUME NEW p \in Portfolios
      PROVE  Book!SettleBook(p, {o \in filled : o.portfolio = p})
  <2>1. {o \in filled : o.portfolio = p} = FilledAtCommit(p)
    BY DEF FilledAtCommit, Book!Pending
  <2>. QED
    BY <2>1, CommitSettlesBook
<1>5. \E O \in SUBSET Orders : Book!Forget(O)
  BY ForgottenIsForget DEF CommitSettle, EndSettle
<1>6. Book!Settle(filled, dropped)
  BY <1>2, <1>3, <1>4, <1>5 DEF Book!Settle
<1> HIDE DEF filled, dropped
<1>. QED
  BY <1>1, <1>6 DEF Book!Next

\* A request that is served is one request of the abstract book, or is refused.
LEMMA ServedIsAtomic ==
  ASSUME Coherent, StatusesSound, LocksOwned, NEW s \in Sessions, Decide(s)
  PROVE  Book!Next \/ UNCHANGED Book!bookVars
<1> DEFINE m == req[s].intent
           usd == m.qty * req[s].close * req[s].rate
<1>1. /\ PortfolioOf(s) = m.portfolio /\ req[s].cash = cash[m.portfolio]
      /\ Serving(s, "market") => /\ m \in Markets
                                 /\ req[s].close \in Closes /\ req[s].rate \in Rates
      /\ Serving(s, "place") \/ Serving(s, "cancel") => m \in Orders
  BY ServedRequest DEF PortfolioOf
<1>2. MarketCost(s) = usd
  BY DEF MarketCost, UsdCost
<1>8. Book!Decided(m.portfolio)
  <2>1. quoted' = Forgotten(s)
    BY DEF Decide, MarketBuy, MarketSell, PlaceOrder, CancelOrder, Reject, Finish
  <2>2. \A o \in Orders : lock[o.portfolio] = s <=> o.portfolio = m.portfolio
    BY ServedRequest, OrdersAssumption DEF LocksOwned, PortfolioOf
  <2>. QED
    BY <2>1, <2>2 DEF Forgotten, Book!Decided, Book!Forget
<1>9. ASSUME m.side = "buy", req[s].kind # "cancel", ClaimsPriced(s)
      PROVE  \A o \in PendingBuys(status, m.portfolio) : quoted[o] # 0
  BY <1>1, <1>9 DEF ClaimsPriced, ToPrice
<1>3. CASE MarketBuy(s)
  <2>1. Serving(s, "market") /\ m.side = "buy" /\ Book!CashLeftFor(m.portfolio, usd)
    <3>1. CashCovers(status, m.portfolio, cash[m.portfolio], usd, {})
      BY <1>1, <1>2, <1>3 DEF MarketBuy, Admitted, Serving
    <3>. QED
      BY <1>3, <1>9, <3>1, SameClaims DEF MarketBuy, Serving
  <2>2. Book!Buy(m, usd)
    <3>1. Book!Booked(m, usd) = TradeRow(trades[m.portfolio], None, m, MarketCost(s))
      BY <1>2, SameNumber
    <3>2. /\ cash' = [cash EXCEPT ![m.portfolio] = cash[m.portfolio] - usd]
          /\ held' = [held EXCEPT ![m.portfolio][m.ticker] = held[m.portfolio][m.ticker] + m.qty]
          /\ trades' = [trades EXCEPT ![m.portfolio] = trades[m.portfolio] \cup {Book!Booked(m, usd)}]
          /\ UNCHANGED <<rate, status>>
      BY <1>1, <1>2, <1>3, <3>1 DEF MarketBuy, market
    <3>. QED
      BY <1>8, <2>1, <3>2 DEF Book!Buy
  <2>. QED
    BY <1>1, <2>1, <2>2 DEF Book!Next
<1>4. CASE MarketSell(s)
  <2>1. Serving(s, "market") /\ m.side = "sell" /\ Book!SharesLeftFor(m.portfolio, m.ticker, m.qty)
    <3>1. SharesCover(status, m.portfolio, m.ticker, held[m.portfolio][m.ticker], m.qty, {})
      BY <1>1, <1>4 DEF MarketSell, Admitted, Serving
    <3>. QED
      BY <1>4, <3>1, SameClaims DEF MarketSell
  <2>2. Book!Sell(m, usd)
    <3>1. Book!Booked(m, usd) = TradeRow(trades[m.portfolio], None, m, MarketCost(s))
      BY <1>2, SameNumber
    <3>2. /\ cash' = [cash EXCEPT ![m.portfolio] = cash[m.portfolio] + usd]
          /\ held' = [held EXCEPT ![m.portfolio][m.ticker] = held[m.portfolio][m.ticker] - m.qty]
          /\ trades' = [trades EXCEPT ![m.portfolio] = trades[m.portfolio] \cup {Book!Booked(m, usd)}]
          /\ UNCHANGED <<rate, status>>
      BY <1>1, <1>2, <1>4, <3>1 DEF MarketSell, market
    <3>. QED
      BY <1>8, <2>1, <3>2 DEF Book!Sell
  <2>. QED
    BY <1>1, <2>1, <2>2 DEF Book!Next
<1>5. CASE PlaceOrder(s)
  <2>1. Serving(s, "place") /\ m \in Orders
    BY <1>1, <1>5 DEF PlaceOrder
  <2>2. status[m] = "absent"
    BY <1>5 DEF PlaceOrder, Serving, StatusesSound, Placing
  <2>3. \/ m.side = "buy" /\ quoted[m] # 0 /\ Book!CashLeftFor(m.portfolio, Book!Claim[m])
        \/ m.side = "sell" /\ Book!SharesLeftFor(m.portfolio, m.ticker, m.qty)
    <3>1. BuyReservation(quoted)[m] = Book!Claim[m]
      BY <2>1 DEF BuyReservation, UsdCost, Book!Claim
    <3>3. m.side = "buy" => quoted[m] # 0
      BY <1>5 DEF PlaceOrder, Serving, ClaimsPriced, ToPrice
    <3>2. \/ m.side = "buy"
             /\ CashCovers(status, m.portfolio, cash[m.portfolio], BuyReservation(quoted)[m], {})
          \/ m.side = "sell"
             /\ SharesCover(status, m.portfolio, m.ticker, held[m.portfolio][m.ticker], m.qty, {})
      BY <1>1, <1>5 DEF PlaceOrder, Admitted, Serving
    <3>. QED
      BY <1>5, <1>9, <3>1, <3>2, <3>3, SameClaims DEF PlaceOrder, Serving
  <2>4. Book!Place(m)
    BY <1>5, <1>8, <2>2, <2>3 DEF PlaceOrder, market, Book!Place
  <2>. QED
    BY <2>1, <2>4 DEF Book!Next
<1>6. CASE CancelOrder(s)
  <2>1. m \in Orders /\ m \in Book!Pending
    BY <1>1, <1>6 DEF CancelOrder, Admitted, Serving, Book!Pending
  <2>2. Book!Cancel(m)
    BY <1>6, <1>8, <2>1 DEF CancelOrder, market, Book!Cancel
  <2>. QED
    BY <2>1, <2>2 DEF Book!Next
<1>7. CASE Reject(s)
  BY <1>7, ForgottenIsForget DEF Reject, Finish, market, books, Book!Next, Book!books
<1>. QED
  BY <1>3, <1>4, <1>5, <1>6, <1>7 DEF Decide

LEMMA StepIsBookStep ==
  Coherent /\ Coherent' /\ StatusesSound /\ LocksOwned /\ BooksSound /\ BooksSound'
    /\ DraftsExtend /\ [Next]_vars => [Book!Next]_Book!bookVars
<1> SUFFICES ASSUME Coherent, Coherent', StatusesSound, LocksOwned, BooksSound, BooksSound',
                    DraftsExtend, [Next]_vars
             PROVE  Book!Next \/ UNCHANGED Book!bookVars
  OBVIOUS
<1>1. CASE UNCHANGED <<rate, quoted, books>>
  BY <1>1 DEF books, Book!bookVars, Book!books
<1>2. CASE \E t \in Tickers, r \in Rates : StoreRate(t, r)
  <2>1. rate' \in [Tickers -> Rates] /\ UNCHANGED <<quoted, books>>
    BY <1>2 DEF StoreRate, Coherent, TypeOK
  <2>. QED
    BY <2>1 DEF books, Book!Next, Book!MoveRates, Book!books
<1>3. CASE \E t \in Tickers, c \in Closes : StoreBar(t, c)
  BY <1>1, <1>3 DEF StoreBar
<1>4. ASSUME NEW s \in Sessions, BeginStep(s) \/ LockPortfolio(s) \/ ReadFxRate(s)
      PROVE  UNCHANGED <<rate, quoted, books>>
  BY <1>4 DEF BeginStep, BeginMarket, BeginPlace, BeginCancel, LockPortfolio, ReadFxRate, market
<1>5. ASSUME NEW s \in Sessions, Decide(s)
      PROVE  Book!Next \/ UNCHANGED Book!bookVars
  BY <1>5, ServedIsAtomic
<1>8. ASSUME NEW o \in Orders, PriceOtherClaim(o) \/ \E s \in Sessions : PriceClaim(s, o)
      PROVE  Book!Next
  <2>1. Book!AskRate(o)
    BY <1>8 DEF PriceOtherClaim, PriceClaim, market, books, Book!AskRate, Book!books
  <2>. QED
    BY <2>1 DEF Book!Next
<1>9. ASSUME NEW h, quoted' = Forgotten(h), UNCHANGED <<rate, books>>
      PROVE  Book!Next
  BY <1>9, ForgottenIsForget DEF books, Book!Next, Book!books
<1>10. ASSUME NEW s \in Sessions, Abort(s)
       PROVE  Book!Next
  BY <1>9, <1>10 DEF Abort, Finish, market
<1>11. CASE FillOrder \/ CancelUncovered \/ DropOrder \/ AbortSettle
  BY <1>9, <1>11 DEF FillOrder, CancelUncovered, DropOrder, AbortSettle, NextOrder, EndSettle, market
<1>6. CASE CommitSettle
  BY <1>6, CommitIsSettle
<1>7. CASE LockForFill \/ ReadFillRate \/ UNCHANGED vars
           \/ (\E fresh \in SUBSET Tickers : BeginSettle(fresh))
           \/ (\E o \in Orders : LeavePending(o) \/ PriceOrder(o))
  BY <1>1, <1>7 DEF LockForFill, ReadFillRate, BeginSettle, LeavePending, PriceOrder, market, vars
<1>. QED
  BY <1>1, <1>2, <1>3, <1>4, <1>5, <1>6, <1>7, <1>8, <1>10, <1>11
     DEF Next, MarketStep, BatchStep, BatchReadRates, RequestStep, ReadRates

\* The ledger implements AccountBook: with row locks, stale copies, a batch that drafts
\* over many books, crashes and re-runs, what is committed still moves as if every
\* accepted request and every settlement were one indivisible step on the cash, holdings,
\* orders and trades of that moment, with every claim priced at a rate its currency had
\* since the last decision on the book, for FX rates that move at any time.
THEOREM LedgerIsAccountBook == Spec => BookSpec
<1>1. Init => Book!Init
  BY DEF Init, Book!Init
<1>. QED
  BY <1>1, StepIsBookStep, AlwaysCoherent, AlwaysStatusesSound, AlwaysLocksOwned, AlwaysBooksSound,
     AlwaysDraftsExtend, PTL DEF Spec, BookSpec, Book!Spec

=============================================================================
