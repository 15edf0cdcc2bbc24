---------------------------- MODULE AccountBook ----------------------------
(***************************************************************************)
(* What the trading ledger promises: every request that is accepted, and    *)
(* every settlement, is ONE step on the committed books, decided and applied *)
(* on the cash, holdings, orders and trades of that moment.  Only the FX     *)
(* rates that price the claims of pending orders may be older: each was      *)
(* asked for at some moment since the last decision on the same book.  No    *)
(* sessions, no row locks, no stale copies, no drafts, no crashes.           *)
(***************************************************************************)
EXTENDS Naturals, FiniteSets, Tally

CONSTANTS Portfolios, Tickers, Orders, Markets, None, Closes, Rates, StartCash

VARIABLES
  rate,         \* rate[t]: the FX rate of t's currency
  quoted,       \* quoted[o]: the rate asked for to price o's claim (0: none)
  cash,         \* cash[p]: the cash of portfolio p
  held,         \* held[p][t]: the shares of t it holds
  status,       \* status[o]: what became of order o
  trades        \* trades[p]: its trade rows

books == <<cash, held, status, trades>>
bookVars == <<rate, quoted, books>>

Init ==
  /\ rate \in [Tickers -> Rates]
  /\ quoted = [o \in Orders |-> 0]
  /\ cash = [p \in Portfolios |-> StartCash]
  /\ held = [p \in Portfolios |-> [t \in Tickers |-> 0]]
  /\ status = [o \in Orders |-> "absent"]
  /\ trades = [p \in Portfolios |-> {}]

Pending == {o \in Orders : status[o] = "pending"}

Buyers(p) == {o \in Pending : o.portfolio = p /\ o.side = "buy"}

\* What the pending orders of p have been promised, at the rates asked for.
Claim == [o \in Orders |-> o.qty * o.limit * quoted[o]]
CashClaimed(p) == Tally(Claim, Buyers(p))

SharesClaimed(p, t) ==
  Tally([o \in Orders |-> o.qty],
        {o \in Pending : o.portfolio = p /\ o.ticker = t /\ o.side = "sell"})

\* Every claim on p has been priced, and usd fits beside them.
CashLeftFor(p, usd) ==
  /\ \A o \in Buyers(p) : quoted[o] # 0
  /\ usd + CashClaimed(p) <= cash[p]

SharesLeftFor(p, t, qty) == qty + SharesClaimed(p, t) <= held[p][t]

MoveRates ==
  /\ rate' \in [Tickers -> Rates]
  /\ UNCHANGED <<quoted, books>>

AskRate(o) ==
  /\ quoted[o] = 0
  /\ quoted' = [quoted EXCEPT ![o] = rate[o.ticker]]
  /\ UNCHANGED <<rate, books>>

\* What was asked for about the orders in O is no longer known.
Forget(O) == quoted' = [o \in Orders |-> IF o \in O THEN 0 ELSE quoted[o]]

\* A decision on p uses up what was asked for.
Decided(p) == Forget({o \in Orders : o.portfolio = p})

\* A market order is executed for the dollars usd.
Booked(m, usd) ==
  [n |-> Cardinality(trades[m.portfolio]) + 1, order |-> None, ticker |-> m.ticker,
   side |-> m.side, qty |-> m.qty, usd |-> usd]

Buy(m, usd) ==
  LET p == m.portfolio
  IN /\ m.side = "buy"
     /\ CashLeftFor(p, usd)
     /\ cash' = [cash EXCEPT ![p] = @ - usd]
     /\ held' = [held EXCEPT ![p][m.ticker] = @ + m.qty]
     /\ trades' = [trades EXCEPT ![p] = @ \cup {Booked(m, usd)}]
     /\ Decided(p)
     /\ UNCHANGED <<rate, status>>

Sell(m, usd) ==
  LET p == m.portfolio
  IN /\ m.side = "sell"
     /\ SharesLeftFor(p, m.ticker, m.qty)
     /\ cash' = [cash EXCEPT ![p] = @ + usd]
     /\ held' = [held EXCEPT ![p][m.ticker] = @ - m.qty]
     /\ trades' = [trades EXCEPT ![p] = @ \cup {Booked(m, usd)}]
     /\ Decided(p)
     /\ UNCHANGED <<rate, status>>

\* A new order is accepted when nothing promised earlier backs it too.
Place(o) ==
  /\ status[o] = "absent"
  /\ \/ o.side = "buy" /\ quoted[o] # 0 /\ CashLeftFor(o.portfolio, Claim[o])
     \/ o.side = "sell" /\ SharesLeftFor(o.portfolio, o.ticker, o.qty)
  /\ status' = [status EXCEPT ![o] = "pending"]
  /\ Decided(o.portfolio)
  /\ UNCHANGED <<rate, cash, held, trades>>

Cancel(o) ==
  /\ o \in Pending
  /\ status' = [status EXCEPT ![o] = "cancelled"]
  /\ Decided(o.portfolio)
  /\ UNCHANGED <<rate, cash, held, trades>>

-----------------------------------------------------------------------------
(* The settlement, of any number of orders in any number of books at once.   *)

\* The closes at which o may be filled: a stop sells at its limit or below, every
\* other order trades at its limit or better.
Honours(o, c) ==
  IF o.side = "buy" \/ o.type = "stop_loss" THEN c <= o.limit ELSE c >= o.limit

FillRow(x, o) ==
  /\ x.ticker = o.ticker /\ x.side = o.side /\ x.qty = o.qty
  /\ \E c \in Closes, r \in Rates : Honours(o, c) /\ x.usd = o.qty * c * r

Dollars(rows, side) == Tally([x \in rows |-> x.usd], {x \in rows : x.side = side})
Shares(rows, side, t) ==
  Tally([x \in rows |-> x.qty], {x \in rows : x.side = side /\ x.ticker = t})

\* Book p takes one row for each order in filled and moves by what the rows say.
SettleBook(p, filled) ==
  LET new == trades'[p] \ trades[p]
  IN /\ trades[p] \subseteq trades'[p]
     /\ {x.order : x \in new} = filled
     /\ \A x \in new : FillRow(x, x.order)
     /\ \A x, y \in new : x.order = y.order => x = y
     /\ cash'[p] + Dollars(new, "buy") = cash[p] + Dollars(new, "sell")
     /\ \A t \in Tickers :
          held'[p][t] + Shares(new, "sell", t) = held[p][t] + Shares(new, "buy", t)

Settle(filled, dropped) ==
  /\ status' = [o \in Orders |-> IF o \in filled THEN "filled"
                                 ELSE IF o \in dropped THEN "cancelled" ELSE status[o]]
  /\ cash' \in [Portfolios -> Nat]
  /\ held' \in [Portfolios -> [Tickers -> Nat]]
  /\ \A p \in Portfolios : SettleBook(p, {o \in filled : o.portfolio = p})
  /\ \E O \in SUBSET Orders : Forget(O)
  /\ UNCHANGED rate

Next ==
  \/ MoveRates
  \/ \E o \in Orders : AskRate(o)
  \/ \E O \in SUBSET Orders : Forget(O) /\ UNCHANGED <<rate, books>>
  \/ \E m \in Markets, c \in Closes, r \in Rates :
       Buy(m, m.qty * c * r) \/ Sell(m, m.qty * c * r)
  \/ \E o \in Orders : Place(o) \/ Cancel(o)
  \/ \E filled, dropped \in SUBSET Pending :
       filled \cap dropped = {} /\ Settle(filled, dropped)

Spec == Init /\ [][Next]_bookVars

=============================================================================
