-------------------------- MODULE MCTradingLedger --------------------------
(***************************************************************************)
(* Small instances of TradingLedger for TLC.                                *)
(***************************************************************************)
EXTENDS TradingLedger, TLC

CONSTANTS P1, P2, T1

Order(i, p, side, type, qty, limit) ==
  [id |-> i, portfolio |-> p, ticker |-> T1, side |-> side, type |-> type,
   qty |-> qty, limit |-> limit]

Trade(p, side, qty) == [portfolio |-> p, ticker |-> T1, side |-> side, qty |-> qty]

MCOnePrice == {1}
MCPrices == {1, 2}
MCOneRate == {1}
MCTwoRates == {1, 2}

\* One book where two buys and a sell compete for cash and shares.
OneBookOrders == {Order(1, P1, "buy", "limit", 1, 2), Order(2, P1, "buy", "limit", 1, 1),
                  Order(3, P1, "sell", "stop_loss", 1, 1)}
OneBookMarkets == {Trade(P1, "buy", 1), Trade(P1, "sell", 1)}

\* Two books in one batch.
TwoBookOrders == {Order(1, P1, "buy", "limit", 1, 1), Order(2, P2, "buy", "limit", 1, 1)}
TwoBookMarkets == {Trade(P1, "buy", 1), Trade(P2, "buy", 1)}

\* Two books under moving FX rates: one sells, the other's claim is re-priced.
FxOrders == {Order(1, P1, "sell", "take_profit", 1, 1), Order(2, P2, "buy", "limit", 1, 1)}
FxMarkets == {Trade(P1, "buy", 1), Trade(P1, "sell", 1), Trade(P2, "buy", 1)}

\* The sessions are interchangeable.
MCSymmetry == Permutations(Sessions)

=============================================================================
