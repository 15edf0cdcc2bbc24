\* One portfolio, no FX move: reservations against market orders and settlement.
SPECIFICATION Spec
CONSTANTS
  P1 = P1
  P2 = P2
  T1 = T1
  Portfolios = {P1}
  Tickers = {T1}
  Sessions = {s1, s2}
  Settler = Settler
  Free = Free
  None = None
  NoBar = NoBar
  StartCash = 3
  MaxTrades = 1
  Orders <- OneBookOrders
  Markets <- OneBookMarkets
  Closes <- MCPrices
  Rates <- MCOneRate
SYMMETRY MCSymmetry
INVARIANT TypeOK
INVARIANT CashPromisedIsThere
INVARIANT SharesPromisedAreHeld
INVARIANT TradesExplainBook
INVARIANT OneTradePerFill
PROPERTY TerminalIsFinal
PROPERTY OnlyOwnerCancels
