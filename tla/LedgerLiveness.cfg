\* Two portfolios in one batch, under the fairness of the scheduler and the row locks.
SPECIFICATION FairSpec
CONSTANTS
  P1 = P1
  P2 = P2
  T1 = T1
  Portfolios = {P1, P2}
  Tickers = {T1}
  Sessions = {s1, s2}
  Settler = Settler
  Free = Free
  None = None
  NoBar = NoBar
  StartCash = 1
  MaxTrades = 1
  Orders <- TwoBookOrders
  Markets <- TwoBookMarkets
  Closes <- MCOnePrice
  Rates <- MCOneRate
PROPERTY RequestsEnd
PROPERTY BatchEnds
