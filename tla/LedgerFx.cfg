\* Two portfolios in one batch while FX rates re-price their reservations.
SPECIFICATION Spec
CONSTANTS
  P1 = P1
  P2 = P2
  T1 = T1
  Portfolios = {P1, P2}
  Tickers = {T1}
  Sessions = {s1, s2}
  Settler = Settler
  Free = Free
  None = None
  NoBar = NoBar
  StartCash = 3
  MaxTrades = 1
  Orders <- FxOrders
  Markets <- FxMarkets
  Closes <- MCOnePrice
  Rates <- MCTwoRates
SYMMETRY MCSymmetry
PROPERTY BookSpec
