\* Two requests at a time over a range of up to three bars.
SPECIFICATION Spec
CONSTANTS
  T1 = T1
  Clients = {c1, c2}
  Free = Free
  Times <- MCTimes
  NoTime = NoTime
  Closes <- MCTwoCloses
  NoBar = NoBar
  Orders <- MCOrders
  Theses <- MCTheses
  Blank = Blank
  None = None
  StartCash = 2
  MaxFills = 2
SYMMETRY MCSymmetry
INVARIANT TypeOK
INVARIANT FillsExplainBook
INVARIANT FillsFollowClock
INVARIANT HasNextIsRight
INVARIANT LockedByFill
PROPERTY TerminalIsFinal
