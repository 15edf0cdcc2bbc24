\* A journal edit overlaps the first fill.
SPECIFICATION Spec
CONSTANTS
  T1 = T1
  Clients = {c1, c2}
  Free = Free
  Times <- MCTimes
  NoTime = NoTime
  Closes <- MCOneClose
  NoBar = NoBar
  Orders <- MCBuys
  Theses <- MCTheses
  Blank = Blank
  None = None
  StartCash = 2
  MaxFills = 1
PROPERTY ThesisFixedAfterFill
