\* The bell of the header while alerts are set, trigger and go.
SPECIFICATION AlertsSpec
CONSTANTS
  Alerts = {a1}
  MaxActive = 1
  MaxPolls = 2
  MaxPresses = 2
PROPERTY BellCatchesUp
CHECK_DEADLOCK FALSE
