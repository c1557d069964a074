\* Two events, up to two verdicts each
SPECIFICATION SweepSpec
CONSTANTS
  a = a
  b = b
  Events = {a, b}
  NoRef = {b}
  SyncLifecycle = TRUE
  MaxVerdicts = 2
  MaxChanges = 2
  MaxLaunches = 1
  Nothing = Nothing
INVARIANT LookMatches
PROPERTIES AnalystStands ClosedWereDead
CHECK_DEADLOCK FALSE
