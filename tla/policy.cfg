SPECIFICATION PolicyFairSpec
CONSTANTS
  Sites = {team, drive}
  Personal = {drive}
  FloorPct = 50
  AtFirst = {2}
  Recent = 1
  MaxChanges = 2
  MaxMishaps = 1
INVARIANT DecisionStands
PROPERTIES NeverLoosened SharingConverges
