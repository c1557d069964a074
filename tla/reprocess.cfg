\* Every script, twice, one crash
SPECIFICATION Spec
CONSTANTS
  public = public
  logged = logged
  folder = folder
  file = file
  icon = icon
  loop = loop
  Events = {public, logged, folder, file, loop, icon}
  Slots = {s1, s2}
  s1 = s1
  s2 = s2
  ObjectOf <- MCObjectOf
  Content <- MCContent
  Unenrolled = {logged}
  Linkless = {public}
  Folders = {folder}
  Media = {file}
  Loops = {loop}
  Processed = {logged, folder}
  ScanRows <- MCScanRows
  SiteObjects = {public, icon}
  AccessRows = {logged}
  TestData = {loop}
  Chrome = {icon}
  Opaque = {}
  Scripts <- MCScripts
  MaxRuns = 2
  MaxCrashes = 1
  Nobody = Nobody
CHECK_DEADLOCK FALSE
INVARIANTS NotForgotten ScanCovered FreshJudgement 
SYMMETRY SlotSymmetry
