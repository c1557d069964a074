\* A file and a folder child that share one content
SPECIFICATION Spec
CONSTANTS
  OffTaxonomy = {"invented"}
  PiiTypes = {"name", "ssn"}
  Events = {e1, e2}
  Children = {e2}
  Contents = {c1}
  Answers <- MCAnswers
  ReuseDays = 1
  SecondLook = TRUE
  LastDay = 1
  MaxAttempts = 2
  NoEvent = NoEvent
CHECK_DEADLOCK FALSE
INVARIANTS ReuseNeverInvents AlertBacked HardIdAlerted
