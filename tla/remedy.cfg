SPECIFICATION FairSpec
CONSTANTS
    folder = folder
    file = file
    l1 = l1
    NoEvent = NoEvent
    Events = {folder, file}
    Links = {l1}
    LinksOf <- MCLinksOf
    Parent <- MCParent
    Located <- MCLocated
    Managed = {}
    Mailless = {}
    Milestones = {0}
    MaxDays = 0
    MaxRemovalAttempts = 1
    NotificationsEnabled = FALSE
    LastDay = 0
    MaxMishaps = 2
    MaxReviews = 1
INVARIANTS RemovedIsGone CompletedIsClean RequestKept
PROPERTIES KeepsRemedyPromise RemedyEnds
