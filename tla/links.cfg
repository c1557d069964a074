SPECIFICATION LinksFairSpec
CONSTANTS
    e1 = e1
    e2 = e2
    l1 = l1
    Events = {e1, e2}
    Links = {l1}
    LinksOf <- MCLinksOf
    Managed = {}
    Mailless = {e2}
    Milestones = {0, 2}
    MaxDays = 1
    MaxRemovalAttempts = 2
    NotificationsEnabled = TRUE
    LastDay = 2
    MaxMishaps = 2
INVARIANT MailsOnce
PROPERTY OverdueEnds
