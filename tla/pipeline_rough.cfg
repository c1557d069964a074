SPECIFICATION Spec
CONSTANTS
    Events = {e1}
    Slots = {s1, s2}
    MaxEventRetries = 1
    MaxDeliveries = 2
    MaxRestarts = 2
    MaxFaults = 1
    PromptCleanup = TRUE
    NoEvent = NoEvent
    NoStatus = NoStatus
INVARIANTS ParkedCoversTasks RowlessJobsKept
PROPERTY StartupRecovers
SYMMETRY SlotSymmetry
CHECK_DEADLOCK FALSE
