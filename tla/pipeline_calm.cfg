\* Retries, without restarts, failed calls and duplicate deliveries
SPECIFICATION FairSpec
CONSTANTS
    Events = {e1, e2}
    Slots = {s1, s2}
    MaxEventRetries = 2
    MaxDeliveries = 1
    MaxRestarts = 0
    MaxFaults = 0
    PromptCleanup = TRUE
    NoEvent = NoEvent
    NoStatus = NoStatus
INVARIANT SingleOwner
PROPERTIES EventuallyDecided KeepsPromise
CHECK_DEADLOCK FALSE
