SPECIFICATION FairSpec
CONSTANTS
    Messages = {}
    NoMessage = NoMessage
    IsSEP = TRUE
    Masks = {}
    Enables = {TRUE}
    MaxInbox = 1
    Exts = {3}
    Timers = {9}
INVARIANTS CPULineFollows
PROPERTIES ReadOrder LineDrains
