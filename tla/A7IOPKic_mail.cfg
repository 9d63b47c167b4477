SPECIFICATION Spec
CONSTANTS
    Messages = {m1}
    NoMessage = NoMessage
    IsSEP = TRUE
    Masks <- AllMasks
    Enables = {TRUE}
    MaxInbox = 1
    Exts = {}
    Timers = {}
INVARIANTS OwnOutputsFollow SEPOutputsFollow ReadOnce
