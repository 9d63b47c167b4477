SPECIFICATION FairSpec
CONSTANTS
    Messages <- MCMessages
    NoMessage = NoMessage
    IsSEP = FALSE
    Masks = {}
    Enables = {}
    MaxInbox = 0
    Blocks = 3
    Replies = {0, 10, 12}
    Hasty = FALSE
    MaxPings = 2
INVARIANTS NeverAborts MailHandled QuietMeansAgreed UpMeansAnnounced
PROPERTIES BootEnds SleepEnds
