SPECIFICATION FairSpec
CONSTANTS
    None = None
    Server = {p1, p2}
    Steady = {p1}
    MaxUpdate = 2
    Stranger = {}
    Removed = {2}
    Capacity = 1
    MaxCrashes = 1
INVARIANTS
    MessagesAreKept
    ReportIsSentOnce
PROPERTIES
    CursorNeverGoesBack
    MessageIsAnswered
CHECK_DEADLOCK FALSE
