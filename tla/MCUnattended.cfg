SPECIFICATION FairSpec
CONSTANTS
    j1 = j1
    None = None
    Process = {p1, p2}
    MaxSlot = 3
    MaxVersion = 2
    MaxFailures = 2
    Host = {h1, h2}
    Session = {s1}
    MaxIncarnation = 3
    Job = {j1}
    Interval <- EveryTwo
    Condition = {c1, c2}
    Capacity = 1
    MaxTime = 3
    MaxEpisodes = 3
    MaxMessages = 1
    Signal = {g1, g2}
    Pulser = {u1, u2}
INVARIANTS
    SlotFiresOnce
    StateIsReported
    OneWorkPerEpisode
PROPERTIES
    NewestCompletes
    DueWorkIsAdmitted
    FiredSignalIsRun
CHECK_DEADLOCK FALSE
