SPECIFICATION PageFairSpec
CONSTANTS
    t1 = t1
    t2 = t2
    Threads = {t1, t2}
    Watched = {t1, t2}
    Settings <- MCSettings
    Outcomes <- MCOutcomes
    MaxJobs = 2
    MaxIncidents = 1
    MaxLoads = 1
    MaxEvents = 2
INVARIANTS
    PageTypeOK
    FeedbackOfForm
    ColoursTrue
    AsReopened
PROPERTY
    EventuallyUnblocked
CHECK_DEADLOCK FALSE
