SPECIFICATION Spec
CONSTANTS
    t1 = t1
    t2 = t2
    Threads = {t1, t2}
    Watched = {}
    Settings <- MCSettings
    Outcomes <- MCOutcomes
    MaxJobs = 3
    MaxIncidents = 1
SYMMETRY MCSymmetry
INVARIANTS
    TypeOK
    WaitingIsServed
    CacheAgrees
    SettingsObeyed
PROPERTIES
    ImplementsLife
    BestSurvives
CHECK_DEADLOCK FALSE
