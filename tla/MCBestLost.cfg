SPECIFICATION Spec
CONSTANTS
    t1 = t1
    t2 = t2
    Threads = {t1, t2}
    Watched = {}
    Settings <- MCBestOnly
    Outcomes <- MCOutcomes
    MaxJobs = 3
    MaxIncidents = 0
SYMMETRY MCSymmetry
INVARIANTS
    BestIsCounted
CHECK_DEADLOCK FALSE
