SPECIFICATION FairSpec
CONSTANTS
    o1 = o1
    o2 = o2
    Outcomes = {o1, o2}
    MaxAttempt = 1
    MaxGrade <- MCMaxGrade
    MaxRestarts = 1
INVARIANTS
    TypeOK
    ThreadSurvives
    InMemory
    CreatedIsSent
    AttemptsBounded
PROPERTY
    EventuallySettled
CHECK_DEADLOCK FALSE
