SPECIFICATION FairSpec
CONSTANTS
    c1 = c1
    a1 = a1
    a2 = a2
    e1 = e1
    e2 = e2
    j1 = j1
    j2 = j2
    Clients = {c1}
    Agents = {a1, a2}
    Envs = {e1, e2}
    Jobs = {j1, j2}
    Owner <- MCOwner
    EnvOf <- MCEnvOf
    DebugJobs = {}
    Dockers = {a1}
    Slots <- MCSlots
    Offers <- MCOffers
    NoAgent = NoAgent
    NoJob = NoJob
    MaxPing = 1
INVARIANTS
    TypeOK
    EachJobInOnePlace
    AnsweredAtMostOnce
    RunningOnRegistered
    SlotsAccountedFor
    AgentsAgree
    NoOvercommit
    WorkConserving
PROPERTIES
    ImplementsJobService
    EventuallyAnswered
