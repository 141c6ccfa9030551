SPECIFICATION FairSpec
CONSTANTS
    c1 = c1
    a1 = a1
    e1 = e1
    j1 = j1
    s1 = s1
    p1 = p1
    Clients = {c1}
    Agents = {a1}
    Dockers = {a1}
    Envs = {e1}
    Jobs = {j1}
    DebugJobs = {}
    Students = {s1}
    Ports = {p1}
    Faults = {}
    MaxKills = 0
    Self = a1
    Owner <- MCOwner
    EnvOf <- MCEnvOf
    Slots <- MCSlots
    Offers <- MCOffers
    Parent <- MCParent
    NoAgent = NoAgent
    NoJob = NoJob
    NoPort = NoPort
PROPERTIES
    EveryJobAnswered
    StudentsRemoved
CHECK_DEADLOCK FALSE
