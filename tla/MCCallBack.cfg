SPECIFICATION FairSpec
CONSTANTS
    a1 = a1
    e1 = e1
    i1 = i1
    Clients <- MCAddresses
    Agents = {a1}
    Envs = {e1}
    Jobs <- MCJobs
    Owner <- MCOwner
    EnvOf <- MCEnvOf
    DebugJobs <- MCDebugJobs
    Dockers = {}
    Slots <- MCSlots
    Offers <- MCOffers
    NoAgent = NoAgent
    NoJob = NoJob
    MaxPing = 0
    MaxConnections = 3
    Ids = {i1}
    Env = {e1}
    EnvOfId <- MCEnvOfId
    DebugIds = {}
    MaxClientPing = 0
    MaxAttempt = 3
    MaxQueue = 1
    AsksQueue = FALSE
    MaxKills = 0
    MaxRestarts = 1
PROPERTY
    EventuallyCalledBack
