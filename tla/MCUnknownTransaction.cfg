SPECIFICATION Spec
CONSTANTS
    a1 = a1
    e1 = e1
    i1 = i1
    Clients <- MCAddresses
    Agents = {a1}
    Envs = {e1}
    Jobs <- MCJobs
    Owner <- MCOwner
    EnvOf <- MCEnvOf
    DebugJobs <- MCDebugJobs
    Dockers = {a1}
    Slots <- MCSlots
    Offers <- MCOffers
    NoAgent = NoAgent
    NoJob = NoJob
    MaxPing = 0
    MaxConnections = 2
    Ids = {i1}
    Env = {e1}
    EnvOfId <- MCEnvOfId
    DebugIds = {i1}
    MaxClientPing = 0
    MaxAttempt = 3
    MaxQueue = 1
    AsksQueue = TRUE
    MaxKills = 1
    MaxRestarts = 1
INVARIANT
    NoUnknownTransaction
