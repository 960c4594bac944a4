SPECIFICATION HubSpec
CONSTANTS
    u1 = u1  u2 = u2  k1 = k1  k2 = k2  v1 = v1
    NoTeam = NoTeam  NoUser = NoUser  NoToken = NoToken  NoSession = NoSession  NoTask = NoTask
    NoMember = NoMember  NoRef = NoRef  NoWorker = NoWorker  NoProcess = NoProcess
    Teams = {m1}
    Users = {u1, u2}
    Tokens = {k1, k2}
    UserOf <- MCUserOf
    Tasks = {t1}
    Contents <- MCContents
    Configurations <- MCConfigurations
    RevocableTokens = {}
    Switches = {TRUE}
    Sessions = {s1, s2}
    Attempts = {b1, b2}
    Members <- MCMembers
    Services = {v1}
    OfferRefs = {o1}
    AttemptRefs = {a1}
    Processes = {p1}
    SessionLimit = 2
    MaxRevision = 4
    MaxFence = 4
    MaxGeneration = 2
    MaxSlotGeneration = 1
    MaxProfile = 1
SYMMETRY Symmetry
INVARIANTS OneCoordinator
PROPERTIES ImplementsTaskAuthority
CHECK_DEADLOCK FALSE
