SPECIFICATION MCSpec
CONSTANTS
    u1 = u1  u2 = u2
    k1 = k1  k2 = k2  k3 = k3
    Teams = {m1}
    NoTeam = NoTeam  NoUser = NoUser  NoToken = NoToken  NoSession = NoSession  NoTask = NoTask
    Users = {u1, u2}
    Tokens = {k1, k2, k3}
    UserOf <- MCUserOf
    Tasks = {t1, t2}
    Contents <- MCContents
    Configurations <- MCConfigurations
    RevocableTokens = {k2}
    Switches = {TRUE, FALSE}
    Sessions = {s1, s2, s3}
    Attempts = {a1, a2}
    SessionLimit = 2
    MaxRevision = 6
    MaxGeneration = 3
    MaxSlotGeneration = 3
    MaxProfile = 2
SYMMETRY Symmetry
INVARIANTS
    CoordinatorSlot ExclusiveReservation AttemptTaskAgreement
    WorkerHandleFollows ManagedIdleShape
PROPERTIES FreshSlotGeneration ReservedWorkSurvives RevisionMarksChange
CHECK_DEADLOCK FALSE
