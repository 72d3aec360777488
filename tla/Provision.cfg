SPECIFICATION Spec
CONSTANTS
    c1 = c1
    c2 = c2
    r1 = r1
    r2 = r2
    v1 = v1
    v2 = v2
    d1 = d1
    d2 = d2
    None = None
    Creates = {c1, c2}
    Removals = {r1, r2}
    RemovalOf <- MCRemovalOf
    Data = {c1}
    Sources <- MCSources
    Published <- MCPublished
    Protocols = {"tcp", "udp"}
    Scenarios <- MCScenarios
    VolumeCreates = {v1, v2}
    VolumeRemovals = {d1, d2}
    Names = {"v"}
    NameOf <- MCNameOf
    MaxVolumePolls = 2
INVARIANTS ProvisionTypeOK RulesBeforeContainer StandingUsersKeepVolumes VolumeAnswersTrue
PROPERTIES RequestsEnd
CHECK_DEADLOCK FALSE
