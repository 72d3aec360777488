SPECIFICATION Spec
CONSTANTS
    UuidLength = 3
    ShortLength = 2
    HexDigits = {"0", "1"}
    Characters <- MCCharacters
    MaxProcessedPorts = 4
    MaxExposedPorts = 3
    MaxPortsPerRule = 2
    MaxDataVolumes = 2
    Absent = Absent
    MaxPort = 4
    VersionQuestions <- MCVersionQuestions
    CheckQuestions <- MCCheckQuestions
    ShownQuestions <- MCShownQuestions
    PortQuestions <- MCPortQuestions
    MountQuestions <- MCMountQuestions
    AffinityQuestions <- MCAffinityQuestions
    CommandQuestions <- MCCommandQuestions
    TagQuestions <- MCTagQuestions
    PackageQuestions <- MCPackageQuestions
    ContainerQuestions <- MCContainerQuestions
    ListQuestions <- MCListQuestions
    NetworkQuestions <- MCNetworkQuestions
    NicQuestions <- MCNicQuestions
    NetworkListQuestions <- MCNetworkListQuestions
INVARIANTS PayloadAsAsked AnswersAsAsked
CHECK_DEADLOCK FALSE
