SPECIFICATION FairSpec
CONSTANTS
    None = None
    Requests = {p1, p2}
    Pulls = {p1, p2}
    Digests = {p2}
    Repos = {"busybox"}
    RepoOf <- OneRepo
    ImagesOf <- PushesOf
    MaxImages = 1
    PollLimit = 1
    MaxPollErrs = 2
    Messages = {"progress"}
INVARIANTS SocketsAreOpen
PROPERTIES RequestsAnswered
CHECK_DEADLOCK FALSE
