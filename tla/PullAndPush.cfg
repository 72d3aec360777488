SPECIFICATION Spec
CONSTANTS
    None = None
    Requests = {p1, u1}
    Pulls = {p1}
    Digests = {}
    Repos = {"busybox"}
    RepoOf <- OneRepo
    ImagesOf <- PushesOf
    MaxImages = 2
    PollLimit = 1
    MaxPollErrs = 1
    Messages = {"create", "error"}
INVARIANTS TypeOK SuccessIsReal
CHECK_DEADLOCK FALSE
