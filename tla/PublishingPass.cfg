SPECIFICATION Spec
CONSTANTS
    Jobs = {v1, v2}
    NoJob = NoJob
    Drivers = {"android", "tiktok"}
    Flow <- UploadFlow
    MaxAttempts = 2
    MaxRetries = 1
    MaxFaults = 3
SYMMETRY Symmetry
CHECK_DEADLOCK FALSE
INVARIANTS
    TypeOK
    CompletedWasPosted
    PostsOwnVideo
    LeavesNothing
PROPERTIES
    RepostOnlyAfterTransient
