SPECIFICATION Spec
CONSTANTS
    Page = {"p1", "p2"}
    Thread = {"t1", "t2"}
    Draft = {"typed"}
    NoDraft = NoDraft
    Module = {"a", "b", "w"}
    Root = {"a", "b"}
    Commit = {"c1", "c2"}
    Upstream <- MCUpstream
    ShimText <- MCShimText
    MaxTouched = 1
    PathOrder <- MCPathOrder
    Change <- MCChange
    Gap = 1
    Around = 1
    MaxFiles = 2
    MaxUntracked = 1
    MaxFileLines = 6
    MaxTotalLines = 2
    MaxSent = 1
    MaxEdits = 1
    MaxAsks = 2
    Theme = {"light", "dark"}
    Height = {1, 2}
    Reserved = 0
    MaxWindow = 2
    MaxEvent = 2
    Model = {"m", "n"}
    Effort = {"low", "high", "ultra"}
    Unset = Unset
    Report <- MCReport
    MaxStars = 1
    MaxWaiting = 1
    Context <- MCContext
    PathRequest <- MCPathRequest
    Providers = {"p1", "p2"}
    Unknown = Unknown
    Forwarded = {"orchestration.dispatchCommand", "projects.readFile"}
    Absent = {"browser.vault"}
    Subscription = {"server.onEvent"}
    Unserved = {"git.status"}
    File = {"photo", "paste", "folder"}
    IsImage <- MCIsImage
    HasPath <- MCHasPath
    Limit = 1
    MaxTurn = 2
    MaxMessage = 3
    MaxRevision = 1
    MaxRead = 1
INVARIANTS
    NothingLost
    BuildHonest
    RowsLead
    FrameHonest
    PickerHonest
    CallsHonest
    FilesAccounted
    TurnDiffHonest
PROPERTIES
    DiscardExact
