SPECIFICATION FairSpec
CONSTANTS
    Paths = {p, q}
    Fields = {"size", "name"}
    Drafts = {"size"}
    Values = {0, 1}
    Texts = {0, 1, 2}
    NameCheck = "name"
    Right = 1
    Deferred = {}
    Source <- MCSource
    Refused <- MCRefused
    Actions = {}
    HistorySteps = 2
    MaxRequest = 3
    MaxRedo = 3
    None = None
PROPERTIES DraftsKept WaitsEnd
