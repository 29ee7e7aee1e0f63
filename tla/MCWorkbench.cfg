SPECIFICATION Spec
CONSTANTS
    Paths = {p, q}
    Fields = {"size", "name"}
    Drafts = {"size"}
    Values = {0, 1}
    Texts = {0, 1, 2}
    NameCheck = "name"
    Right = 1
    Deferred = {p, q}
    Source <- MCSource
    Refused = {}
    Actions <- MCActions
    HistorySteps = 2
    MaxRequest = 3
    MaxRedo = 4
    None = None
SYMMETRY Files
INVARIANT Answered
PROPERTIES NothingOverwritten DraftsKept HistoryKept
