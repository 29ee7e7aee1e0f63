SPECIFICATION Spec
CONSTANTS
    Paths = {p}
    Fields = {"size", "name"}
    Drafts = {"size"}
    Values = {0, 1}
    Texts = {0, 1, 2}
    NameCheck = "name"
    Right = 1
    Deferred = {p}
    Source <- MCSource
    Refused = {}
    Actions <- MCActions
    HistorySteps = 2
    MaxRequest = 3
    MaxRedo = 3
    None = None
PROPERTY OnlyRepairsAdopted
