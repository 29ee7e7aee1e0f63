SPECIFICATION FilesSpec
CONSTANTS
    Packages = {p1, p2, p3}
    Importers = {i1, i2}
    User = User
    Ids = {1, 2, 3}
    Versions = {1, 2}
    Inputs <- Input
    Names = {"screen", "SCREEN", "mods"}
    Keys = {"w", "f"}
    Values = {Numeric, Textual}
    Strings = {Textual}
    Numeric = Numeric
    Textual = Textual
    NoIni = NoIni
    Torn = Torn
    NoOp = NoOp
    Fields = {enabled, version}
    Choices = {one, two}
    Absent = Absent
    Invalid = Invalid
    NoFile = NoFile
    NoJob = NoJob
    Folded <- Folding
    Others <- Changes
    Registrations <- MCRegistrations
    Overlap = FALSE
    LateSaves = FALSE
    MaxWrites = 2
    MaxSaves = 2
SYMMETRY Symmetry
INVARIANTS AnswersAreRight WholeOrNothing SavedChangesKept
PROPERTIES NeverReplaced EditsSurvive
CHECK_DEADLOCK FALSE
