SPECIFICATION DebuggerSpec
CONSTANTS
    Program <- Script
    MaxCount = 3
    Breakable = {3}
    MaxCommands = 4
    MaxChanges = 1
    MaxVersions = 1
    NoSession = NoSession
    Capacity = 3
    Interval = 2
    Fields = {f}
    Pcs = {1, 2}
    MaxCaptured = 5
    MaxFrame = 1
    Forms <- TheForms
    Original = s1
    Other = s2
    Slots = {1, 2}
    QueueLimit = 2
    Patience = 2
    MaxRequests = 2
    MaxSerial = 3
    Nobody = Nobody
INVARIANTS TurnsUnbroken TriggerKept ReplayIsCapture WritesReachTheirActor CreatedAsPrepared
PROPERTIES RunsAsAsked NothingLasts
CHECK_DEADLOCK FALSE
