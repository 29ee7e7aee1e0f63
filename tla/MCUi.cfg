SPECIFICATION UiSpec
CONSTANTS
    Panels = {p1, p2}
    Mods = {m1}
    Render = render
    None = None
    Buttons = {left}
    Keys = {a}
    MaxPending = 3
    Servers = {h, t}
    Tcp = {t}
    Ids = {1, 2, 3}
    Limit = 2
    New = New
    Absent = Absent
INVARIANTS
    NothingAfterwards
    HeldKeepsRecipient
    NothingInherited
    LaunchesAsShown
PROPERTY
    WaitsReturn
CHECK_DEADLOCK FALSE
