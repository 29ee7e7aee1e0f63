SPECIFICATION UiSpec
CONSTANTS
    Panels = {p1, p2}
    Mods = {m1}
    Render = render
    None = None
    Buttons = {left}
    Keys = {a}
    MaxPending = 4
    Servers = {h, t}
    Tcp = {t}
    Ids = {1, 2, 3}
    Limit = 2
    New = New
    Absent = Absent
INVARIANT
    GameSeesRelease
CHECK_DEADLOCK FALSE
