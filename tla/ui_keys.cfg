SPECIFICATION FairUiSpec
CONSTANTS
    Keys <- MCKeys
    Modifiers = {}
    MenuAction <- MCMenuAction
    KeyUp = "down"
    KeyDown = "down"
    Motions <- MCMotions
    QueueMax = 1
    AccumTicks = 1
    ScreenTimeout = 1
    TextMax = 1
    ChordKeys = {"down"}
    MaxConsoles = 1
    Jobs = TRUE
INVARIANTS
    OverrunByCancelOnly
    CancelConfined
    RepeatedOnceLate
    LitWhileActing
PROPERTIES
    SideloadMenuEnds
    ConsoleEnds
