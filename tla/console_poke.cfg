SPECIFICATION FairUiSpec
CONSTANTS
    Keys <- MCKeys
    Modifiers = {}
    MenuAction <- MCMenuAction
    KeyUp = "down"
    KeyDown = "down"
    Motions <- MCMotions
    QueueMax = 1
    AccumTicks = 1
    ScreenTimeout = 1
    TextMax = 0
    ChordKeys = {"down"}
    MaxConsoles = 2
    Jobs = FALSE
INVARIANT
    BashHasStopped
