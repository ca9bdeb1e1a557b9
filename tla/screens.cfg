\* Menus, the screen, the console and interactive scripts.
CONSTANTS
    Main = Main
    Tools = Tools
    Made = Made
    Boot = Boot
    Root = Root
    Card = Card
    Stuff = Stuff
    MenuFiles = {Main, Tools, Made}
    MainMenu = Main
    Lines <- MCLines
    Tags = {Boot}
    MaxLevel = 4
    MaxItems = 8
    Top = Card
    Parent <- MCParent
    Packages <- MCPackages
    Rank <- MCRank
    MaxDepth = 4
    TextRows = 8
    TextCols = 2
    MenuSizes <- MCMenuSizes
    Portions = {0, 2, 3}
    MaxStart = 6
    Fraction = 4
    Requested <- MCRequested
    TotalRows = 7
    BufferRows = 3
    ScreenRows = 2
    ScreenCols = 8
    Params = {0, 1, 7}
    ScrollSteps = {1, 3}
    MaxPrint = 5
    ItemCounts = {1, 3}
    Slots = 6
    Texts = {1, 2}
    MaxQuestions = 2
    MaxOutput = 4
    ReadMax = 2
    PipeMax = 3
SPECIFICATION ScreensSpec
INVARIANTS
    ShownIsCurrent
    HighlightSelectable
    TagBoxSound
    BrowseDescends
    ScreenShows
    ReserveExact
    RowsInMatrix
    OutputPrinted
PROPERTIES
    MovesEnd
    LedGoesOff
    AsksImplemented
CHECK_DEADLOCK FALSE
