SPECIFICATION FairSpec
CONSTANTS
    Keyboard <- SomeKeys
    Modes = {TRUE, FALSE}
    Heights = {8, 9}
    MaxHosts = 3
    MaxKeys = 3
    KeyQueue = 1
INVARIANTS
    ViewInv
    OneCommandPerKey
PROPERTIES
    QuitAnswered
    KeyMovesWindow
