CONSTANTS
    Text <- MCText
    Areas <- MCAreas
    Key <- MCKey
    Value = {"p1", "p2"}
    None = None
    Dir <- MCDir
    Inbox = "inbox"
    Meta <- MCMeta
    Contents <- MCContents
    Params <- MCParams
    MaxSaves = 0
    MaxCommands = 2
    MaxIds = 2
    Summarised = {"priority"}
    Recognised = {"priority"}
    Default <- MCDefault
    Buffers <- MCBuffers
    MaxKeys = 6
SPECIFICATION ScreenSpec
PROPERTY MarkedIsArchived
CHECK_DEADLOCK FALSE
