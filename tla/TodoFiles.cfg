CONSTANTS
    Text <- MCText
    Areas <- MCAreas
    Key <- MCKey
    Value = {"p1", "p2"}
    None = None
    Dir <- MCDir
    Inbox = "inbox"
    Meta <- MCMeta
    Contents <- MCContents
    Params <- MCParams
    MaxSaves = 1
    MaxCommands = 2
    MaxIds = 2
SPECIFICATION Spec
INVARIANTS NoTaskLost IdsNameTheSame
PROPERTIES SyncRestartable UpdateIsLocal
CHECK_DEADLOCK FALSE
