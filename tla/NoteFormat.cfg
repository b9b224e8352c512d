SPECIFICATION Spec
CONSTANTS
    None = None
    Root = "root"
    Dir <- MCDir
    Hidden = {"dot"}
    Parent <- MCParent
    NameOf <- MCNameOf
    TitleOf <- MCTitleOf
    GivenName <- MCGivenName
    File <- MCFile
    WalkOrder <- MCWalkOrder
    SortedIds <- MCSortedIds
    Trees <- MCTrees
    Edited <- MCEdited
    Saved <- MCSaved
    Schema <- MCSchema
    MaxSaves = 1
    MaxCommands = 2
INVARIANT RegisteredOrReported
PROPERTIES FormatRestartable IdsStable LinesKept SchemaKept
CHECK_DEADLOCK FALSE
