SPECIFICATION FairWatchSpec
CONSTANTS
    raw = raw
    tidy = tidy
    c1 = c1
    c2 = c2
    NoText = NoText
    NoId = NoId
    Proc = {1, 2}
    Path = {1, 2}
    Text = {raw, tidy}
    Saved = {raw}
    Unreadable = {}
    Size <- Sizes
    Format <- Formatted
    IdOf <- SameId
    MaxClock = 2
    Command = {c1}
    Formatting = {2}
    ShortLived = FALSE
    Alone = TRUE
INVARIANTS ProjectionFresh RegistryFresh ProjectionQueued StopReaches AtMostOneWatcher
PROPERTY WatcherCatchesUp
CHECK_DEADLOCK FALSE
