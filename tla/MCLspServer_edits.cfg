CONSTANTS
    Uris = {u, w}
    Texts = {bad, clean}
    Silent = {clean}
    Nothing = Nothing
    MaxHandlers = 2
    MaxVersion = 3
    MaxInbox = 2
    Restart = FALSE
SPECIFICATION Spec
INVARIANTS QuietIsCurrent
PROPERTIES PublishesCurrent EveryTextAnswered
CHECK_DEADLOCK FALSE
