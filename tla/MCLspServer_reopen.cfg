CONSTANTS
    Uris = {u}
    Texts = {bad, worse, clean}
    Silent = {clean}
    Nothing = Nothing
    MaxHandlers = 3
    MaxVersion = 5
    MaxInbox = 3
    Restart = TRUE
SPECIFICATION Spec
PROPERTIES PublishesCurrent
CHECK_DEADLOCK FALSE
