CONSTANTS
    e1 = e1
    e2 = e2
    slack = slack
    telegram = telegram
    slash = slash
    Events = {e1}
    Messages = {slack, telegram, slash}
    Keyed = {slack, slash}
    Commands = {slash}
    Sources <- Alone
    Segments = 1
    MaxAttempts = 2
    MaxCrashes = 1
    MaxOthers = 0
    MaxReplays = 0
SPECIFICATION Spec
INVARIANT NoReplyStranded
CHECK_DEADLOCK FALSE
