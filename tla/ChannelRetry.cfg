CONSTANTS
    e1 = e1
    e2 = e2
    slack = slack
    telegram = telegram
    slash = slash
    Events = {e1}
    Messages = {slack, telegram, slash}
    Keyed = {slack, slash}
    Commands = {slash}
    Sources <- Alone
    Segments = 2
    MaxAttempts = 2
    MaxCrashes = 1
    MaxOthers = 1
    MaxReplays = 1
SPECIFICATION Spec
INVARIANTS
    ChannelTypeOK
    PostedInOrderOnce
    OneReplyPerMessage
    DeadLettersHaveFailed
PROPERTIES
    EventsSettle
CHECK_DEADLOCK FALSE
