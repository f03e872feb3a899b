CONSTANTS
    e1 = e1
    e2 = e2
    slack = slack
    telegram = telegram
    slash = slash
    Events = {e1, e2}
    Messages = {slack, telegram, slash}
    Keyed = {slack, slash}
    Commands = {slash}
    Sources <- SiblingsOnly
    Segments = 1
    MaxAttempts = 2
    MaxCrashes = 1
    MaxOthers = 0
    MaxReplays = 0
SPECIFICATION Spec
INVARIANTS
    DeliveredIsComplete
    OneReplyPerMessage
PROPERTIES
    KeepsPromise
CHECK_DEADLOCK FALSE
