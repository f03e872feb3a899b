SPECIFICATION Spec
CONSTANTS
    Prompts <- ScriptPrompts
    Null = Null
    Program <- FanOutCheckSum
    MaxAgentsPerRun = 5
    MaxConcurrentLeaves = 2
    Crashes = 2
    Failures = 2
INVARIANTS
    WorkflowTypeOK
    NoLeafOutlivesItsRun
    JournalAgrees
    CapSpansRestarts
    WorkIsNotRepeated
    CompletedMeansWhole
PROPERTIES
    RunsEnd
CHECK_DEADLOCK FALSE
