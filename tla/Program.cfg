SPECIFICATION MCSpec
CONSTANTS
    Functions <- AllFunctions
    Numbers <- SomeNumbers
    Programs <- AllSamples
    Callees <- Methods
    NextMethod <- Passed
    Found <- Objects
    TypeObject <- Types
    SYSTEM_DBREF = 0
    FrameTicks = 60
    MaxDepth = 2
    MaxTasks = 4
    MaxVM = 6
    METHOD_TICKS = 2
    PAUSED_METHOD_TICKS = 2
    MAX_CALL_DEPTH = 0
    Heartbeat = TRUE
    Parts = {"program", "tasks"}
INVARIANTS SpecifiersNest ListsSound TasksAccountedFor StacksExclusive
PROPERTIES ReadsBack LinesAgree TablesBalance OutcomeAgrees TicksFall PausedTasksRun
