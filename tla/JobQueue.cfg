SPECIFICATION Spec
CONSTANTS
    Jobs <- MCJobs
    Priority <- MCPriority
    low = low  high = high  also = also
    NoJob = NoJob
    Stop = Stop
    Impatient <- MCImpatient
    Droppable = TRUE
INVARIANTS
    TokensMatchJobs
    CancelledOnRequest
PROPERTIES
    EveryCallerIsAnswered
CHECK_DEADLOCK FALSE
