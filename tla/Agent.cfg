SPECIFICATION AgentSpec
CONSTANTS
    None = None
    a = a
    b = b
    Clients = {a, b}
    Requests <- MCRequests
    AgentKey = "k"
    HeaderSize = 2
    BufferSize = 8
    MaxRequests = 2
INVARIANTS AnswersMatch FailureMeansNotHandled
PROPERTIES StopReturns RequestsEnd
CHECK_DEADLOCK FALSE
