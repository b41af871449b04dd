SPECIFICATION Spec
CONSTANTS
    r1 = r1
    r2 = r2
    Requests <- TheRequests
    MaxRequests = 4
    MaxConversations = 2
CHECK_DEADLOCK FALSE
INVARIANTS
    TypeOK
    PromptIsComplete
    TurnsInOrder
PROPERTIES
    DeadTokenStaysDead
    QuestionSettled
