SPECIFICATION Spec
CONSTANTS
    Requests <- MCRequests
    MaxRequests = 2
    MaxBody = 2
    Room = 2
INVARIANTS
    LinesOfTheRequest
    ReceivedAsAnswered
    AnsweredCompletely
PROPERTIES
    EveryRequestAnswered
    TerminationEndsThread
