SPECIFICATION WaitSpec
CONSTANTS
    Clients = {c1, c2}
    Triggers = {"state", "check"}
    Requests <- MCRequests
    Microseconds <- MCMicroseconds
PROPERTIES
    UnlimitedWaitEndsTrue
    TimedWaitReturns
    EventsEndWait
