\* Two workers; the counter starts over after two connections, and the third connection goes
\* to the first worker again, which forwards byte by byte.  One client waits for its answers,
\* the other sends its requests together.
SPECIFICATION FairSpec
CONSTANTS
    c1 = c1
    c2 = c2
    Clients = {c1, c2}
    Pipelining = {c2}
    WorkerNum = 2
    Sockets = {0}
    CycleMax = 1
    Scripts <- MCScripts
    MaxAccepts = 3
    RequestSize = 1
    HeaderSize = 2
    BodySizes = {0, 1}
    RetryTimes = 1
    MaxLeft = 3
INVARIANTS WholeMessage FailsBetweenParts AnsweredInOrder
PROPERTIES Served
CHECK_DEADLOCK FALSE
