\* Three sessions, so that one expires, its replacement too, or a process that was started
\* again meets the node of the last one; two openings of the log, so that it is switched once;
\* three expiries, edits, rotations, lines or ends of the process.
SPECIFICATION FairSpec
CONSTANTS
    Main = 0
    Threads <- MCThreads
    MaxSessions = 3
    MaxEvents = 3
    Texts = {t1, t2}
    Malformed = Malformed
    InitMayFail = TRUE
    Locked = TRUE
    MaxOpens = 2
INVARIANTS   HandleSafe Listed EndsQuietly
PROPERTY Relisted
CHECK_DEADLOCK FALSE
