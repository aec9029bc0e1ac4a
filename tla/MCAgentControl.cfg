\* An operator and cron at the same time, four commands and two mishaps, with a pid more
\* than there are agents at a time, and core.conf corrected to name the script's pid file.
SPECIFICATION Spec
CONSTANTS
    Pids = {p1, p2, p3}
    NoPid = NoPid
    Scripts = {operator, cron}
    SamePidFile = TRUE
    MaxCommands = 4
    MaxMishaps = 2
SYMMETRY ControlSymmetry
INVARIANT StopReports
CHECK_DEADLOCK FALSE
