\* The pid files of agent.sh and of core.conf as they are shipped, one command after the
\* other and no mishaps: stop finds no agent, reports success and leaves it running.
SPECIFICATION Spec
CONSTANTS
    Pids = {p1, p2}
    NoPid = NoPid
    Scripts = {operator}
    SamePidFile = FALSE
    MaxCommands = 2
    MaxMishaps = 0
SYMMETRY ControlSymmetry
INVARIANT StopSucceeds
CHECK_DEADLOCK FALSE
