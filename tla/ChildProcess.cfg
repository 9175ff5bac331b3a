\* Two children, watched or not, forked or not, one event at a time: no handler
\* touches the descriptor of another.
SPECIFICATION Spec
CONSTANTS
    Fds <- EightFds
    MaxEvents = 1
    MaxProcesses = 2
INVARIANTS
    NothingLeftOver
    Listening
PROPERTY ExitIsReported
\* The children may run on, or all be gone.
CHECK_DEADLOCK FALSE
