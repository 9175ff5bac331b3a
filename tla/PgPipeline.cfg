\* Three requests in any order of the six kinds, results of up to one row, replies
\* cut up anywhere, refusals, and a server that goes away.
SPECIFICATION Spec
CONSTANTS
    MaxRequests = 3
    MaxRows = 1
INVARIANTS
    InStep
    RowsAreOwn
PROPERTY RequestsAreAnswered
CHECK_DEADLOCK FALSE
