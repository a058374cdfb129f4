SPECIFICATION Spec
CONSTANTS
    Scripts <- ValidScripts
    BufSize = 12
    Garbage <- Zeroed
    Lengths <- UnsetLengths
    MaxRequests = 2
    Pipelined = FALSE
INVARIANT RefusedIsInvalid
\* The peer may stop sending.
CHECK_DEADLOCK FALSE
