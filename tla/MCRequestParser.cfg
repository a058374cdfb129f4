SPECIFICATION FairSpec
CONSTANTS
    Scripts <- AllScripts
    BufSize = 9
    Garbage <- Buffers
    Lengths <- UnsetLengths
    MaxRequests = 2
    Pipelined = FALSE
INVARIANT TypeOK
INVARIANT DeliveredIsSent
INVARIANT ConsumedIsExact
INVARIANT LaterIsValid
PROPERTY Answered
\* The peer may stop sending.
CHECK_DEADLOCK FALSE
