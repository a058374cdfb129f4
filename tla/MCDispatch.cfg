SPECIFICATION Spec
CONSTANTS
    Bodies <- SomeBodies
    TryNums = 2
    Apis <- ThreeApis
    Uris <- SomeUris
    Cmds <- SomeCmds
    Sizes = {1, 2}
    MaxRequests = 3
INVARIANTS TypeOK RoutedRight OwnContent SearchIsTrue
PROPERTY ReusedIsDelimited
\* The connection ends.
CHECK_DEADLOCK FALSE
