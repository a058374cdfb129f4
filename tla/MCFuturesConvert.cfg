SPECIFICATION Spec
CONSTANTS
    Products = {"HSI", "MHI"}
    SignedProducts = {"HSI"}
    Prices = {1, 2}
    Types = {0, 1, 2}
    MaxQty = 2
    MaxRecords = 2
    BatchNums = {1, 2}
INVARIANTS PendingIsPlaced HoldingIsFills FundsAreComplete StateIsTrue
