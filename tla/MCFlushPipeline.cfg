CONSTANTS
    Parts = {1, 2, 3}
    Size <- MCSize
    Estimate <- MCEstimate
    Limit = 4
    Step = 2
    Encoders = 2
    Publications = 1
    MaxFaults = 2
SPECIFICATION FairSpec
INVARIANTS
    BudgetHeld
    ReceiptBeforeFile
    DrainedBeforeReturn
PROPERTIES
    FlushReturns
CHECK_DEADLOCK FALSE
