SPECIFICATION FairSpec
CONSTANTS
    blocks = blocks
    txs = txs
    logs = logs
    Tables <- TwoTables
    Blocks <- blocks
    Shapes <- TwoShapes
    Deliveries = {1}
    BlockNum <- Consecutive
    Stops = {2, 3}
    OriginStart = 0
    Publications = 2
    FullVacuum = FALSE
    ZeroRetention = FALSE
    MaxOrdinal = 2
    MaxCompactions = 1
    MaxFaults = 2
PROPERTIES
    JournalResolved
    StartsRecover
