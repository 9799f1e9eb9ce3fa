SPECIFICATION Spec
CONSTANTS
    blocks = blocks
    txs = txs
    logs = logs
    Tables <- TwoTables
    Blocks <- blocks
    Shapes <- TwoShapes
    Deliveries = {1, 2}
    BlockNum <- Consecutive
    Stops = {}
    OriginStart = 0
    Publications = 2
    FullVacuum = TRUE
    ZeroRetention = FALSE
    MaxOrdinal = 2
    MaxCompactions = 1
    MaxFaults = 2
INVARIANTS
    ReferencedFilesExist
    OnlyVacuumedPartsRefuse
