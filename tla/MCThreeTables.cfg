SPECIFICATION Spec
CONSTANTS
    blocks = blocks
    txs = txs
    logs = logs
    Tables <- ThreeTables
    Blocks <- blocks
    Shapes <- ThreeShapes
    Deliveries = {1}
    BlockNum <- Consecutive
    Stops = {}
    OriginStart = 0
    Publications = 2
    FullVacuum = FALSE
    ZeroRetention = FALSE
    MaxOrdinal = 2
    MaxCompactions = 1
    MaxFaults = 2
INVARIANTS
    
    BlocksLast
    
