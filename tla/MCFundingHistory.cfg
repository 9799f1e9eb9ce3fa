CONSTANTS
    cron = cron
    repair = repair
    btc = btc
    eth = eth
    Coins = {btc, eth}
    Delisted = {eth}
    Irregular = {btc}
    MaxHour = 3
    Backlog = 2
    Page = 2
    CommitRows = 2
    Runs = {cron, repair}
    Repairs = {repair}
    Named = {btc}
    Windows <- MCWindows
    MaxFaults = 2
SPECIFICATION FairSpec
INVARIANTS
    HourOnce
    GapsAreLate
    
PROPERTIES
    BackfillCompletes
CHECK_DEADLOCK FALSE
