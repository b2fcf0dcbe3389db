\* The handlers of the core split at their awaits: deposits of less and of
\* more than a parcel, two sentinels, a cron trigger that may fire twice, one kill or one
\* overlap of two handlers.
SPECIFICATION SSpec
CONSTANTS
    zeus = zeus
    eve = eve
    None = None
    Council <- MCCouncil
    Zeus = zeus
    MinPasses = 2
    Threshold = 2
    Amounts = {1,3}
    Signatures = {"s"}
    SubstrateOutcomes = {TRUE}
    RetryCap = 2
    CastVerdicts = {"reject"}
    MaxReserve = 4
    MaxCycle = 1
    Depositors = {"d"}
    Voters = {zeus, eve}
    CronRuns = {"k","l"}
    MaxInFlight = 2
    MaxMeetings = 1
    MaxKills = 1
INVARIANTS
    STypeOK
    ConfirmedVoteCounts
    KillsLeaveChainLinked
    KillCostBounded
    KillsKeepSources
PROPERTIES
    ParcelDecided
    ImplementsReserve
CHECK_DEADLOCK FALSE
