\* The operator-free lanes, every handler run to its end: three sentinels,
\* two-unit parcels, three parcels, two cycles.
SPECIFICATION FairSpec
CONSTANTS
    zeus = zeus
    eve = eve
    atlas = atlas
    None = None
    Council <- MCCouncil
    Zeus = zeus
    MinPasses = 2
    Threshold = 2
    Amounts = {1}
    Signatures = {"s"}
    SubstrateOutcomes <- MCOutcomes
    RetryCap = 2
    CastVerdicts = {"pass", "flag", "reject"}
    MaxReserve = 5
    MaxCycle = 2
INVARIANTS
    TypeOK
    ChainLinked
    CandidateOnTip
    StatusIsDecided
    ReserveConserved
    ReserveHasSources
PROPERTIES
    AttestedIsFinal
    CastVotesCount
    CandidateDecided
    QueuedReserveFormed
    ImplementsChain
CHECK_DEADLOCK FALSE
