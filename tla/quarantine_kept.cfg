\* The operator-free lanes, every handler run to its end: three sentinels,
\* two-unit parcels, three parcels, two cycles.
SPECIFICATION Spec
CONSTANTS
    zeus = zeus
    eve = eve
    atlas = atlas
    None = None
    Council <- MCCouncil
    Zeus = zeus
    MinPasses = 2
    Threshold = 2
    Amounts = {1}
    Signatures = {"s"}
    SubstrateOutcomes <- MCOutcomes
    RetryCap = 2
    CastVerdicts = {"pass", "flag", "reject"}
    MaxReserve = 5
    MaxCycle = 2
PROPERTIES
    QuarantineKept
CHECK_DEADLOCK FALSE
