\* As historical.cfg, with fair crons; sentinels that vote at all pass.
SPECIFICATION HFairSpec
CONSTANTS
    zeus = zeus
    eve = eve
    None = None
    Council <- MCCouncil
    Zeus = zeus
    MinPasses = 1
    Threshold = 2
    Amounts = {1}
    Signatures = {"s"}
    SubstrateOutcomes = {TRUE, FALSE}
    RetryCap = 3
    CastVerdicts = {"pass"}
    MaxReserve = 4
    MaxCycle = 1
    MaxFormed = 2
PROPERTIES
    PointerEventuallyWritten
CHECK_DEADLOCK FALSE
