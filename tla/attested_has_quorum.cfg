\* The lanes on stored seals, from an empty store: two sentinels, two-unit parcels.
SPECIFICATION FreshSpec
CONSTANTS
    zeus = zeus
    eve = eve
    None = None
    Council <- MCCouncil
    Zeus = zeus
    MinPasses = 1
    Threshold = 2
    Amounts = {1}
    Signatures = {"s"}
    SubstrateOutcomes = {TRUE, FALSE}
    RetryCap = 3
    CastVerdicts = {"pass", "flag", "reject"}
    MaxReserve = 4
    MaxCycle = 1
    MaxFormed = 2
INVARIANTS
    AttestedHasQuorum
CHECK_DEADLOCK FALSE
