\* All lanes on stored seals, with and without a legacy store: two sentinels,
\* two-unit parcels, a substrate that may fail.
SPECIFICATION HSpec
CONSTANTS
    zeus = zeus
    eve = eve
    None = None
    Council <- MCCouncil
    Zeus = zeus
    MinPasses = 1
    Threshold = 2
    Amounts = {1}
    Signatures = {"s"}
    SubstrateOutcomes = {TRUE, FALSE}
    RetryCap = 3
    CastVerdicts = {"pass", "flag", "reject"}
    MaxReserve = 4
    MaxCycle = 1
    MaxFormed = 2
INVARIANTS
    IndexesComplete
    AttestedWasDecided
    NoReserveLost
PROPERTIES
    VetoLiftedByZeusOnly
CHECK_DEADLOCK FALSE
