SPECIFICATION HVSpec
CONSTANTS
    zeus = zeus
    eve = eve
    first = first
    second = second
    Council <- MCCouncil
    Zeus = zeus
    MinPasses = 2
    Submitters = {first, second}
    Operators = {"o"}
    CronRuns = {"c"}
    DedupeKeys = {"k"}
    CastVerdicts = {"pass"}
    StoreOutcomes = {TRUE, FALSE}
    SubstrateOutcomes = {TRUE, FALSE}
    LegacyVotes <- MCVotes
SYMMETRY MCSubmitters
INVARIANTS
    ConsumedKeyHasVote
    ConfirmedVotesShow
    AttestedIffIndexed
PROPERTIES
    NothingTakenBack
CHECK_DEADLOCK FALSE
