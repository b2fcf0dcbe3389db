\* The watchdog and the gate beside a growing chain, a repair script and the
\* activation of a lineage; skipped checks, killed runs and outages.
SPECIFICATION WSpec
CONSTANTS
  cycle1 = cycle1
  cycle2 = cycle2
  Cycles = {cycle1, cycle2}
  Histories <- MCHistories
  Scripts = {"p"}
  MaxSeals = 3
  MaxReceipts = 1
  MaxKills = 1
  MaxLineages = 1
  MaxFaults = 1
INVARIANTS
  GateMeansChain
  AlertFollowsReport
PROPERTIES
  GateFollowsChain
