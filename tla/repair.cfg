\* Three repair scripts beside a growing chain whose names are given again.
SPECIFICATION RSpec
CONSTANTS
  Histories <- MCHistories
  script1 = script1
  script2 = script2
  script3 = script3
  cycle1 = cycle1
  cycle2 = cycle2
  Cycles = {cycle1, cycle2}
  Scripts = {script1, script2, script3}
  MaxSeals = 4
  MaxReceipts = 2
  MaxKills = 1
SYMMETRY MCScripts
INVARIANTS
  RTypeOK
  RuledOutStaysOut
  PointerNotQuarantined
  SettledBlockKeepsSeal
  RepairsOnRecord
PROPERTIES
  RepairResolves
CHECK_DEADLOCK FALSE
