--------------------------- MODULE SealIntegrity ----------------------------
(***************************************************************************)
(* The KV watchdog and the seal integrity gate (app/api/cron/kv-watchdog,  *)
(* lib/watchdog/kvHealthChecks.ts, kvWatchdogEscalation.ts,                *)
(* sealIntegrityGate.ts, canonicalContinuationPlan.ts), composed with the  *)
(* chain and its repair.  A watchdog run lists the seals, loads the active *)
(* lineage, reads the pointer, writes its report, records or clears the    *)
(* critical alert; formation asks the gate, which trusts the report and,   *)
(* when that has expired, the alert.  A run may find the seals unreadable  *)
(* or the store suspended, and may be killed; each is bounded by MaxFaults.*)
(***************************************************************************)
EXTENDS CollisionRepair

CONSTANTS MaxLineages,  \* bound: versions of the lineage activated
          MaxFaults     \* bound: skipped or blind checks, killed runs, outages

ASSUME FaultsAssumption == MaxLineages \in Nat /\ MaxFaults \in Nat

VARIABLES lineage,      \* the active lineage: a canonical index and a quarantine
          activated,    \* versions activated so far
          report,       \* watchdog:kv:last-report
          alert,        \* watchdog:kv:critical-alert
          watch,        \* what the running watchdog has read and where it is
          faults,       \* faults so far
          current,      \* observed: nothing the check reads has changed since
          unwritten     \* observed: a write or delete of a suspended run failed

watchVars == <<lineage, activated, report, alert, watch, faults, current, unwritten>>
vars == <<repairVars, watchVars>>

NoLineage == [index |-> [b \in Blocks |-> NoSeal], quarantined |-> {}]

None == "none"
Finding == "collision"    \* a critical block_number_collisions finding
Clean == "clean"          \* a check of the seals that found none
Skipped == "skipped"      \* no check of the seals

WInit ==
    /\ RInit
    /\ lineage = NoLineage
    /\ activated = 0
    /\ report = None
    /\ alert = None
    /\ watch = [at |-> "idle"]
    /\ faults = 0
    /\ current = FALSE
    /\ unwritten = FALSE

-----------------------------------------------------------------------------
(* Fault: the alert closes the gate whatever the report says.              *)
GateActive_AlertToo == report = Finding \/ alert = Finding

GateActive == report = Finding \/ (report = None /\ alert = Finding)

(* The collision finding over a list of seals, a lineage and the pointer.  *)
Critical(seals, l, pointer) ==
    /\ Collisions(seals) # {}
    /\ \/ UnresolvedBlocks(seals, l.quarantined, l.index) # {}
       \/ pointer = NoSeal
       \/ pointer # NewestCanonical(seals, l.quarantined, l.index)

ChainSafe == ~Critical(chain, lineage, latest)

(* The chain, the pointer or the lineage may have moved since the check.   *)
Moved == current' = (current /\ <<chain, latest, lineage>>' = <<chain, latest, lineage>>)

RepairOrGrowth ==
    /\ \/ FormCandidate /\ ~GateActive
       \/ AttestSeal
       \/ RejectSeal
       \/ ApproveReceipt
       \/ \E o \in Scripts : ScriptStep(o) \/ KillScript(o)
    /\ UNCHANGED lineage
    /\ Moved
    /\ UNCHANGED <<activated, report, alert, watch, faults, unwritten>>

(* Track R: a version decided for every collision of the chain is staged   *)
(* and becomes the active one.                                             *)
ActivateLineage ==
    /\ activated < MaxLineages
    /\ Collisions(chain) # {}
    /\ \E choice \in [Collisions(chain) -> Attested(chain)] :
         /\ \A b \in DOMAIN choice : choice[b].block = b
         /\ lineage' = [index |-> [b \in Blocks |-> IF b \in DOMAIN choice THEN choice[b]
                                                                       ELSE NoSeal],
                        quarantined |-> {s \in Attested(chain) :
                            s.block \in DOMAIN choice /\ choice[s.block] # s}]
    /\ activated' = activated + 1
    /\ UNCHANGED <<repairVars, report, alert, watch, faults, unwritten>>
    /\ Moved

-----------------------------------------------------------------------------
(* One run of the watchdog.                                                *)

Unwatched == UNCHANGED <<repairVars, lineage, activated, unwritten>>

WatchListSeals ==
    /\ watch.at = "idle"
    /\ watch' = [at |-> "lineage", seals |-> chain]
    /\ Unwatched /\ UNCHANGED <<report, alert, faults, current>>

(* The index reads as empty when it cannot be read.                        *)
WatchListNothing ==
    /\ watch.at = "idle"
    /\ faults < MaxFaults
    /\ faults' = faults + 1
    /\ watch' = [at |-> "lineage", seals |-> NoSeals]
    /\ Unwatched /\ UNCHANGED <<report, alert, current>>

(* The primary store is suspended: the seals are not looked at.            *)
WatchSkipSeals ==
    /\ watch.at = "idle"
    /\ faults < MaxFaults
    /\ faults' = faults + 1
    /\ watch' = [at |-> "report", seals |-> NoSeals, finding |-> Skipped]
    /\ Unwatched /\ UNCHANGED <<report, alert, current>>

WatchReadLineage ==
    /\ watch.at = "lineage"
    /\ watch' = [at |-> "pointer", seals |-> watch.seals, lineage |-> lineage]
    /\ Unwatched /\ UNCHANGED <<report, alert, faults, current>>

(* Fault: every collision is a finding, settled or not.                    *)
WatchReadPointer_AnyCollision ==
    /\ watch.at = "pointer"
    /\ watch' = [at |-> "report", seals |-> watch.seals,
                 lineage |-> watch.lineage, pointer |-> latest,
                 finding |-> IF Collisions(watch.seals) # {}
                               THEN Finding ELSE Clean]
    /\ Unwatched /\ UNCHANGED <<report, alert, faults, current>>

WatchReadPointer ==
    /\ watch.at = "pointer"
    /\ watch' = [at |-> "report", seals |-> watch.seals,
                 lineage |-> watch.lineage, pointer |-> latest,
                 finding |-> IF Critical(watch.seals, watch.lineage, latest)
                               THEN Finding ELSE Clean]
    /\ Unwatched /\ UNCHANGED <<report, alert, faults, current>>

WriteReport ==
    /\ watch.at = "report"
    /\ report' = watch.finding
    /\ current' = (/\ watch.finding # Skipped /\ watch.seals = chain
                   /\ watch.lineage = lineage /\ watch.pointer = latest)
    /\ watch' = [at |-> "escalate", finding |-> watch.finding]
    /\ Unwatched /\ UNCHANGED <<alert, faults>>

(* Fault: a run without a finding leaves the alert alone.                  *)
Escalate_KeepsAlert ==
    /\ watch.at = "escalate"
    /\ alert' = IF watch.finding = Finding THEN Finding ELSE alert
    /\ watch' = [at |-> "idle"]
    /\ Unwatched /\ UNCHANGED <<report, faults, current>>

(* The alert is written for a collision finding, and deleted by every run  *)
(* without one, a run that looked at no seals included.                    *)
Escalate ==
    /\ watch.at = "escalate"
    /\ alert' = IF watch.finding = Finding THEN Finding ELSE None
    /\ watch' = [at |-> "idle"]
    /\ Unwatched /\ UNCHANGED <<report, faults, current>>

(* Neither the write nor the delete is checked: in a suspended store each  *)
(* may fail and the run goes on.                                           *)
ReportWriteFails ==
    /\ watch.at = "report" /\ watch.finding = Skipped
    /\ watch' = [at |-> "escalate", finding |-> Skipped]
    /\ unwritten' = TRUE
    /\ UNCHANGED <<repairVars, lineage, activated, report, alert, faults, current>>

AlertDeleteFails ==
    /\ watch.at = "escalate" /\ watch.finding = Skipped
    /\ watch' = [at |-> "idle"]
    /\ unwritten' = TRUE
    /\ UNCHANGED <<repairVars, lineage, activated, report, alert, faults, current>>

KillWatch ==
    /\ watch.at # "idle"
    /\ kills < MaxKills
    /\ kills' = kills + 1
    /\ watch' = [at |-> "idle"]
    /\ UNCHANGED <<keys, receipts, journal, script, committed, overlapped>>
    /\ UNCHANGED <<lineage, activated, report, alert, faults, current, unwritten>>

(* No run for a day: the report expires, the alert lives for a week.       *)
ReportExpires ==
    /\ watch.at = "idle"
    /\ report # None
    /\ faults < MaxFaults
    /\ faults' = faults + 1
    /\ report' = None
    /\ Unwatched /\ UNCHANGED <<alert, watch, current>>

WatchStep == WatchListSeals \/ WatchReadLineage \/ WatchReadPointer \/ WriteReport \/ Escalate

WNext ==
    \/ RepairOrGrowth \/ ActivateLineage
    \/ WatchStep \/ WatchListNothing \/ WatchSkipSeals \/ KillWatch \/ ReportExpires
    \/ ReportWriteFails \/ AlertDeleteFails

WSpec == WInit /\ [][WNext]_vars /\ WF_vars(WatchStep)

-----------------------------------------------------------------------------
(* The watchdog's keys hold values of their types.                         *)
WTypeOK ==
    /\ RTypeOK
    /\ lineage \in [index : [Blocks -> NamesOrNone], quarantined : SUBSET Names]
    /\ report \in {None, Finding, Clean, Skipped}
    /\ alert \in {None, Finding}
    /\ watch.at \in {"idle", "lineage", "pointer", "report", "escalate"}
    /\ activated \in 0..MaxLineages /\ faults \in 0..MaxFaults
    /\ current \in BOOLEAN /\ unwritten \in BOOLEAN

(* While nothing has moved since a completed check, the gate is closed     *)
(* exactly when formation would follow an unresolved or misaligned head,   *)
(* whatever moved between the reads of that check.                         *)
GateMeansChain == current /\ report # None => (GateActive <=> ~ChainSafe)

(* Outside a run, and unless one was killed or could not write, the alert  *)
(* that outlives the report says what the report said.                     *)
AlertFollowsReport ==
    kills = 0 /\ ~unwritten /\ watch.at # "escalate" /\ report # None
      => (alert = Finding <=> report = Finding)

(* Skipped checks, killed runs and outages do not last: once the chain     *)
(* stays unsafe the gate ends up closed for good, and once it stays safe   *)
(* the gate ends up open for good.                                         *)
GateFollowsChain ==
    /\ <>[]~ChainSafe => <>[]GateActive
    /\ <>[]ChainSafe => <>[]~GateActive
=============================================================================
