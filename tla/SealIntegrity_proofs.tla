------------------------ MODULE SealIntegrity_proofs ------------------------
(***************************************************************************)
(* Proofs about the watchdog and the seal integrity gate, for every        *)
(* inherited chain, any number of repair scripts and all bounds.           *)
(***************************************************************************)
EXTENDS SealIntegrity, CollisionRepair_proofs

-----------------------------------------------------------------------------
(* What the report of a completed check says of a chain.                   *)
Verdict(seals, l, pointer) == IF Critical(seals, l, pointer) THEN Finding ELSE Clean

(* The finding of a running check is the verdict on what it has read.      *)
FindingIsVerdict ==
    watch.at = "report" /\ watch.finding # Skipped
      => watch.finding = Verdict(watch.seals, watch.lineage, watch.pointer)

(* A report with nothing moved since is the verdict on the chain itself.   *)
ReportIsVerdict ==
    current /\ report # None => report = Verdict(chain, lineage, latest)

CheckInv ==
    /\ current \in BOOLEAN
    /\ FindingIsVerdict
    /\ ReportIsVerdict

(* Nothing but the watchdog touches what the watchdog keeps.               *)
LEMMA GrowthIsMove ==
    ASSUME RepairOrGrowth
    PROVE  UNCHANGED <<watch, report, alert, unwritten>> /\ Moved
BY DEF RepairOrGrowth

(* A step that leaves the watchdog alone keeps what the check in progress  *)
(* has found and what the report means.                                    *)
LEMMA MovedKeepsCheck ==
    ASSUME CheckInv, Moved, UNCHANGED <<watch, report>>
    PROVE  CheckInv'
<1>1. current' \in BOOLEAN
      /\ (current' => current /\ chain' = chain /\ latest' = latest /\ lineage' = lineage)
  BY DEF Moved, CheckInv
<1>2. FindingIsVerdict'
  BY DEF CheckInv, FindingIsVerdict, Verdict, Critical
<1>3. ReportIsVerdict'
  BY <1>1 DEF CheckInv, ReportIsVerdict
<1> QED BY <1>1, <1>2, <1>3 DEF CheckInv

-----------------------------------------------------------------------------
(* The steps of the watchdog itself.                                       *)

LEMMA CheckStarts == WInit => CheckInv
<1> SUFFICES ASSUME WInit PROVE CheckInv
  OBVIOUS
<1>1. current = FALSE /\ watch.at = "idle"
  BY DEF WInit
<1> QED BY <1>1 DEF CheckInv, FindingIsVerdict, ReportIsVerdict

LEMMA WatchKeepsCheck ==
    ASSUME CheckInv,
           \/ WatchStep \/ WatchListNothing \/ WatchSkipSeals \/ KillWatch \/ ReportExpires
           \/ ReportWriteFails \/ AlertDeleteFails
    PROVE  CheckInv'
<1>c. UNCHANGED <<chain, latest, lineage>>
  BY DEF WatchStep, WatchListSeals, WatchReadLineage, WatchReadPointer, WriteReport, Escalate,
         WatchListNothing, WatchSkipSeals, KillWatch, ReportExpires, ReportWriteFails,
         AlertDeleteFails, Unwatched, repairVars, keys, growth
<1>1. CASE WatchReadPointer
  <2>1. FindingIsVerdict'
    BY <1>1, <1>c DEF WatchReadPointer, FindingIsVerdict, Verdict
  <2>2. ReportIsVerdict' /\ current' \in BOOLEAN
    BY <1>1, <1>c DEF WatchReadPointer, CheckInv, ReportIsVerdict, Verdict, Critical
  <2> QED BY <2>1, <2>2 DEF CheckInv
<1>2. CASE WriteReport
  <2>1. FindingIsVerdict' /\ current' \in BOOLEAN
    BY <1>2 DEF WriteReport, FindingIsVerdict
  <2>2. ASSUME current'
        PROVE  report' = Verdict(chain', lineage', latest')
    <3>1. /\ watch.at = "report" /\ watch.finding # Skipped /\ watch.seals = chain
          /\ watch.lineage = lineage /\ watch.pointer = latest /\ report' = watch.finding
      BY <1>2, <2>2 DEF WriteReport
    <3>2. watch.finding = Verdict(chain, lineage, latest)
      BY <3>1 DEF CheckInv, FindingIsVerdict
    <3> QED BY <3>1, <3>2, <1>c
  <2> QED BY <2>1, <2>2 DEF CheckInv, ReportIsVerdict
<1>3. CASE WatchListSeals
  BY <1>3, <1>c DEF WatchListSeals, CheckInv, FindingIsVerdict, ReportIsVerdict, Verdict, Critical, None
<1>4. CASE WatchReadLineage
  BY <1>4, <1>c DEF WatchReadLineage, CheckInv, FindingIsVerdict, ReportIsVerdict, Verdict, Critical, None
<1>5. CASE Escalate
  BY <1>5, <1>c DEF Escalate, CheckInv, FindingIsVerdict, ReportIsVerdict, Verdict, Critical, None
<1>6. CASE WatchListNothing
  BY <1>6, <1>c DEF WatchListNothing, CheckInv, FindingIsVerdict, ReportIsVerdict, Verdict, Critical, None
<1>7. CASE WatchSkipSeals
  BY <1>7, <1>c DEF WatchSkipSeals, CheckInv, FindingIsVerdict, ReportIsVerdict, Verdict, Critical, None
<1>8. CASE KillWatch
  BY <1>8, <1>c DEF KillWatch, CheckInv, FindingIsVerdict, ReportIsVerdict, Verdict, Critical, None
<1>9. CASE ReportExpires
  BY <1>9, <1>c DEF ReportExpires, CheckInv, FindingIsVerdict, ReportIsVerdict, Verdict, Critical, None
<1>10. CASE ReportWriteFails
  BY <1>10, <1>c DEF ReportWriteFails, CheckInv, FindingIsVerdict, ReportIsVerdict, Verdict, Critical, None
<1>11. CASE AlertDeleteFails
  BY <1>11, <1>c DEF AlertDeleteFails, CheckInv, FindingIsVerdict, ReportIsVerdict, Verdict, Critical, None
<1> QED BY <1>1, <1>2, <1>3, <1>4, <1>5, <1>6, <1>7, <1>8, <1>9, <1>10, <1>11 DEF WatchStep

LEMMA CheckKept == CheckInv /\ [WNext]_vars => CheckInv'
<1> SUFFICES ASSUME CheckInv, [WNext]_vars PROVE CheckInv'
  OBVIOUS
<1>1. CASE RepairOrGrowth
  BY <1>1, GrowthIsMove, MovedKeepsCheck
<1>2. CASE ActivateLineage
  BY <1>2, MovedKeepsCheck DEF ActivateLineage
<1>3. CASE UNCHANGED vars
  <2>1. Moved /\ UNCHANGED <<watch, report>>
    BY <1>3 DEF vars, repairVars, watchVars, keys, growth, Moved, CheckInv
  <2> QED BY <2>1, MovedKeepsCheck
<1> QED BY <1>1, <1>2, <1>3, WatchKeepsCheck DEF WNext

(* While nothing has moved since a completed check, the gate is closed     *)
(* exactly when the chain is unsafe, for every chain and any number of     *)
(* repair scripts.                                                         *)
THEOREM GateSpeaksForChain == WSpec => []GateMeansChain
<1>1. CheckInv => GateMeansChain
  BY DEF CheckInv, ReportIsVerdict, GateMeansChain, GateActive, ChainSafe, Verdict,
         None, Finding, Clean
<1> QED BY <1>1, CheckStarts, CheckKept, PTL DEF WSpec

-----------------------------------------------------------------------------
(* Types, and the alert.                                                   *)


Checked == watch.at \in {"report", "escalate"} => watch.finding \in {Finding, Clean, Skipped}

WTInv == TInv /\ WTypeOK /\ Checked

LEMMA WTInvInit == WInit => WTInv
<1> SUFFICES ASSUME WInit PROVE WTInv
  OBVIOUS
<1>1. TInv
  BY TInvInit DEF WInit
<1>2. NoLineage \in [index : [Blocks -> NamesOrNone], quarantined : SUBSET Names]
  BY DEF NoLineage, NamesOrNone
<1>3. /\ lineage = NoLineage /\ activated = 0 /\ report = None /\ alert = None
      /\ watch = [at |-> "idle"] /\ faults = 0 /\ current = FALSE /\ unwritten = FALSE
  BY DEF WInit
<1>4. activated \in 0..MaxLineages /\ faults \in 0..MaxFaults
  BY <1>3, FaultsAssumption
<1>5. watch.at = "idle"
  BY <1>3
<1> HIDE DEF None, Finding, Clean, Skipped
<1> QED BY <1>1, <1>2, <1>3, <1>4, <1>5 DEF WTInv, WTypeOK, TInv, Checked

LEMMA WTInvKept == WTInv /\ [WNext]_vars => WTInv'
<1> SUFFICES ASSUME WTInv, [WNext]_vars PROVE WTInv'
  OBVIOUS
<1> USE FaultsAssumption
<1>1. ASSUME UNCHANGED repairVars PROVE TInv'
  BY <1>1 DEF repairVars, keys, growth, WTInv, TInv, RTypeOK, Numbered, ScriptsHold
<1>2. TInv' => RTypeOK'
  BY DEF TInv
<1>3. CASE RepairOrGrowth
  <2>1. TInv'
    BY <1>3, TInvGrowth, TInvScript DEF RepairOrGrowth, WTInv
  <2>2. UNCHANGED <<lineage, activated, report, alert, watch, faults, unwritten>> /\ current' \in BOOLEAN
    BY <1>3 DEF RepairOrGrowth, Moved, WTInv, WTypeOK
  <2> QED BY <2>1, <2>2, <1>2 DEF WTInv, WTypeOK, Checked
<1>4. CASE ActivateLineage
  <2>1. PICK choice \in [Collisions(chain) -> Attested(chain)] :
          lineage' = [index |-> [b \in Blocks |-> IF b \in DOMAIN choice THEN choice[b] ELSE NoSeal],
                      quarantined |-> {s \in Attested(chain) :
                          s.block \in DOMAIN choice /\ choice[s.block] # s}]
    BY <1>4 DEF ActivateLineage
  <2>2. Attested(chain) \subseteq Names /\ Names \subseteq NamesOrNone /\ NoSeal \in NamesOrNone
    BY DEF WTInv, TInv, RTypeOK, Attested, NamesOrNone
  <2>3. lineage' \in [index : [Blocks -> NamesOrNone], quarantined : SUBSET Names]
    BY <2>1, <2>2
  <2>4. UNCHANGED <<repairVars, report, alert, watch, faults, unwritten>> /\ activated' = activated + 1
        /\ activated < MaxLineages /\ Moved
    BY <1>4 DEF ActivateLineage
  <2>5. activated' \in 0..MaxLineages /\ current' \in BOOLEAN
    BY <2>4 DEF WTInv, WTypeOK, Moved
  <2> QED BY <2>3, <2>4, <2>5, <1>1, <1>2 DEF WTInv, WTypeOK, Checked
<1>5. ASSUME \/ WatchStep \/ WatchListNothing \/ WatchSkipSeals \/ ReportExpires
             \/ ReportWriteFails \/ AlertDeleteFails
      PROVE  WTInv'
  <2>1. UNCHANGED <<repairVars, lineage, activated>> /\ unwritten' \in BOOLEAN
    BY <1>5 DEF WatchStep, WatchListSeals, WatchReadLineage, WatchReadPointer, WriteReport, Escalate,
                WatchListNothing, WatchSkipSeals, ReportExpires, ReportWriteFails,
                AlertDeleteFails, Unwatched, WTInv, WTypeOK
  <2>2. /\ report' \in {None, Finding, Clean, Skipped} /\ alert' \in {None, Finding}
        /\ current' \in BOOLEAN /\ faults' \in 0..MaxFaults
        /\ watch'.at \in {"idle", "lineage", "pointer", "report", "escalate"} /\ Checked'
    <3>1. /\ report \in {None, Finding, Clean, Skipped} /\ alert \in {None, Finding}
          /\ current \in BOOLEAN /\ faults \in 0..MaxFaults
          /\ watch.at \in {"report", "escalate"} => watch.finding \in {Finding, Clean, Skipped}
          /\ watch.at \in {"idle", "lineage", "pointer", "report", "escalate"}
      BY DEF WTInv, WTypeOK, Checked
    <3>2. CASE WatchListSeals
      BY <3>1, <3>2 DEF WatchListSeals, Checked
    <3>3. CASE WatchReadLineage
      BY <3>1, <3>3 DEF WatchReadLineage, Checked
    <3>4. CASE WatchReadPointer
      BY <3>1, <3>4 DEF WatchReadPointer, Checked
    <3>5. CASE WriteReport
      BY <3>1, <3>5 DEF WriteReport, Checked
    <3>6. CASE Escalate
      BY <3>1, <3>6 DEF Escalate, Checked
    <3>7. CASE WatchListNothing
      BY <3>1, <3>7 DEF WatchListNothing, Checked
    <3>8. CASE WatchSkipSeals
      BY <3>1, <3>8 DEF WatchSkipSeals, Checked
    <3>9. CASE ReportExpires
      BY <3>1, <3>9 DEF ReportExpires, Checked
    <3>10. CASE ReportWriteFails
      BY <3>1, <3>10 DEF ReportWriteFails, Checked
    <3>11. CASE AlertDeleteFails
      BY <3>1, <3>11 DEF AlertDeleteFails, Checked
    <3> QED
      BY <1>5, <3>2, <3>3, <3>4, <3>5, <3>6, <3>7, <3>8, <3>9, <3>10, <3>11 DEF WatchStep
  <2> QED BY <2>1, <2>2, <1>1, <1>2 DEF WTInv, WTypeOK
<1>6. CASE KillWatch
  <2>1. kills' \in 0..MaxKills
    BY <1>6, BoundsAssumption DEF KillWatch, WTInv, TInv, RTypeOK
  <2>2. TInv'
    BY <1>6, <2>1 DEF KillWatch, keys, growth, WTInv, TInv, RTypeOK, Numbered, ScriptsHold
  <2> QED BY <1>6, <2>2, <1>2 DEF KillWatch, WTInv, WTypeOK, Checked
<1>7. CASE UNCHANGED vars
  BY <1>7, <1>1, <1>2 DEF vars, watchVars, WTInv, WTypeOK, Checked
<1> QED BY <1>3, <1>4, <1>5, <1>6, <1>7 DEF WNext

(* Type correctness of the watchdog beside the repair.                     *)
THEOREM WatchdogTypeCorrect == WSpec => []WTypeOK
<1>1. WTInv => WTypeOK
  BY DEF WTInv
<1> QED BY <1>1, WTInvInit, WTInvKept, PTL DEF WSpec

(* Between the report and the alert a run knows what it reported.          *)
AlertInv ==
    /\ kills \in Nat
    /\ kills = 0 /\ ~unwritten /\ watch.at = "escalate" => report = watch.finding
    /\ AlertFollowsReport

LEMMA AlertInvKept == AlertInv /\ [WNext]_vars => AlertInv'
<1> SUFFICES ASSUME AlertInv, [WNext]_vars PROVE AlertInv'
  OBVIOUS
<1>1. CASE RepairOrGrowth
  <2>1. UNCHANGED <<watch, report, alert, unwritten>>
    BY <1>1, GrowthIsMove
  <2>2. kills' \in Nat /\ (kills' = 0 => kills = 0)
    <3>1. CASE FormCandidate \/ AttestSeal \/ RejectSeal \/ ApproveReceipt
      BY <3>1 DEF FormCandidate, AttestSeal, RejectSeal, Ungrown, ApproveReceipt, AlertInv
    <3>2. ASSUME NEW o \in Scripts, ScriptStep(o) PROVE kills' = kills
      BY <3>2 DEF ScriptStep, ListSeals, ReadCanonical, ReadQuarantined, ReadLatest, ReadOthers,
                  Commit, CommitNothing, ReadJournal, WriteJournal
    <3>3. ASSUME NEW o \in Scripts, KillScript(o) PROVE kills' = kills + 1
      BY <3>3 DEF KillScript
    <3> QED BY <1>1, <3>1, <3>2, <3>3 DEF RepairOrGrowth, AlertInv
  <2> QED BY <2>1, <2>2 DEF AlertInv, AlertFollowsReport
<1>2. CASE ActivateLineage
  BY <1>2 DEF ActivateLineage, repairVars, AlertInv, AlertFollowsReport
<1>3. CASE \/ WatchStep \/ WatchListNothing \/ WatchSkipSeals \/ ReportExpires
            \/ ReportWriteFails \/ AlertDeleteFails
  <2>1. CASE WatchListSeals
    BY <2>1 DEF WatchListSeals, Unwatched, repairVars, AlertInv, AlertFollowsReport, None, Finding
  <2>2. CASE WatchReadLineage
    BY <2>2 DEF WatchReadLineage, Unwatched, repairVars, AlertInv, AlertFollowsReport, None, Finding
  <2>3. CASE WatchReadPointer
    BY <2>3 DEF WatchReadPointer, Unwatched, repairVars, AlertInv, AlertFollowsReport, None, Finding
  <2>4. CASE WriteReport
    BY <2>4 DEF WriteReport, Unwatched, repairVars, AlertInv, AlertFollowsReport, None, Finding
  <2>5. CASE Escalate
    BY <2>5 DEF Escalate, Unwatched, repairVars, AlertInv, AlertFollowsReport, None, Finding
  <2>6. CASE WatchListNothing
    BY <2>6 DEF WatchListNothing, Unwatched, repairVars, AlertInv, AlertFollowsReport, None, Finding
  <2>7. CASE WatchSkipSeals
    BY <2>7 DEF WatchSkipSeals, Unwatched, repairVars, AlertInv, AlertFollowsReport, None, Finding
  <2>8. CASE ReportExpires
    BY <2>8 DEF ReportExpires, Unwatched, repairVars, AlertInv, AlertFollowsReport, None, Finding
  <2>9. CASE ReportWriteFails \/ AlertDeleteFails
    BY <2>9 DEF ReportWriteFails, AlertDeleteFails, repairVars, AlertInv, AlertFollowsReport
  <2> QED BY <1>3, <2>1, <2>2, <2>3, <2>4, <2>5, <2>6, <2>7, <2>8, <2>9 DEF WatchStep
<1>4. CASE KillWatch
  BY <1>4 DEF KillWatch, AlertInv, AlertFollowsReport
<1>5. CASE UNCHANGED vars
  BY <1>5 DEF vars, repairVars, watchVars, AlertInv, AlertFollowsReport
<1> QED BY <1>1, <1>2, <1>3, <1>4, <1>5 DEF WNext

(* The alert that outlives the report says what the report said.           *)
THEOREM AlertSpeaksForReport == WSpec => []AlertFollowsReport
<1>1. WInit => AlertInv
  BY DEF WInit, RInit, AlertInv, AlertFollowsReport
<1>2. AlertInv => AlertFollowsReport
  BY DEF AlertInv
<1> QED BY <1>1, <1>2, AlertInvKept, PTL DEF WSpec
=============================================================================
