-------------------------- MODULE CollisionRepair ---------------------------
(***************************************************************************)
(* The repair of colliding block numbers by approved receipts              *)
(* (lib/watchdog/collisionRepair.ts, collisionRepairTransaction.ts),       *)
(* beside the growth of the chain it repairs.  An operator's script lists  *)
(* the seals, reads the derived keys one by one, prepares a plan and       *)
(* commits it with one compare-and-set over three keys; then it appends to *)
(* a journal by reading it and writing it back.  Scripts run beside one    *)
(* another and beside the formation and attestation of new seals.          *)
(***************************************************************************)
EXTENDS CanonicalLineage

CONSTANTS Cycles,       \* the cycles the operators name
          Histories,    \* the chains the system may have inherited
          Scripts,      \* invocations of the repair script
          MaxSeals,     \* bound: seals attested
          MaxReceipts,  \* bound: approved receipts
          MaxKills      \* bound: scripts killed

Blocks == 1..MaxSeals
Names == [block : Blocks, cycle : Cycles]
Times == 0..MaxSeals

ASSUME BoundsAssumption == MaxSeals \in Nat /\ MaxKills \in Nat

(* Numbering starts at 1 and a seal's number is at most one above that of  *)
(* an earlier seal.                                                        *)
ASSUME HistoriesAssumption ==
    \A h \in Histories : /\ h \in [Names -> Times] /\ Attested(h) # {}
                         /\ \A s \in Attested(h) : s.block <= h[s]

VARIABLES chain,        \* the attested seals: what is stored under each name
          clock,        \* sealed_at of the last seal attested
          latest,       \* vault:seal:latest
          candidate,    \* name of the candidate, NoSeal when there is none
          canonical,    \* watchdog:canonical:block:<n>
          quarantined,  \* watchdog:canonical:quarantined
          receipts,     \* receipts approved by people, ZEUS and EVE
          journal,      \* the mutation journal: receipts and outcomes
          script,       \* what each running script has read and where it is
          kills,        \* scripts killed so far
          committed,    \* observed: receipts whose transaction went through
          overlapped,   \* observed: two scripts were in the journal at once
          reused        \* observed: names a second seal was stored under

growth == <<chain, clock, latest, candidate, reused>>
keys == <<growth, canonical, quarantined>>
repairVars == <<keys, receipts, journal, script, kills, committed, overlapped>>

Receipt == [block : Blocks, canonical : Names, conflicting : SUBSET Names,
            hashes : SUBSET (Names \X Times)]

Outcomes == {"committed", "already_applied", "failed"}

NoSeals == [s \in Names |-> 0]
NoReceipt == [block |-> 0, canonical |-> NoSeal, conflicting |-> {}, hashes |-> {}]

Idle == [at |-> "idle", receipt |-> NoReceipt, seals |-> NoSeals, before |-> NoSeal,
         quarantined |-> {}, latest |-> NoSeal, target |-> NoSeal,
         outcome |-> "none", journal |-> {}]

(* The pointer may be on any seal: a late promotion moves it back.         *)
RInit ==
    /\ chain \in Histories
    /\ clock = Max({chain[s] : s \in Names})
    /\ latest \in Attested(chain)
    /\ candidate = NoSeal
    /\ canonical = [b \in Blocks |-> NoSeal]
    /\ quarantined = {}
    /\ receipts = {}
    /\ journal = {}
    /\ script = [o \in Scripts |-> Idle]
    /\ kills = 0
    /\ committed = {}
    /\ overlapped = FALSE
    /\ reused = {}

-----------------------------------------------------------------------------
(* The chain grows: the next number follows the seal the pointer names.    *)
(* The name is taken whether or not a seal is stored under it, and a       *)
(* finalized seal overwrites what is stored there.                         *)

Ungrown == UNCHANGED <<canonical, quarantined, receipts, journal, script, kills,
                       committed, overlapped>>

FormCandidate ==
    /\ candidate = NoSeal
    /\ clock < MaxSeals
    /\ \E c \in Cycles : candidate' = [block |-> latest.block + 1, cycle |-> c]
    /\ UNCHANGED <<chain, clock, latest, reused>>
    /\ Ungrown

(* The candidate's name, given a second time if an attested seal has it.   *)
Overwritten == {s \in {candidate} : chain[s] # 0}

AttestSeal ==
    /\ candidate # NoSeal
    /\ chain' = [chain EXCEPT ![candidate] = clock + 1]
    /\ clock' = clock + 1
    /\ latest' = candidate
    /\ candidate' = NoSeal
    /\ reused' = reused \cup Overwritten
    /\ Ungrown

(* A rejected or quarantined decision stores the seal and leaves the       *)
(* pointer alone.                                                          *)
RejectSeal ==
    /\ candidate # NoSeal
    /\ chain' = [chain EXCEPT ![candidate] = 0]
    /\ candidate' = NoSeal
    /\ reused' = reused \cup Overwritten
    /\ UNCHANGED <<clock, latest>>
    /\ Ungrown

(* What an audit of a block sees: the hashes of its attested seals.        *)
Audit(b) == {<<s, chain[s]>> : s \in AttestedAt(chain, b)}

(* An audit finds a collision; people choose one seal and the receipt      *)
(* rules out the others the audit listed.                                  *)
ApproveReceipt ==
    /\ Cardinality(receipts) < MaxReceipts
    /\ \E b \in Collisions(chain) : \E s \in AttestedAt(chain, b) :
         receipts' = receipts \cup
           {[block |-> b, canonical |-> s, conflicting |-> AttestedAt(chain, b) \ {s},
             hashes |-> Audit(b)]}
    /\ UNCHANGED <<keys, journal, script, kills, committed, overlapped>>

-----------------------------------------------------------------------------
(* One run of the repair script with --apply.                              *)

Goto(o, next) == script' = [script EXCEPT ![o] = next]
Report(o, outcome) ==
    Goto(o, [Idle EXCEPT !.at = "journal", !.receipt = script[o].receipt, !.outcome = outcome])
End(o) == Goto(o, [Idle EXCEPT !.at = "done"])

(* The receipt's seals are stored as the audit saw them.                   *)
AsAudited(r) == \A s \in r.conflicting \cup {r.canonical} : <<s, chain[s]>> \in r.hashes

(* The receipt is loaded and the seals are listed; the receipt's seals are *)
(* on the list and their hashes have not changed.                          *)
ListSeals(o) ==
    /\ script[o].at = "idle"
    /\ \E r \in receipts :
         /\ AsAudited(r)
         /\ Goto(o, [Idle EXCEPT !.at = "canonical", !.receipt = r, !.seals = chain])
    /\ UNCHANGED <<keys, receipts, journal, kills, committed, overlapped>>

ReadCanonical(o) ==
    /\ script[o].at = "canonical"
    /\ Goto(o, [script[o] EXCEPT !.at = "quarantined",
                                 !.before = canonical[script[o].receipt.block]])
    /\ UNCHANGED <<keys, receipts, journal, kills, committed, overlapped>>

ReadQuarantined(o) ==
    /\ script[o].at = "quarantined"
    /\ Goto(o, [script[o] EXCEPT !.at = "latest", !.quarantined = quarantined])
    /\ UNCHANGED <<keys, receipts, journal, kills, committed, overlapped>>

ReadLatest(o) ==
    /\ script[o].at = "latest"
    /\ Goto(o, [script[o] EXCEPT !.at = "others", !.latest = latest])
    /\ UNCHANGED <<keys, receipts, journal, kills, committed, overlapped>>

NextQuarantined(o) == script[o].quarantined \cup script[o].receipt.conflicting

(* Fault: a plan without a target is not refused.                          *)
ReadOthers_NoTarget(o) ==
    /\ script[o].at = "others"
    /\ LET r == script[o].receipt
           index == [canonical EXCEPT ![r.block] = r.canonical]
           target == NewestCanonical(script[o].seals, NextQuarantined(o), index)
       IN Goto(o, [script[o] EXCEPT !.at = "commit", !.target = target])
    /\ UNCHANGED <<keys, receipts, journal, kills, committed, overlapped>>

(* The canonical index of every other block, then the plan: refused while  *)
(* any block is unresolved, since the pointer would have no target.        *)
ReadOthers(o) ==
    /\ script[o].at = "others"
    /\ LET r == script[o].receipt
           index == [canonical EXCEPT ![r.block] = r.canonical]
           target == NewestCanonical(script[o].seals, NextQuarantined(o), index)
       IN IF target = NoSeal
            THEN End(o)
            ELSE Goto(o, [script[o] EXCEPT !.at = "commit", !.target = target])
    /\ UNCHANGED <<keys, receipts, journal, kills, committed, overlapped>>

AlreadyApplied(o) ==
    /\ script[o].before = script[o].receipt.canonical
    /\ script[o].quarantined = NextQuarantined(o)
    /\ script[o].latest = script[o].target

(* Fault: the transaction does not compare the quarantine list.            *)
KeysAsRead_NoQuarantine(o) ==
    /\ canonical[script[o].receipt.block] = script[o].before
    /\ latest = script[o].latest

KeysAsRead(o) ==
    /\ canonical[script[o].receipt.block] = script[o].before
    /\ quarantined = script[o].quarantined
    /\ latest = script[o].latest

(* Fault: the index of the block is not among the keys written.            *)
Commit_KeepsIndex(o) ==
    /\ script[o].at = "commit"
    /\ ~AlreadyApplied(o)
    /\ KeysAsRead(o)
    /\ quarantined' = NextQuarantined(o)
    /\ latest' = script[o].target
    /\ committed' = committed \cup {script[o].receipt}
    /\ Report(o, "committed")
    /\ UNCHANGED <<chain, clock, candidate, reused, canonical, receipts, journal, kills, overlapped>>

(* The transaction: three keys compared and three written, or none.        *)
Commit(o) ==
    /\ script[o].at = "commit"
    /\ ~AlreadyApplied(o)
    /\ KeysAsRead(o)
    /\ canonical' = [canonical EXCEPT ![script[o].receipt.block] = script[o].receipt.canonical]
    /\ quarantined' = NextQuarantined(o)
    /\ latest' = script[o].target
    /\ committed' = committed \cup {script[o].receipt}
    /\ Report(o, "committed")
    /\ UNCHANGED <<chain, clock, candidate, reused, receipts, journal, kills, overlapped>>

CommitNothing(o) ==
    /\ script[o].at = "commit"
    /\ \/ AlreadyApplied(o) /\ Report(o, "already_applied")
       \/ ~AlreadyApplied(o) /\ ~KeysAsRead(o) /\ Report(o, "failed")
    /\ UNCHANGED <<keys, receipts, journal, kills, committed, overlapped>>

ReadJournal(o) ==
    /\ script[o].at = "journal"
    /\ Goto(o, [script[o] EXCEPT !.at = "write", !.journal = journal])
    /\ overlapped' = (overlapped \/ \E p \in Scripts : script[p].at = "write")
    /\ UNCHANGED <<keys, receipts, journal, kills, committed>>

(* Fault: the entry replaces the journal.                                  *)
WriteJournal_Replaces(o) ==
    /\ script[o].at = "write"
    /\ journal' = {<<script[o].receipt, script[o].outcome>>}
    /\ End(o)
    /\ UNCHANGED <<keys, receipts, kills, committed, overlapped>>

WriteJournal(o) ==
    /\ script[o].at = "write"
    /\ journal' = script[o].journal \cup {<<script[o].receipt, script[o].outcome>>}
    /\ End(o)
    /\ UNCHANGED <<keys, receipts, kills, committed, overlapped>>

KillScript(o) ==
    /\ script[o].at \notin {"idle", "done"}
    /\ kills < MaxKills
    /\ kills' = kills + 1
    /\ End(o)
    /\ UNCHANGED <<keys, receipts, journal, committed, overlapped>>

ScriptStep(o) ==
    \/ ListSeals(o) \/ ReadCanonical(o) \/ ReadQuarantined(o) \/ ReadLatest(o)
    \/ ReadOthers(o) \/ Commit(o) \/ CommitNothing(o)
    \/ ReadJournal(o) \/ WriteJournal(o)

RNext ==
    \/ FormCandidate \/ AttestSeal \/ RejectSeal \/ ApproveReceipt
    \/ \E o \in Scripts : ScriptStep(o) \/ KillScript(o)

RSpec == RInit /\ [][RNext]_repairVars

-----------------------------------------------------------------------------
NamesOrNone == Names \cup {NoSeal}

Run == [at : {"idle", "canonical", "quarantined", "latest", "others", "commit",
              "journal", "write", "done"},
        receipt : Receipt \cup {NoReceipt}, seals : [Names -> Times], before : NamesOrNone,
        quarantined : SUBSET Names, latest : NamesOrNone, target : NamesOrNone,
        outcome : Outcomes \cup {"none"}, journal : SUBSET (Receipt \X Outcomes)]

(* The keys hold values of their types, and a script only what it has read. *)
RTypeOK ==
    /\ chain \in [Names -> Times]
    /\ clock \in Times
    /\ latest \in Names
    /\ candidate \in NamesOrNone
    /\ canonical \in [Blocks -> NamesOrNone]
    /\ quarantined \in SUBSET Names
    /\ receipts \in SUBSET Receipt
    /\ journal \in SUBSET (Receipt \X Outcomes)
    /\ committed \subseteq receipts
    /\ script \in [Scripts -> Run]
    /\ kills \in 0..MaxKills /\ overlapped \in BOOLEAN /\ reused \in SUBSET Names

(* What a committed receipt ruled out stays ruled out: two scripts that    *)
(* read the same quarantine list never write over one another's additions. *)
RuledOutStaysOut == \A r \in committed : r.conflicting \subseteq quarantined

(* The pointer names a quarantined seal only when a second seal was stored *)
(* under that name: not when two receipts of one block disagree, nor when  *)
(* a script commits a plan made from an old list of seals.                 *)
PointerNotQuarantined == latest \in quarantined => latest \in reused

(* No repair ruled out the seal that another one of the block chose, and   *)
(* every chosen seal is the one that was stored under its name first.      *)
Agreed(b, repairs) ==
    \A r, t \in repairs : r.block = b /\ t.block = b =>
       r.canonical \notin t.conflicting /\ r.canonical \notin reused

(* A block some receipt settled keeps a seal that is both indexed and      *)
(* usable, as long as the receipts committed for it agree and no second    *)
(* seal took the name of the one they chose.                               *)
SettledBlockKeepsSeal ==
    \A b \in {r.block : r \in committed} :
       Agreed(b, committed) => canonical[b] \in Usable(chain, b, quarantined)

(* The commit of a plan made from the whole chain leaves no block          *)
(* unresolved and the pointer at the newest canonical seal, as long as the *)
(* committed receipts agree, although the index of the other blocks was    *)
(* read outside the transaction and may have changed since.                *)
RepairResolves ==
    [][\A o \in Scripts :
         (Commit(o) /\ script[o].seals = chain /\ \A b \in Blocks : Agreed(b, committed'))
           => /\ UnresolvedBlocks(chain, quarantined', canonical') = {}
              /\ latest' = NewestCanonical(chain, quarantined', canonical')]_repairVars

(* A committed repair is on the journal once its script is through, unless *)
(* a script was killed or two wrote the journal at the same time.          *)
RepairsOnRecord ==
    kills = 0 /\ ~overlapped =>
      \A r \in committed :
         \/ <<r, "committed">> \in journal
         \/ \E o \in Scripts : /\ script[o].at \in {"journal", "write"}
                                 /\ script[o].receipt = r /\ script[o].outcome = "committed"
=============================================================================
