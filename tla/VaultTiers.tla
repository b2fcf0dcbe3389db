----------------------------- MODULE VaultTiers -----------------------------
(***************************************************************************)
(* The v1 vault deposit (lib/vault/vault.ts) over the three tiers of the   *)
(* key-value store (lib/kv/store.ts, backup-redis.ts, kvBridgeClient.ts):  *)
(* the primary, a backup Redis that writes are mirrored to and reads fall  *)
(* back on, and a bridge that holds balance and meta in one slot.  Mirrors *)
(* are started and not awaited: they land in any order, are dropped while  *)
(* the backup is thought unhealthy, and die with their instance.  While    *)
(* the primary is down a deposit reads the backup and writes the bridge.   *)
(* Each deposit adds one unit; balance and meta count units and entries.   *)
(***************************************************************************)
EXTENDS Integers, Sequences, FiniteSets, SequencesExt

CONSTANTS Deposits,    \* deposits, each written once
          MaxOutages,  \* bound: outages of the primary, and of the backup
          MaxPending,  \* bound: mirrors under way, and copies under way
          MaxLost      \* bound: mirrors lost with their instance, writes refused

ASSUME TiersAssumption ==
    /\ IsFiniteSet(Deposits)
    /\ MaxOutages \in Nat /\ MaxPending \in Nat /\ MaxLost \in Nat

Keys == {"balance", "meta"}
Counts == 0..Cardinality(Deposits)   \* 0 also stands for a missing row
Empty == [k \in Keys |-> 0]

VARIABLES primary,     \* [balance, meta] in the primary
          up,          \* the primary answers
          backup,      \* [balance, meta] in the backup
          backupUp,    \* the backup answers
          healthy,     \* the cached health of the backup
          bridge,      \* the slot of the bridge
          rows,        \* vault:deposits in the primary
          mirrors,     \* backup writes under way, in the order they were started
          copies,      \* bridge writes under way: what each has read so far
          deposit,     \* where each deposit is and what it has read
          outages, lost,
          shared,      \* observed: two deposits were under way at once
          fellBack,    \* observed: a deposit met the primary down
          strayed      \* observed: a mirror was dropped, lost or overtaken

tiers == <<primary, backup, bridge, rows>>
answers == <<up, backupUp, outages>>
vars == <<tiers, answers, healthy, mirrors, copies, deposit, lost, shared, fellBack, strayed>>

Waiting == [at |-> "start"]
Done == [at |-> "done"]

VInit ==
    /\ primary = Empty /\ backup = Empty /\ bridge = Empty /\ rows = 0
    /\ up = TRUE /\ backupUp = TRUE /\ healthy = TRUE
    /\ mirrors = <<>> /\ copies = <<>>
    /\ deposit = [d \in Deposits |-> Waiting]
    /\ outages = 0 /\ lost = 0
    /\ shared = FALSE /\ fellBack = FALSE /\ strayed = FALSE

-----------------------------------------------------------------------------
(* Fault: the tiers are added up.                                          *)
kvGet_Sum(k) == (IF up THEN primary[k] ELSE 0) + (IF backupUp THEN backup[k] ELSE 0) + bridge[k]

(* kvGet: the primary, on a miss or an error the backup, then the bridge.  *)
kvGet(k) ==
    IF up /\ primary[k] # 0 THEN primary[k]
    ELSE IF backupUp /\ backup[k] # 0 THEN backup[k]
    ELSE bridge[k]

Meets(d) ==
    /\ shared' = (shared \/ \E e \in Deposits \ {d} : deposit[e].at \notin {"start", "done"})
    /\ fellBack' = (fellBack \/ ~up)

(* Fault: the bridge gets no copy.                                         *)
SetPrimary_NoCopy(k, v) ==
    /\ primary' = [primary EXCEPT ![k] = v]
    /\ mirrors' = Append(mirrors, [key |-> k, value |-> v])
    /\ UNCHANGED <<bridge, copies>>

(* kvSet on the primary: the write, a backup mirror of the value, and a    *)
(* copy of both rows to the bridge, which will read them for itself.       *)
SetPrimary(k, v) ==
    /\ primary' = [primary EXCEPT ![k] = v]
    /\ mirrors' = Append(mirrors, [key |-> k, value |-> v])
    /\ copies' = Append(copies, [at |-> "balance", slot |-> Empty])
    /\ UNCHANGED bridge

Goto(d, at, v) == deposit' = [deposit EXCEPT ![d] = [at |-> at, value |-> v]]

Read(d, from, k, to) ==
    /\ deposit[d].at = from
    /\ Goto(d, to, kvGet(k))
    /\ Meets(d)
    /\ UNCHANGED <<tiers, answers, healthy, mirrors, copies, lost, strayed>>

ReadBalance(d) == Read(d, "start", "balance", "balance")
ReadMeta(d) == Read(d, "readMeta", "meta", "meta")

(* kvSet: when the primary refuses, the bridge alone takes the row, beside *)
(* the other row read from the bridge first.                               *)
Write(d, k, next) ==
    /\ deposit[d].at = k
    /\ Meets(d)
    /\ Len(mirrors) < MaxPending /\ Len(copies) < MaxPending
    /\ IF up THEN SetPrimary(k, deposit[d].value + 1) /\ Goto(d, next, 0)
       ELSE /\ deposit' = [deposit EXCEPT ![d] =
                  [at |-> "bridge", slot |-> [bridge EXCEPT ![k] = deposit[d].value + 1],
                   next |-> next]]
            /\ UNCHANGED <<primary, mirrors, copies, bridge>>
    /\ UNCHANGED <<backup, rows, answers, healthy, lost, strayed>>

(* Fault: the entries are not read again before they are written.          *)
WriteBalance_SkipsMeta(d) == Write(d, "balance", "meta")

WriteBalance(d) == Write(d, "balance", "readMeta")
WriteMeta(d) == Write(d, "meta", "row")

WriteBridge(d) ==
    /\ deposit[d].at = "bridge"
    /\ bridge' = deposit[d].slot
    /\ Goto(d, deposit[d].next, 0)
    /\ UNCHANGED <<primary, backup, rows, answers, healthy, mirrors, copies, lost,
                   shared, fellBack, strayed>>

(* The refusal of the bridge is an answer nobody looks at.                 *)
BridgeRefuses(d) ==
    /\ deposit[d].at = "bridge"
    /\ lost < MaxLost
    /\ lost' = lost + 1
    /\ Goto(d, deposit[d].next, 0)
    /\ UNCHANGED <<tiers, answers, healthy, mirrors, copies, shared, fellBack, strayed>>

(* Fault: a deposit whose row was refused is tried again from the start.   *)
PushRow_Again(d) ==
    /\ deposit[d].at = "row"
    /\ rows' = IF up THEN rows + 1 ELSE rows
    /\ deposit' = [deposit EXCEPT ![d] = IF up THEN Done ELSE Waiting]
    /\ Meets(d)
    /\ UNCHANGED <<primary, backup, bridge, answers, healthy, mirrors, copies, lost, strayed>>

(* The row is pushed on the list, or the failure is only logged.           *)
PushRow(d) ==
    /\ deposit[d].at = "row"
    /\ rows' = IF up THEN rows + 1 ELSE rows
    /\ deposit' = [deposit EXCEPT ![d] = Done]
    /\ Meets(d)
    /\ UNCHANGED <<primary, backup, bridge, answers, healthy, mirrors, copies, lost, strayed>>

-----------------------------------------------------------------------------
(* A mirror: skipped while the backup is thought unhealthy, else written,  *)
(* and a failure makes the backup unhealthy until the next ping.           *)

Overtakes(i) == \E j \in 1..(i - 1) : mirrors[j].key = mirrors[i].key

LandMirror(i) ==
    /\ healthy /\ backupUp
    /\ backup' = [backup EXCEPT ![mirrors[i].key] = mirrors[i].value]
    /\ mirrors' = RemoveAt(mirrors, i)
    /\ strayed' = (strayed \/ Overtakes(i))
    /\ UNCHANGED <<primary, bridge, rows, answers, healthy, copies, deposit, lost,
                   shared, fellBack>>

DropMirror(i) ==
    /\ ~(healthy /\ backupUp)
    /\ healthy' = FALSE
    /\ mirrors' = RemoveAt(mirrors, i)
    /\ strayed' = TRUE
    /\ UNCHANGED <<tiers, answers, copies, deposit, lost, shared, fellBack>>

Ping ==
    /\ healthy # backupUp
    /\ healthy' = backupUp
    /\ UNCHANGED <<tiers, answers, mirrors, copies, deposit, lost, shared, fellBack, strayed>>

(* A copy to the bridge reads the two rows of the primary, then writes.    *)
CopyReads(i, from, to) ==
    /\ copies[i].at = from
    /\ IF up
         THEN copies' = [copies EXCEPT ![i].at = to, ![i].slot[from] = primary[from]]
              /\ UNCHANGED strayed
         ELSE copies' = RemoveAt(copies, i) /\ strayed' = TRUE
    /\ UNCHANGED <<tiers, answers, healthy, mirrors, deposit, lost, shared, fellBack>>

CopyBalance(i) == CopyReads(i, "balance", "meta")
CopyMeta(i) == CopyReads(i, "meta", "write")

CopyLands(i) ==
    /\ copies[i].at = "write"
    /\ bridge' = copies[i].slot
    /\ copies' = RemoveAt(copies, i)
    /\ strayed' = (strayed \/ i > 1)
    /\ UNCHANGED <<primary, backup, rows, answers, healthy, mirrors, deposit, lost,
                   shared, fellBack>>

(* An instance ends with what it had started and not awaited.              *)
InstanceEnds ==
    /\ lost < MaxLost
    /\ lost' = lost + 1
    /\ strayed' = TRUE
    /\ \/ \E i \in DOMAIN mirrors : mirrors' = RemoveAt(mirrors, i) /\ UNCHANGED copies
       \/ \E i \in DOMAIN copies : copies' = RemoveAt(copies, i) /\ UNCHANGED mirrors
    /\ UNCHANGED <<tiers, answers, healthy, deposit, shared, fellBack>>

Quiet == UNCHANGED <<tiers, healthy, mirrors, copies, deposit, lost, shared, fellBack, strayed>>

PrimaryFails == up /\ outages < MaxOutages /\ outages' = outages + 1 /\ up' = FALSE
                /\ UNCHANGED backupUp /\ Quiet
PrimaryReturns == ~up /\ up' = TRUE /\ UNCHANGED <<backupUp, outages>> /\ Quiet
BackupFails == backupUp /\ outages < MaxOutages /\ outages' = outages + 1 /\ backupUp' = FALSE
               /\ UNCHANGED up /\ Quiet
BackupReturns == ~backupUp /\ backupUp' = TRUE /\ UNCHANGED <<up, outages>> /\ Quiet

-----------------------------------------------------------------------------
DepositStep(d) ==
    \/ ReadBalance(d) \/ WriteBalance(d) \/ ReadMeta(d) \/ WriteMeta(d)
    \/ WriteBridge(d) \/ BridgeRefuses(d) \/ PushRow(d)

MirrorStep == \E i \in DOMAIN mirrors : LandMirror(i) \/ DropMirror(i)
CopyStep == \E i \in DOMAIN copies : CopyBalance(i) \/ CopyMeta(i) \/ CopyLands(i)

VNext ==
    \/ \E d \in Deposits : DepositStep(d)
    \/ MirrorStep \/ CopyStep \/ Ping \/ InstanceEnds
    \/ PrimaryFails \/ PrimaryReturns \/ BackupFails \/ BackupReturns

(* A started request runs to its end and what it started is carried out;   *)
(* nothing says that an outage ends.                                       *)
VFairness ==
    /\ \A d \in Deposits : WF_vars(DepositStep(d))
    /\ WF_vars(MirrorStep) /\ WF_vars(CopyStep)

VSpec == VInit /\ [][VNext]_vars /\ VFairness

-----------------------------------------------------------------------------
(* Every tier holds counts, whichever way a value reached it.              *)
VTypeOK ==
    /\ primary \in [Keys -> Counts] /\ backup \in [Keys -> Counts]
    /\ bridge \in [Keys -> Counts] /\ rows \in Counts
    /\ mirrors \in Seq([key : Keys, value : Counts])
    /\ copies \in Seq([at : {"balance", "meta", "write"}, slot : [Keys -> Counts]])
    /\ \A d \in Deposits : deposit[d].at \in
         {"start", "balance", "readMeta", "meta", "row", "bridge", "done"}
    /\ up \in BOOLEAN /\ backupUp \in BOOLEAN /\ healthy \in BOOLEAN
    /\ outages \in 0..MaxOutages /\ lost \in 0..MaxLost

Begun == {d \in Deposits : deposit[d].at # "start"}
Ended == {d \in Deposits : deposit[d].at = "done"}

(* No tier ever counts a unit or an entry nobody deposited: a value that   *)
(* went round by the backup or the bridge is never counted twice.          *)
NothingInvented ==
    \A k \in Keys :
       /\ primary[k] <= Cardinality(Begun)
       /\ backup[k] <= Cardinality(Begun)
       /\ bridge[k] <= Cardinality(Begun)

(* Deposits that never overlapped one another nor met an outage of the     *)
(* primary are all counted by it, whatever became of the mirrors.          *)
LoneDepositsCounted ==
    ~shared /\ ~fellBack /\ Begun = Ended
      => /\ \A k \in Keys : primary[k] = Cardinality(Ended)
         /\ rows = Cardinality(Ended)

(* When every mirror lands in its turn and no deposit met an outage, the   *)
(* backup and the bridge end up holding what the primary holds.            *)
MirrorsCatchUp ==
    [](~strayed /\ ~fellBack) => <>[](backup = primary /\ bridge = primary)
=============================================================================
