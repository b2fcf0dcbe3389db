---------------------------- MODULE SealedReserve ----------------------------
(***************************************************************************)
(* Vault v2, the sealed reserve: deposits accrue to an in-progress balance, *)
(* every Threshold units become one seal candidate, the sentinels vote on   *)
(* the candidate, and the candidate is finalized as an attested, a          *)
(* quarantined or a rejected seal.                                          *)
(*                                                                         *)
(* Each action is one request handler, or one cron run, executed without    *)
(* overlapping another.  The state is the contents of the KV keys; the      *)
(* handlers keep nothing between requests.  The lanes here run without an   *)
(* operator: deposits, sentinel votes, the formation endpoint and the       *)
(* attestation cron.                                                        *)
(*                                                                         *)
(* Reserve is counted in multiples of the 6-decimal unit the code rounds    *)
(* to.  A seal hash covers the time and the contents of the formation, so   *)
(* it is modelled as the number of the formation.                           *)
(***************************************************************************)
EXTENDS SealQuorum

CONSTANTS
    Threshold,          \* VAULT_RESERVE_PARCEL_UNITS, and deposit.ts THRESHOLD
    Amounts,            \* the amounts of a deposit
    Signatures,         \* the content signatures of journal entries
    SubstrateOutcomes,  \* whether a substrate write may succeed, fail, or both
    RetryCap,           \* entries the substrate retry queue keeps
    CastVerdicts,       \* bound: the verdicts sentinels cast
    MaxReserve,         \* bound: deposits stop here
    MaxCycle,           \* bound: the last operator cycle
    None                \* no candidate, no latest seal

ASSUME ReserveAssumption ==
    /\ Threshold \in Nat \ {0}
    /\ Amounts \subseteq Nat \ {0}
    /\ SubstrateOutcomes \subseteq BOOLEAN
    /\ RetryCap \in Nat \ {0}
    /\ CastVerdicts \subseteq Verdicts
    /\ MaxReserve \in Nat
    /\ MaxCycle \in Nat \ {0}

(* A seal is named by its cycle and its sequence number (formatSealId), not *)
(* by its hash: two formations may share a name.                            *)
Cycles  == 1..MaxCycle
SealIds == Cycles \X Nat

Statuses == {"attested", "quarantined", "rejected"}

Seals ==
    [seq: Nat \ {0}, cycle: Cycles, hash: Nat, prev: Nat,
     sources: Seq(Signatures), votes: Votes, status: Statuses, pointer: BOOLEAN]

Candidates ==
    [seq: Nat \ {0}, cycle: Cycles, hash: Nat, prev: Nat,
     sources: Seq(Signatures), votes: Votes, open: BOOLEAN]

Links == [hash: Nat, prev: Nat]

ASSUME NoneAssumption == None \notin SealIds \cup Candidates \cup Links

VARIABLES
    v1Balance,   \* mobius:vault:global:balance, every unit ever deposited
    balance,     \* vault:in_progress_balance
    hashes,      \* vault:in_progress_hashes, a sequence without repetition
    candidate,   \* vault:seal:candidate
    seals,       \* vault:seal:<id>, the stored seals by name
    chain,       \* vault:seals:index:attested (and its legacy mirror)
    audit,       \* vault:seals:index:all
    latest,      \* vault:seal:latest
    retry,       \* vault:substrate:retry_queue, names, newest first
    gate,        \* TRUE while the watchdog reports critical collisions
    cycle,       \* the operator cycle
    formed       \* how many candidates were ever formed

ledger   == <<v1Balance, balance, hashes>>
store    == <<seals, chain, audit, latest, retry>>
vars     == <<ledger, candidate, store, gate, cycle, formed>>

Id(s) == <<s.cycle, s.seq>>

Put(f, k, v) == [x \in DOMAIN f \cup {k} |-> IF x = k THEN v ELSE f[x]]

(* Fault: the new name goes to the front of the index.                      *)
PushIfMissing_InFront(s, x) == IF x \in Range(s) THEN s ELSE <<x>> \o s

PushIfMissing(s, x) == IF x \in Range(s) THEN s ELSE Append(s, x)

(* The entries of s that are in T, in their order: SelectSeq, as a function *)
(* the proofs can unfold.                                                   *)
Kept(s, T) ==
    LET kept[i \in 0..Len(s)] ==
            IF i = 0 THEN <<>>
            ELSE IF s[i] \in T THEN Append(kept[i - 1], s[i]) ELSE kept[i - 1]
    IN  kept[Len(s)]

(* The hash and sequence number the next candidate extends: those of the    *)
(* seal the latest pointer names, or zeros when there is none.              *)
Tip(ss, id) ==
    IF id \in DOMAIN ss THEN [seq |-> ss[id].seq, hash |-> ss[id].hash]
                        ELSE [seq |-> 0, hash |-> 0]

Init ==
    /\ v1Balance = 0 /\ balance = 0 /\ hashes = <<>>
    /\ candidate = None
    /\ seals = [id \in {} |-> None] /\ chain = <<>> /\ audit = <<>>
    /\ latest = None /\ retry = <<>>
    /\ gate = FALSE
    /\ cycle = 1
    /\ formed = 0

-----------------------------------------------------------------------------
(* Formation.                                                               *)

(* Fault: the candidate takes the number of the seal it extends.            *)
NewCandidate_SameNumber(t, hs) ==
    [seq |-> t.seq, cycle |-> cycle, hash |-> formed + 1, prev |-> t.hash,
     sources |-> hs, votes |-> NoVotes, open |-> TRUE]

(* formCandidate: a candidate on top of tip t that seals the deposits hs.   *)
NewCandidate(t, hs) ==
    [seq |-> t.seq + 1, cycle |-> cycle, hash |-> formed + 1, prev |-> t.hash,
     sources |-> hs, votes |-> NoVotes, open |-> TRUE]

(* Fault: a formation clears all deposit hashes.                            *)
CarriedForward_Nothing(hs, overflow) == <<>>

(* What is left of the deposit hashes after a formation: the last one, when *)
(* part of its value spills over into the next parcel.                      *)
CarriedForward(hs, overflow) ==
    IF overflow > 0 /\ hs # <<>> THEN <<hs[Len(hs)]>> ELSE <<>>

(* Fault: the overflow is not written back.                                 *)
FormNext_DropsOverflow(t) ==
    IF gate \/ balance < Threshold
    THEN candidate' = None /\ UNCHANGED <<balance, hashes, formed>>
    ELSE /\ candidate' = NewCandidate(t, hashes)
         /\ balance' = 0
         /\ hashes' = CarriedForward(hashes, balance - Threshold)
         /\ formed' = formed + 1

(* Fault: reserve of exactly one parcel is taken to be below the threshold. *)
FormNext_OffByOne(t) ==
    IF gate \/ balance <= Threshold
    THEN candidate' = None /\ UNCHANGED <<balance, hashes, formed>>
    ELSE /\ candidate' = NewCandidate(t, hashes)
         /\ balance' = balance - Threshold
         /\ hashes' = CarriedForward(hashes, balance - Threshold)
         /\ formed' = formed + 1

(* tryFormNextCandidate on top of tip t, when no candidate is stored.       *)
FormNext(t) ==
    IF gate \/ balance < Threshold
    THEN candidate' = None /\ UNCHANGED <<balance, hashes, formed>>
    ELSE /\ candidate' = NewCandidate(t, hashes)
         /\ balance' = balance - Threshold
         /\ hashes' = CarriedForward(hashes, balance - Threshold)
         /\ formed' = formed + 1

(* writeVaultDeposit followed by accrueDepositV2.  A deposit that reaches   *)
(* the threshold while a candidate is in flight, or while the gate is       *)
(* closed, is queued.                                                       *)
Deposit(amount, sig) ==
    LET next == balance + amount
        all  == PushIfMissing(hashes, sig)
    IN  /\ v1Balance + amount <= MaxReserve
        /\ v1Balance' = v1Balance + amount
        /\ IF next < Threshold \/ candidate # None \/ gate
           THEN /\ balance' = next
                /\ hashes' = all
                /\ UNCHANGED <<candidate, formed>>
           ELSE /\ candidate' = NewCandidate(Tip(seals, latest), all)
                /\ balance' = next - Threshold
                /\ hashes' = IF next > Threshold THEN <<sig>> ELSE <<>>
                /\ formed' = formed + 1
        /\ UNCHANGED <<store, gate, cycle>>

(* Fault: the endpoint does not look for a candidate in flight.             *)
RequestFormation_OverCandidate ==
    /\ balance >= Threshold /\ ~gate
    /\ FormNext(Tip(seals, latest))
    /\ UNCHANGED <<v1Balance, store, gate, cycle>>

(* POST /api/vault/seal: form the next candidate from queued reserve.       *)
RequestFormation ==
    /\ candidate = None
    /\ balance >= Threshold /\ ~gate
    /\ FormNext(Tip(seals, latest))
    /\ UNCHANGED <<v1Balance, store, gate, cycle>>

-----------------------------------------------------------------------------
(* Votes on the candidate.                                                  *)

(* POST /api/vault/seal/attest: a sentinel casts, or replaces, its vote     *)
(* while the attestation window is open; a pass is withheld by the gate.    *)
SubmitAttestation(agent, verdict) ==
    /\ candidate # None
    /\ candidate.open
    /\ ~(gate /\ verdict = "pass")
    /\ candidate' = [candidate EXCEPT !.votes[agent] = verdict]
    /\ UNCHANGED <<ledger, store, gate, cycle, formed>>

(* timeout_at passes.                                                       *)
CloseWindow ==
    /\ candidate # None
    /\ candidate.open
    /\ candidate' = [candidate EXCEPT !.open = FALSE]
    /\ UNCHANGED <<ledger, store, gate, cycle, formed>>

-----------------------------------------------------------------------------
(* Finalization and the attestation cron.                                   *)

(* Fault: the seal keeps the votes of the candidate as it was first read.   *)
SealOf_StaleVotes(c, v, ok) ==
    [seq |-> c.seq, cycle |-> c.cycle, hash |-> c.hash, prev |-> c.prev,
     sources |-> c.sources, votes |-> c.votes, status |-> EvaluateQuorum(v),
     pointer |-> ok /\ EvaluateQuorum(v) = "attested"]

(* finalizeSeal: the seal a candidate with votes v becomes.                 *)
SealOf(c, v, ok) ==
    [seq |-> c.seq, cycle |-> c.cycle, hash |-> c.hash, prev |-> c.prev,
     sources |-> c.sources, votes |-> v, status |-> EvaluateQuorum(v),
     pointer |-> ok /\ EvaluateQuorum(v) = "attested"]

(* enqueueSubstrateRetry: a name already queued is left where it is, and    *)
(* the oldest entry beyond the cap falls off.  The expiry of the queue is   *)
(* an action of HistoricalReserve, whose lanes read it; nothing here does.  *)
Enqueued(q, id) ==
    IF id \in Range(q) THEN q
    ELSE IF Len(q) < RetryCap THEN <<id>> \o q
    ELSE <<id>> \o SubSeq(q, 1, RetryCap - 1)

(* The names of a sequence, queued one after another.                       *)
EnqueuedAll(q, ids) ==
    LET queue[i \in 0..Len(ids)] ==
            IF i = 0 THEN q ELSE Enqueued(queue[i - 1], ids[i])
    IN  queue[Len(ids)]

(* Fault: the latest pointer is not moved.                                  *)
Stored_KeepsLatest(st, s) ==
    LET minted == s.status = "attested"
    IN  [seals  |-> Put(st.seals, Id(s), s),
         chain  |-> IF minted THEN PushIfMissing(st.chain, Id(s)) ELSE st.chain,
         audit  |-> PushIfMissing(st.audit, Id(s)),
         latest |-> st.latest,
         retry  |-> IF minted /\ ~s.pointer THEN Enqueued(st.retry, Id(s)) ELSE st.retry]

(* The store after writing seal s: an attested seal joins the chain and     *)
(* becomes the latest (appendSealToChain); any other outcome is only        *)
(* audited (writeSeal, appendSealToAuditChain).                             *)
Stored(st, s) ==
    LET minted == s.status = "attested"
    IN  [seals  |-> Put(st.seals, Id(s), s),
         chain  |-> IF minted THEN PushIfMissing(st.chain, Id(s)) ELSE st.chain,
         audit  |-> PushIfMissing(st.audit, Id(s)),
         latest |-> IF minted THEN Id(s) ELSE st.latest,
         retry  |-> IF minted /\ ~s.pointer THEN Enqueued(st.retry, Id(s)) ELSE st.retry]

Store == [seals |-> seals, chain |-> chain, audit |-> audit,
          latest |-> latest, retry |-> retry]

(* Quarantined seals that some sentinel has not voted on.                   *)
Unvoted(ss) ==
    {id \in DOMAIN ss : ss[id].status = "quarantined" /\ Missing(ss[id].votes) # {}}

(* The back-attestation sweep: every quarantined seal with votes missing,   *)
(* newest first, gets passing votes until its quorum is met; the seals that *)
(* reach it join the chain, and the last of them becomes the latest.  Seals *)
(* in skip are passed over.                                                 *)
Swept(st, ok, skip) ==
    LET todo      == Unvoted(st.seals) \ skip
        won       == {id \in todo : QuorumMet(SweptVotes(st.seals[id].votes))}
        promoted  == Kept(Reverse(st.audit), won)
        swept(id) == [st.seals[id] EXCEPT
                        !.votes   = SweptVotes(@),
                        !.status  = IF id \in won THEN "attested" ELSE @,
                        !.pointer = IF id \in won THEN ok ELSE @]
    IN  IF todo = {} THEN st
        ELSE [seals  |-> [id \in DOMAIN st.seals |->
                            IF id \in todo THEN swept(id) ELSE st.seals[id]],
              chain  |-> st.chain \o Kept(promoted, won \ Range(st.chain)),
              audit  |-> st.audit,
              latest |-> IF promoted = <<>> THEN st.latest ELSE Last(promoted),
              retry  |-> IF ok THEN st.retry ELSE EnqueuedAll(st.retry, promoted)]

SetStore(st) ==
    /\ seals' = st.seals /\ chain' = st.chain /\ audit' = st.audit
    /\ latest' = st.latest /\ retry' = st.retry

(* Fault: the cron votes over the sentinels.                                *)
CronVotes_OverCast(c) == [a \in Sentinels |-> IF gate THEN "flag" ELSE "pass"]

(* The cron's own votes: a pass for every silent sentinel, or a flag while  *)
(* the gate is active.  They leave no vote missing, so the candidate is     *)
(* always decided in the same run.                                          *)
CronVotes(c) == FillVotes(c.votes, IF gate THEN "flag" ELSE "pass")

(* The store once the candidate, if there is one, is decided; a singleton.  *)
Decided(ok) ==
    IF candidate = None THEN {Store}
    ELSE {Stored(Store, s) : s \in {SealOf(candidate, CronVotes(candidate), ok)}}

(* Fault: the next candidate extends the head read before the finalization. *)
VaultAttestation_StaleTip(ok) ==
    \E st \in Decided(ok) :
        /\ FormNext(Tip(seals, latest))
        /\ \E swept \in {IF gate THEN st ELSE Swept(st, ok, {})} : SetStore(swept)
        /\ UNCHANGED <<v1Balance, gate, cycle>>

(* Fault: the cron waits for votes instead of casting the missing ones.     *)
VaultAttestation_Waits(ok) ==
    /\ candidate # None => Missing(candidate.votes) = {}
    /\ \E st \in Decided(ok) :
        /\ FormNext(Tip(st.seals, st.latest))
        /\ \E swept \in {IF gate THEN st ELSE Swept(st, ok, {})} : SetStore(swept)
        /\ UNCHANGED <<v1Balance, gate, cycle>>

(* GET /api/cron/vault-attestation: decide the candidate, form the next one *)
(* from queued reserve, then sweep the quarantined seals.                   *)
VaultAttestation(ok) ==
    \E st \in Decided(ok) :
        /\ FormNext(Tip(st.seals, st.latest))
        /\ \E swept \in {IF gate THEN st ELSE Swept(st, ok, {})} : SetStore(swept)
        /\ UNCHANGED <<v1Balance, gate, cycle>>

-----------------------------------------------------------------------------
(* The surroundings: the watchdog opens and closes the gate, cycles roll.   *)

SwitchGate ==
    /\ gate' = ~gate
    /\ UNCHANGED <<ledger, candidate, store, cycle, formed>>

RollCycle ==
    /\ cycle < MaxCycle
    /\ cycle' = cycle + 1
    /\ UNCHANGED <<ledger, candidate, store, gate, formed>>

Next ==
    \/ \E amount \in Amounts, sig \in Signatures : Deposit(amount, sig)
    \/ RequestFormation
    \/ \E agent \in Sentinels, verdict \in CastVerdicts : SubmitAttestation(agent, verdict)
    \/ CloseWindow
    \/ \E ok \in SubstrateOutcomes : VaultAttestation(ok)
    \/ SwitchGate
    \/ RollCycle

CronFairness == WF_vars(\E ok \in SubstrateOutcomes : VaultAttestation(ok))

Spec == Init /\ [][Next]_vars
FairSpec == Spec /\ CronFairness

-----------------------------------------------------------------------------
(* Properties.                                                              *)

TypeOK ==
    /\ v1Balance \in Nat /\ balance \in Nat
    /\ hashes \in Seq(Signatures)
    /\ candidate \in Candidates \cup {None}
    /\ DOMAIN seals \subseteq SealIds
    /\ \A id \in DOMAIN seals : seals[id] \in Seals /\ Id(seals[id]) = id
    /\ chain \in Seq(SealIds) /\ audit \in Seq(SealIds)
    /\ latest \in SealIds \cup {None}
    /\ retry \in Seq(SealIds)
    /\ gate \in BOOLEAN
    /\ cycle \in Cycles
    /\ formed \in Nat

(* The attested index lists seals 1, 2, 3, ... in order, each holding the   *)
(* hash of the one before, and the latest pointer names its last entry.     *)
(* Formation reads the pointer, finalization moves it, in other requests.   *)
ChainLinked ==
    /\ \A i \in DOMAIN chain :
          /\ chain[i] \in DOMAIN seals
          /\ seals[chain[i]].status = "attested"
          /\ seals[chain[i]].seq = i
          /\ seals[chain[i]].prev = IF i = 1 THEN 0 ELSE seals[chain[i - 1]].hash
    /\ latest = IF chain = <<>> THEN None ELSE chain[Len(chain)]

(* However long a candidate waits for votes, it still extends the head of   *)
(* the chain when it is finalized: its number and its predecessor hash,     *)
(* both read at formation, are still those of the head.                     *)
CandidateOnTip ==
    candidate # None =>
        /\ candidate.seq = Len(chain) + 1
        /\ candidate.prev = Tip(seals, latest).hash
        /\ candidate.hash = formed

(* Every stored seal has the status its votes decide, no vote is missing,   *)
(* and the attested seals are exactly those of the attested index.          *)
StatusIsDecided ==
    \A id \in DOMAIN seals :
        /\ Missing(seals[id].votes) = {}
        /\ seals[id].status = EvaluateQuorum(seals[id].votes)
        /\ (seals[id].status = "attested") <=> (id \in Range(chain))

(* No deposit is lost and none is counted twice, through deferrals,         *)
(* overflows and formations in either lane: the v1 balance equals what is   *)
(* in progress plus one threshold for every parcel formed.                  *)
ReserveConserved == v1Balance = balance + Threshold * formed

(* No reserve without provenance: what is in progress names a deposit, and  *)
(* so does every parcel, also one formed from nothing but carried overflow. *)
ReserveHasSources ==
    /\ balance > 0 => hashes # <<>>
    /\ candidate # None => candidate.sources # <<>>
    /\ \A id \in DOMAIN seals : seals[id].sources # <<>>

(* An attested seal never changes: names are built from cycle and sequence  *)
(* number, so a later candidate must not be given the name of one.          *)
AttestedIsFinal ==
    [][\A id \in DOMAIN seals :
         seals[id].status = "attested" =>
            id \in DOMAIN seals' /\ seals'[id] = seals[id]]_vars

(* A cast vote counts as cast: when a candidate becomes a seal, the votes   *)
(* the sentinels submitted are in it unchanged, whatever the cron fills in. *)
CastVotesCount ==
    [][\A id \in DOMAIN seals' :
         candidate # None /\ seals'[id].hash = candidate.hash /\ candidate'# candidate =>
            \A a \in Sentinels \ Missing(candidate.votes) :
                seals'[id].votes[a] = candidate.votes[a]]_vars

(* Every candidate is decided, with the sentinels silent or not.            *)
CandidateDecided ==
    \A n \in 1..(MaxReserve \div Threshold) :
        (candidate # None /\ formed = n) ~> (candidate = None \/ formed > n)

(* Reserve queued behind a candidate is formed into parcels, one per cron   *)
(* run, until less than a threshold is left or the gate closes.             *)
QueuedReserveFormed == (balance >= Threshold) ~> (balance < Threshold \/ gate)

(* The reserve implements the abstract chain of blocks.                     *)
Chain == INSTANCE SealChain WITH
    pool     <- balance,
    inflight <- IF candidate = None THEN None
                ELSE [hash |-> candidate.hash, prev |-> candidate.prev],
    log      <- [i \in DOMAIN chain |->
                    [hash |-> seals[chain[i]].hash, prev |-> seals[chain[i]].prev]]

ImplementsChain == Chain!Spec

-----------------------------------------------------------------------------
(* Claims of docs/protocols/vault-v2-sealed-reserve.md the code departs     *)
(* from.                                                                    *)

(* Section 6: a quarantined seal waits for operator review.  No operator    *)
(* acts in this module, so no quarantined parcel may disappear.             *)
QuarantineKept ==
    [][\A id \in DOMAIN seals :
         seals[id].status = "quarantined" =>
            \E other \in DOMAIN seals' : seals'[other].hash = seals[id].hash]_vars
=============================================================================
