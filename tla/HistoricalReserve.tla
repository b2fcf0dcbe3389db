-------------------------- MODULE HistoricalReserve --------------------------
(***************************************************************************)
(* The sealed reserve with every lane that works on seals after they were   *)
(* finalized: the operator's back-attestation endpoint, the six-hourly      *)
(* sweep with its substrate retry queue, the reattestation cron, and the    *)
(* operator's quorum endpoint.  As in SealedReserve, handlers do not        *)
(* overlap.                                                                 *)
(*                                                                         *)
(* The attempt counters and the backoff clock of the reattestation cron are *)
(* left out: which seals a run passes over, and which it gives up on, is a  *)
(* free choice.  The one-time repair of the cron (runSubstrateFixBurstC314) *)
(* and its reset of a fixed list of old seals are left out; the former does *)
(* once, without backoff, what the regular pass over stale pointers does.   *)
(***************************************************************************)
EXTENDS SealedReserve

CONSTANT MaxFormed   \* bound: no reseeding once so many candidates were formed

(* What the code keeps no record of.                                        *)
VARIABLES
    expired,      \* the hashes of the seals that were queued when the queue expired
    overwritten   \* the hashes of stored seals whose name another parcel was given

hvars == <<vars, expired, overwritten>>

(* A store an earlier deployment left behind may hold a quarantined seal    *)
(* without all its votes: the case the sweeps were written for.             *)
LegacySeal(v) ==
    [seq |-> 1, cycle |-> 1, hash |-> 1, prev |-> 0,
     sources |-> <<CHOOSE s \in Signatures : TRUE>>,
     votes |-> v, status |-> "quarantined", pointer |-> FALSE]

InitLegacy ==
    /\ v1Balance = Threshold /\ balance = 0 /\ hashes = <<>>
    /\ candidate = None
    /\ \E v \in Votes :
          /\ Missing(v) # {} /\ v[Zeus] # "reject" /\ ~QuorumMet(v)
          /\ seals = [id \in {<<1, 1>>} |-> LegacySeal(v)]
    /\ chain = <<>> /\ audit = <<<<1, 1>>>> /\ latest = None /\ retry = <<>>
    /\ gate = FALSE /\ cycle = 1 /\ formed = 1

HistoricalStatuses == Statuses \cup {"permanently-failed"}

-----------------------------------------------------------------------------
(* Promotion of a stored seal: it joins the chain and becomes the latest,   *)
(* whatever its sequence number (appendSealToChain).                        *)
Promoted(st, s, ok) ==
    Stored(st, [s EXCEPT !.status = "attested", !.pointer = ok])

(* backAttestSeal, reached through POST /api/vault/block/attest: any        *)
(* sentinel's vote on any stored seal that is not attested yet is recorded  *)
(* or replaced, and a met quorum promotes the seal.                         *)
BackAttest(id, agent, verdict, ok) ==
    /\ seals[id].status # "attested"
    /\ LET s == [seals[id] EXCEPT !.votes[agent] = verdict]
       IN  IF EvaluateBackQuorum(s.votes) = "attested"
           THEN \E st \in {Promoted(Store, s, ok)} : SetStore(st)
           ELSE /\ seals' = Put(seals, id, s)
                /\ UNCHANGED <<chain, audit, latest, retry>>
    /\ UNCHANGED <<ledger, candidate, gate, cycle, formed>>

(* Fault: a pass empties the queue, whether the substrate answered or not.  *)
Drained_DropsOnFailure(st, ok) ==
    LET pending(id) == /\ id \in Range(st.retry) /\ id \in DOMAIN st.seals
                       /\ st.seals[id].status = "attested"
    IN  [st EXCEPT
            !.seals = [id \in DOMAIN st.seals |->
                         IF ok /\ pending(id) THEN [st.seals[id] EXCEPT !.pointer = TRUE]
                         ELSE st.seals[id]],
            !.retry = <<>>]

(* The retry queue after one pass of the sweep over it: entries that are    *)
(* not attested or already have their pointer are dropped, and the others   *)
(* get their pointer if the substrate answers.                              *)
Drained(st, ok) ==
    LET pending == {id \in DOMAIN st.seals :
                      st.seals[id].status = "attested" /\ ~st.seals[id].pointer}
        given   == IF ok THEN pending \cap Range(st.retry) ELSE {}
    IN  [st EXCEPT
            !.seals = [id \in DOMAIN st.seals |->
                         IF id \in given THEN [st.seals[id] EXCEPT !.pointer = TRUE]
                         ELSE st.seals[id]],
            !.retry = IF ok THEN <<>> ELSE Kept(@, pending)]

(* GET /api/vault/block/attest-sweep.                                       *)
AttestSweep(ok) ==
    /\ \E st \in {Drained(Swept(Store, ok, {}), ok)} : SetStore(st)
    /\ UNCHANGED <<ledger, candidate, gate, cycle, formed>>

-----------------------------------------------------------------------------
(* GET /api/cron/reattest-seals.                                            *)

Names(ids) == Kept(Reverse(audit), ids)

(* Fault: a seal with votes missing counts as stuck.                        *)
Stuck_VotesMissing == {id \in DOMAIN seals : seals[id].status = "quarantined"}

(* Fault: a rejected seal counts as stuck.                                  *)
Stuck_Rejected == {id \in DOMAIN seals :
                     /\ seals[id].status \in {"quarantined", "rejected"}
                     /\ Missing(seals[id].votes) = {}}

(* Quarantined although every sentinel voted.                               *)
Stuck == {id \in DOMAIN seals :
            seals[id].status = "quarantined" /\ Missing(seals[id].votes) = {}}

(* Attested with all votes, but without a substrate pointer.                *)
Stale == {id \in DOMAIN seals :
            /\ seals[id].status = "attested" /\ ~seals[id].pointer
            /\ Missing(seals[id].votes) = {}}

GivenUp(st, capped) ==
    [st EXCEPT !.seals = [id \in DOMAIN st.seals |->
        IF id \in capped THEN [st.seals[id] EXCEPT !.status = "permanently-failed"]
        ELSE st.seals[id]]]

(* Fault: a stuck seal is attested in its body only, not in the index.      *)
Repaired_NotIndexed(st, stuck, stale, ok) ==
    IF ~ok THEN [st EXCEPT !.retry = EnqueuedAll(@, Names(stuck) \o Names(stale))]
    ELSE [st EXCEPT
            !.seals = [id \in DOMAIN st.seals |->
                         IF id \in stuck \cup stale
                         THEN [st.seals[id] EXCEPT !.status = "attested", !.pointer = TRUE]
                         ELSE st.seals[id]],
            !.retry = Kept(@, Range(@) \ (stuck \cup stale))]

(* retrySubstratePointer for the stuck seals, then for the stale ones.  When *)
(* the substrate answers, both get a pointer and leave the retry queue, and *)
(* a stuck seal is attested on the strength of the write alone: it joins    *)
(* the chain and becomes the latest.  When it does not, all are queued.     *)
Repaired(st, stuck, stale, ok) ==
    IF ~ok THEN [st EXCEPT !.retry = EnqueuedAll(@, Names(stuck) \o Names(stale))]
    ELSE [seals  |-> [id \in DOMAIN st.seals |->
                        IF id \in stuck \cup stale
                        THEN [st.seals[id] EXCEPT !.status = "attested", !.pointer = TRUE]
                        ELSE st.seals[id]],
          chain  |-> st.chain \o Kept(Names(stuck), stuck \ Range(st.chain)),
          audit  |-> st.audit,
          latest |-> IF stuck = {} THEN st.latest ELSE Last(Names(stuck)),
          retry  |-> Kept(st.retry, Range(st.retry) \ (stuck \cup stale))]

(* The seals resting are inside their backoff window or held for a          *)
(* configuration error; the capped ones used up their attempts.             *)
ReattestSeals(ok, resting, capped) ==
    /\ \E st \in {Repaired(Swept(GivenUp(Store, capped), ok, resting),
                           Stuck \ resting, Stale \ resting, ok)} : SetStore(st)
    /\ UNCHANGED <<ledger, candidate, gate, cycle, formed>>

-----------------------------------------------------------------------------
(* POST /api/vault/seal/quorum.  With no candidate in flight the route may  *)
(* first reseed an empty chain from the v1 balance, and forms a candidate;  *)
(* then it records a pass for every sentinel whose token is configured,     *)
(* over whatever that sentinel voted, and finalizes.                        *)
CallQuorum(bootstrap, voters, sig, ok) ==
    LET seeded == /\ bootstrap /\ candidate = None /\ balance < Threshold
                  /\ chain = <<>> /\ v1Balance >= Threshold /\ formed < MaxFormed
        funds  == IF seeded THEN v1Balance ELSE balance
        known  == IF seeded THEN <<sig>> ELSE hashes
        forms  == candidate = None /\ funds >= Threshold /\ ~gate
        c      == IF forms THEN NewCandidate(Tip(seals, latest), known) ELSE candidate
        v      == [a \in Sentinels |-> IF a \in voters THEN "pass" ELSE c.votes[a]]
    IN  /\ balance' = IF forms THEN funds - Threshold ELSE funds
        /\ hashes' = IF forms THEN CarriedForward(known, funds - Threshold) ELSE known
        /\ formed' = IF forms THEN formed + 1 ELSE formed
        /\ IF c = None THEN UNCHANGED <<candidate, store>>
           ELSE IF EvaluateQuorum(v) = "waiting"
           THEN candidate' = [c EXCEPT !.votes = v] /\ UNCHANGED store
           ELSE candidate' = None /\ \E st \in {Stored(Store, SealOf(c, v, ok))} : SetStore(st)
        /\ UNCHANGED <<v1Balance, gate, cycle>>

-----------------------------------------------------------------------------
(* The KV key of the retry queue expires SUBSTRATE_RETRY_TTL_SECONDS after  *)
(* its last write.  Queueing a name that is there already writes nothing,   *)
(* and neither does retrying a name the substrate does not answer for, so a *)
(* long outage loses the whole queue.  Time is not modelled: the queue may  *)
(* expire whenever it is not empty.                                         *)
QueueExpires ==
    /\ retry # <<>>
    /\ retry' = <<>>
    /\ expired' = expired \cup {seals[id].hash : id \in Range(retry) \cap DOMAIN seals}
    /\ UNCHANGED <<ledger, candidate, seals, chain, audit, latest,
                   gate, cycle, formed, overwritten>>

(* What a handler does to the history: a seal written under the name of     *)
(* another parcel's seal replaces it.                                       *)
Replacing ==
    /\ overwritten' = overwritten \cup
          {seals[id].hash : id \in {n \in DOMAIN seals : seals'[n].hash # seals[n].hash}}
    /\ UNCHANGED expired

HistoricalNext ==
    \/ \E id \in DOMAIN seals, agent \in Sentinels, verdict \in CastVerdicts,
          ok \in SubstrateOutcomes : BackAttest(id, agent, verdict, ok)
    \/ \E ok \in SubstrateOutcomes : AttestSweep(ok)
    \/ \E resting \in SUBSET (Unvoted(seals) \cup Stuck \cup Stale) :
          \E capped \in SUBSET (Unvoted(seals) \ resting), ok \in SubstrateOutcomes :
             ReattestSeals(ok, resting, capped)
    \/ \E bootstrap \in BOOLEAN, voters \in SUBSET Sentinels, sig \in Signatures,
          ok \in SubstrateOutcomes : CallQuorum(bootstrap, voters, sig, ok)

HNext == ((HistoricalNext \/ Next) /\ Replacing) \/ QueueExpires

NoHistory == expired = {} /\ overwritten = {}

HInit == (InitLegacy \/ Init) /\ NoHistory

HSpec == HInit /\ [][HNext]_hvars

(* The same, from an empty store only.                                      *)
FreshSpec == Init /\ NoHistory /\ [][HNext]_hvars

(* The crons run again and again, and the substrate answers some of these   *)
(* runs: a sweep, and a reattestation run that finds nothing resting.       *)
HFairness ==
    /\ SF_hvars(AttestSweep(TRUE) /\ Replacing)
    /\ SF_hvars(ReattestSeals(TRUE, {}, {}) /\ Replacing)

HFairSpec == HSpec /\ HFairness

-----------------------------------------------------------------------------
(* Properties.                                                              *)

(* The type invariant of the store; a seal may also be given up on, and may *)
(* miss votes.                                                              *)
HTypeOK ==
    /\ v1Balance \in Nat /\ balance \in Nat /\ formed \in Nat
    /\ candidate \in Candidates \cup {None}
    /\ \A id \in DOMAIN seals :
          /\ id \in SealIds /\ Id(seals[id]) = id
          /\ seals[id].votes \in Votes
          /\ seals[id].status \in HistoricalStatuses
    /\ chain \in Seq(SealIds) /\ audit \in Seq(SealIds) /\ retry \in Seq(SealIds)
    /\ latest \in SealIds \cup {None}

(* Every lane that stores or promotes a seal keeps the two indexes: each    *)
(* stored seal is in the audit index exactly once, each attested seal is in *)
(* the attested index exactly once, and the head is one of the latter.      *)
IndexesComplete ==
    /\ Range(audit) = DOMAIN seals /\ IsInjective(audit)
    /\ Range(chain) \subseteq DOMAIN seals /\ IsInjective(chain)
    /\ \A id \in DOMAIN seals : seals[id].status = "attested" => id \in Range(chain)
    /\ latest # None => latest \in Range(chain)

(* No lane attests a seal some sentinel is still to vote on, unless the     *)
(* votes already make a quorum.                                             *)
AttestedWasDecided ==
    \A id \in DOMAIN seals :
        seals[id].status = "attested" =>
            QuorumMet(seals[id].votes) \/ Missing(seals[id].votes) = {}

(* Parcel h is the candidate or a stored seal.                              *)
InHand(h) ==
    \/ candidate # None /\ candidate.hash = h
    \/ \E id \in DOMAIN seals : seals[id].hash = h

UnitsAccounted   == v1Balance <= balance + Threshold * formed
ParcelsAccounted == \A h \in 1..formed : InHand(h) \/ h \in overwritten

(* Across queueing, quarantine and the reseeding of an empty chain, every   *)
(* unit ever deposited is in progress or went into a parcel, and every      *)
(* parcel formed is the candidate or a stored seal, with the one exception  *)
(* the code makes: a stored seal loses its name, and with it its units,     *)
(* when another parcel is given the same name (see QuarantineKept).         *)
NoReserveLost == UnitsAccounted /\ ParcelsAccounted

(* The crons leave a ZEUS veto alone: a rejected seal changes its status    *)
(* only in a step that leaves a ZEUS pass on it.                            *)
VetoLiftedByZeusOnly ==
    [][\A id \in DOMAIN seals :
         /\ seals[id].status = "rejected"
         /\ seals'[id].hash = seals[id].hash
         /\ seals'[id].status # "rejected"
         => seals'[id].votes[Zeus] = "pass"]_hvars

(* Every attested seal gets its substrate pointer, whichever lane attested  *)
(* it while the substrate was down, unless its name is given to another     *)
(* parcel first.  One case is excepted: a seal attested on an early quorum, *)
(* some votes missing, is found by no cron but through the retry queue, and *)
(* gets no pointer when the queue expires with it.  A seal with all votes   *)
(* gets its pointer all the same.                                           *)
Unanchored(id) ==
    id \in DOMAIN seals /\ seals[id].status = "attested" /\ ~seals[id].pointer

Forgotten(id) == seals[id].hash \in expired /\ Missing(seals[id].votes) # {}

PointerEventuallyWritten ==
    \A id \in Cycles \X (1..(MaxReserve \div Threshold + 1)) :
        Unanchored(id) ~> (~Unanchored(id) \/ Forgotten(id))

-----------------------------------------------------------------------------
(* Claims of docs/protocols/vault-v2-sealed-reserve.md the code departs     *)
(* from.                                                                    *)

(* Section 6: a seal is attested if and only if ZEUS passes it, no other    *)
(* sentinel rejects it, and enough sentinels pass it.                       *)
AttestedHasQuorum ==
    \A id \in DOMAIN seals :
        seals[id].status = "attested" => QuorumMet(seals[id].votes)

(* Section 5: a ZEUS reject cannot be overridden by operator review.        *)
RejectedIsFinal ==
    [][\A id \in DOMAIN seals :
         /\ seals[id].status = "rejected"
         /\ seals'[id].hash = seals[id].hash
         => seals'[id].status = "rejected"]_hvars

(* Section 11.3: the chain advances sequentially.  No two seals of the      *)
(* attested index carry the same number.                                    *)
SequenceUnique ==
    \A i, j \in DOMAIN chain :
        seals[chain[i]].seq = seals[chain[j]].seq => i = j
=============================================================================
