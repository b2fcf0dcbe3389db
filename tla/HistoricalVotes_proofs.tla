----------------------- MODULE HistoricalVotes_proofs -----------------------
(***************************************************************************)
(* Proofs about HistoricalVotes, from CouncilAssumption and                 *)
(* WritersAssumption: for any council, any submissions, operators and cron  *)
(* runs, and any outcomes of the writes.                                    *)
(***************************************************************************)
EXTENDS HistoricalVotes, TLAPS

-----------------------------------------------------------------------------
(* Types.                                                                   *)

Placed(p, r) ==
    \/ r.at \in {"idle", "ended"}
    \/ IF p \in Submitters THEN r.at \in SubmitPlaces /\ r.key \in DedupeKeys
       ELSE r.at \in LanePlaces

LEMMA Kinds ==
    /\ \A p \in Submitters : p \in Handlers /\ p \notin Lanes
    /\ \A p \in Lanes : p \in Handlers /\ p \notin Submitters
    /\ Operators \subseteq Lanes /\ CronRuns \subseteq Lanes
    /\ \A p \in Handlers : p \in Submitters \/ p \in Lanes
BY WritersAssumption DEF Handlers, Lanes

LEMMA PlacedFlight ==
    ASSUME run \in [Handlers -> Run]
    PROVE  (\A p \in InFlight : IF p \in Submitters
                                THEN run[p].at \in SubmitPlaces /\ run[p].key \in DedupeKeys
                                ELSE run[p].at \in LanePlaces)
           <=> \A p \in Handlers : Placed(p, run[p])
BY DEF InFlight, Placed

LEMMA VoteFacts ==
    /\ NoVote \notin Verdicts /\ NoVotes \in Votes /\ Zeus \in Sentinels /\ "pass" \in Verdicts
    /\ \A v \in Votes, a \in Sentinels, w \in Verdicts \cup {NoVote} :
          /\ [v EXCEPT ![a] = w] \in Votes
          /\ [v EXCEPT ![a] = w][a] = w
          /\ \A b \in Sentinels : b # a => [v EXCEPT ![a] = w][b] = v[b]
    /\ \A v \in Votes, a \in Sentinels : v[a] \in Verdicts \cup {NoVote}
BY CouncilAssumption DEF NoVote, Verdicts, NoVotes, Votes

LEMMA IdleTyped ==
    /\ Idle \in Run /\ [Idle EXCEPT !.at = "ended"] \in Run
    /\ Idle.at = "idle" /\ [Idle EXCEPT !.at = "ended"].at = "ended"
    /\ ~Idle.final /\ ~[Idle EXCEPT !.at = "ended"].final
<1>1. Blank \in Seals
  BY VoteFacts DEF Blank, Seals, Statuses
<1> QED
  BY <1>1, VoteFacts DEF Idle, Run

(* A handler that goes on to r is there, and the others stay where they are. *)
LEMMA Moved ==
    ASSUME run \in [Handlers -> Run], NEW p \in Handlers, NEW r \in Run, Goto(p, r)
    PROVE  /\ run' \in [Handlers -> Run] /\ run'[p] = r
           /\ \A q \in Handlers : q # p => run'[q] = run[q]
BY DEF Goto

LEMMA Ended ==
    ASSUME run \in [Handlers -> Run], NEW p \in Handlers, End(p)
    PROVE  /\ run' \in [Handlers -> Run] /\ run'[p].at = "ended"
           /\ \A q \in Handlers : q # p => run'[q] = run[q]
BY Moved, IdleTyped DEF End

(* Handler p goes on to r, and what it wrote has its type.                  *)
LEMMA TypeFrom ==
    ASSUME HVTypeOK, NEW p \in Handlers, NEW r \in Run, Placed(p, r), Goto(p, r),
           seal' \in Seals, indexed' \in BOOLEAN, sidecar' \in Votes,
           claimed' \subseteq Sentinels \X DedupeKeys, confirmed' \subseteq Sentinels,
           crossed' \in BOOLEAN, torn' \in BOOLEAN
    PROVE  HVTypeOK'
<1>1. /\ run' \in [Handlers -> Run] /\ run'[p] = r
      /\ \A q \in Handlers : q # p => run'[q] = run[q]
  BY Moved DEF HVTypeOK
<1>2. \A q \in Handlers : Placed(q, run[q])
  BY PlacedFlight DEF HVTypeOK
<1>3. \A q \in Handlers : Placed(q, run'[q])
  BY <1>1, <1>2
<1>4. \A q \in InFlight' : IF q \in Submitters THEN run'[q].at \in SubmitPlaces /\ run'[q].key \in DedupeKeys
                           ELSE run'[q].at \in LanePlaces
  BY <1>3 DEF InFlight, Placed
<1> QED
  BY <1>1, <1>4 DEF HVTypeOK

LEMMA StoreTyped ==
    ASSUME HVTypeOK
    PROVE  /\ seal \in Seals /\ indexed \in BOOLEAN /\ sidecar \in Votes
           /\ claimed \subseteq Sentinels \X DedupeKeys /\ confirmed \subseteq Sentinels
           /\ crossed \in BOOLEAN /\ torn \in BOOLEAN /\ run \in [Handlers -> Run]
           /\ \A p \in Handlers : run[p] \in Run /\ Placed(p, run[p])
BY PlacedFlight DEF HVTypeOK

LEMMA EndTyped ==
    ASSUME HVTypeOK, NEW p \in Handlers, End(p),
           seal' \in Seals, indexed' \in BOOLEAN, sidecar' \in Votes,
           claimed' \subseteq Sentinels \X DedupeKeys, confirmed' \subseteq Sentinels,
           crossed' \in BOOLEAN, torn' \in BOOLEAN
    PROVE  HVTypeOK'
<1>1. Placed(p, [Idle EXCEPT !.at = "ended"])
  BY IdleTyped DEF Placed
<1> QED
  BY <1>1, IdleTyped, TypeFrom DEF End

(* The copies a handler takes and makes are seals.                          *)
LEMMA SealsClosed ==
    /\ Blank \in Seals
    /\ \A s \in Seals : s.votes \in Votes
    /\ \A s \in Seals, v \in Votes : Merged(s, v) \in Seals
    /\ \A s \in Seals, a \in Sentinels, w \in Verdicts : [s EXCEPT !.votes[a] = w] \in Seals
    /\ \A s \in Seals, w \in Statuses, b \in BOOLEAN :
          /\ [s EXCEPT !.status = w] \in Seals
          /\ [s EXCEPT !.status = w, !.pointer = b] \in Seals
<1>1. Blank \in Seals
  BY VoteFacts DEF Blank, Seals, Statuses
<1>2. ASSUME NEW s \in Seals, NEW v \in Votes PROVE Merged(s, v) \in Seals
  <2>1. [a \in Sentinels |-> IF v[a] = NoVote THEN s.votes[a] ELSE v[a]] \in Votes
    BY DEF Seals, Votes
  <2> QED
    BY <2>1 DEF Merged, Seals
<1>3. ASSUME NEW s \in Seals, NEW a \in Sentinels, NEW w \in Verdicts
      PROVE  [s EXCEPT !.votes[a] = w] \in Seals
  <2>1. [s.votes EXCEPT ![a] = w] \in Votes
    BY VoteFacts DEF Seals
  <2> QED
    BY <2>1 DEF Seals
<1>4. ASSUME NEW s \in Seals, NEW w \in Statuses, NEW b \in BOOLEAN
      PROVE  /\ [s EXCEPT !.status = w] \in Seals
             /\ [s EXCEPT !.status = w, !.pointer = b] \in Seals
  BY DEF Seals
<1> QED
  BY <1>1, <1>2, <1>3, <1>4 DEF Seals

(* A submission moves on along its places.                                  *)
LEMMA SubmitTyped ==
    ASSUME HVTypeOK, NEW p \in Submitters, SubmitStep(p)
    PROVE  HVTypeOK'
<1>0. p \in Handlers /\ p \notin Lanes
  BY Kinds
<1>1. /\ seal \in Seals /\ indexed \in BOOLEAN /\ sidecar \in Votes
      /\ claimed \subseteq Sentinels \X DedupeKeys /\ confirmed \subseteq Sentinels
      /\ crossed \in BOOLEAN /\ torn \in BOOLEAN /\ run[p] \in Run /\ Placed(p, run[p])
  BY <1>0, StoreTyped
<1>2. ASSUME NEW a \in Sentinels, NEW v \in CastVerdicts, NEW k \in DedupeKeys, Submit(p, a, v, k)
      PROVE  HVTypeOK'
  <2> DEFINE r == [Idle EXCEPT !.at = "vote", !.agent = a, !.verdict = v, !.key = k]
  <2>1. r \in Run
    BY IdleTyped, WritersAssumption DEF Run, SubmitPlaces
  <2>2. Placed(p, r)
    BY IdleTyped DEF Placed, SubmitPlaces, Run
  <2> QED
    BY <1>0, <1>1, <1>2, <2>1, <2>2, TypeFrom DEF Submit, store, history
<1>3. ASSUME NEW ok \in StoreOutcomes, WriteSidecar(p, ok)
      PROVE  HVTypeOK'
  <2> DEFINE r == [run[p] EXCEPT !.at = "mergeRead"]
  <2>1. r \in Run /\ Placed(p, r)
    BY <1>1, <1>3 DEF WriteSidecar, At, Placed, Run, SubmitPlaces
  <2>2. [sidecar EXCEPT ![run[p].agent] = run[p].verdict] \in Votes
    BY <1>1, VoteFacts DEF Run
  <2>3. CASE ok
    BY <1>0, <1>1, <1>3, <2>1, <2>2, <2>3, TypeFrom DEF WriteSidecar, history
  <2>4. CASE ~ok
    BY <1>0, <1>1, <1>3, <2>4, EndTyped DEF WriteSidecar, history
  <2> QED
    BY <2>3, <2>4
<1>4. ASSUME ReadForMerge(p)
      PROVE  HVTypeOK'
  <2> DEFINE r == [run[p] EXCEPT !.at = "sidecars", !.copy = seal, !.todo = Sentinels, !.seen = NoVotes]
  <2>1. r \in Run
    BY <1>1, VoteFacts DEF Run, SubmitPlaces
  <2>2. Placed(p, r)
    BY <1>1, <1>4 DEF ReadForMerge, At, Placed, Run, SubmitPlaces
  <2> QED
    BY <1>0, <1>1, <1>4, <2>1, <2>2, TypeFrom DEF ReadForMerge, Taken, store
<1>5. ASSUME NEW a \in Sentinels, ReadSidecar(p, a)
      PROVE  HVTypeOK'
  <2> DEFINE left == run[p].todo \ {a}
             r    == [run[p] EXCEPT !.at = IF left = {} THEN "merge" ELSE "sidecars",
                                    !.todo = left, !.seen[a] = sidecar[a]]
  <2>1. [run[p].seen EXCEPT ![a] = sidecar[a]] \in Votes
    BY <1>1, VoteFacts DEF Run
  <2>2. r \in Run
    BY <1>1, <2>1 DEF Run, SubmitPlaces
  <2>3. Placed(p, r)
    BY <1>1, <1>5 DEF ReadSidecar, At, Placed, Run, SubmitPlaces
  <2> QED
    BY <1>0, <1>1, <1>5, <2>2, <2>3, TypeFrom DEF ReadSidecar, store, history
<1>6. ASSUME NEW ok \in StoreOutcomes, WriteMerge(p, ok)
      PROVE  HVTypeOK'
  <2>1. Merged(run[p].copy, run[p].seen) \in Seals
    BY <1>1, SealsClosed DEF Run
  <2>2. seal' \in Seals /\ indexed' \in BOOLEAN /\ sidecar' \in Votes
        /\ claimed' \subseteq Sentinels \X DedupeKeys /\ torn' \in BOOLEAN
    BY <1>1, <1>6, <2>1 DEF WriteMerge
  <2>3. confirmed' \subseteq Sentinels /\ crossed' \in BOOLEAN
    BY <1>1, <1>6 DEF WriteMerge, Run
  <2>4. [run[p] EXCEPT !.at = "claim"] \in Run /\ Placed(p, [run[p] EXCEPT !.at = "claim"])
    BY <1>1, <1>6 DEF WriteMerge, At, Placed, Run, SubmitPlaces
  <2>5. End(p) \/ Goto(p, [run[p] EXCEPT !.at = "claim"])
    BY <1>6 DEF WriteMerge
  <2> QED
    BY <1>0, <2>2, <2>3, <2>4, <2>5, EndTyped, TypeFrom
<1>7. ASSUME NEW ok \in StoreOutcomes, ClaimKey(p, ok)
      PROVE  HVTypeOK'
  <2> DEFINE r == [run[p] EXCEPT !.at = "mergeRead", !.final = TRUE]
  <2>1. run[p].agent \in Sentinels /\ run[p].key \in DedupeKeys
    BY <1>1, <1>7 DEF ClaimKey, At, Placed, Run
  <2>2. claimed' \subseteq Sentinels \X DedupeKeys
    BY <1>1, <1>7, <2>1 DEF ClaimKey
  <2>3. crossed' \in BOOLEAN
    BY <1>1, <1>7 DEF ClaimKey
  <2>4. r \in Run /\ Placed(p, r)
    BY <1>1, <2>1 DEF Placed, Run, SubmitPlaces
  <2>5. seal' \in Seals /\ indexed' \in BOOLEAN /\ sidecar' \in Votes
        /\ confirmed' \subseteq Sentinels /\ torn' \in BOOLEAN
    BY <1>1, <1>7 DEF ClaimKey
  <2>6. End(p) \/ Goto(p, r)
    BY <1>7 DEF ClaimKey
  <2> QED
    BY <1>0, <2>2, <2>3, <2>4, <2>5, <2>6, EndTyped, TypeFrom
<1> QED
  BY <1>2, <1>3, <1>4, <1>5, <1>6, <1>7 DEF SubmitStep

(* What a back-attestation goes on to write has the votes of the seal, and  *)
(* one more.                                                                *)
Voted(r, a, w, left, ok) ==
    /\ ~r.final
    /\ \/ /\ r.at = "append" /\ r.todo = {"body", "index"}
          /\ r.copy.status = "attested" /\ r.copy.pointer = ok
          /\ r.copy.votes = [seal.votes EXCEPT ![a] = w]
       \/ /\ r.at = "write" /\ r.todo = left
          /\ r.copy = [seal EXCEPT !.votes[a] = w]

LEMMA BackAttestTyped ==
    ASSUME HVTypeOK, NEW p \in Lanes, NEW a \in Sentinels, NEW w \in Verdicts,
           NEW left \in SUBSET (Sentinels \cup {"body", "index"}), NEW ok \in BOOLEAN,
           BackAttest(p, a, w, left, ok)
    PROVE  \E r \in Run : Goto(p, r) /\ Placed(p, r) /\ Voted(r, a, w, left, ok)
<1> DEFINE s == [seal EXCEPT !.votes[a] = w]
           i == [Idle EXCEPT !.todo = left]
           r == [i EXCEPT !.at = "append", !.todo = {"body", "index"},
                          !.copy = [s EXCEPT !.status = "attested", !.pointer = ok]]
           u == [i EXCEPT !.at = "write", !.copy = s]
<1>1. seal \in Seals /\ s \in Seals /\ [s EXCEPT !.status = "attested", !.pointer = ok] \in Seals
  BY SealsClosed, StoreTyped DEF Statuses
<1>2. p \notin Submitters
  BY Kinds
<1>3. s.votes = [seal.votes EXCEPT ![a] = w]
      /\ [s EXCEPT !.status = "attested", !.pointer = ok].votes = s.votes
      /\ [s EXCEPT !.status = "attested", !.pointer = ok].status = "attested"
      /\ [s EXCEPT !.status = "attested", !.pointer = ok].pointer = ok
  BY <1>1 DEF Seals
<1>4. r \in Run /\ u \in Run
  BY <1>1, IdleTyped DEF Run, LanePlaces
<1>5. /\ r.at = "append" /\ r.todo = {"body", "index"} /\ ~r.final
      /\ r.copy = [s EXCEPT !.status = "attested", !.pointer = ok]
      /\ u.at = "write" /\ u.todo = left /\ u.copy = s /\ ~u.final
  BY DEF Idle
<1>6. Placed(p, r) /\ Placed(p, u)
  BY <1>2, <1>5 DEF Placed, LanePlaces
<1>7. Goto(p, r) \/ Goto(p, u)
  BY DEF BackAttest
<1>8. Voted(r, a, w, left, ok) /\ Voted(u, a, w, left, ok)
  BY <1>3, <1>5 DEF Voted
<1> QED
  BY <1>4, <1>6, <1>7, <1>8

LEMMA VoteTyped ==
    ASSUME HVTypeOK, NEW p \in Lanes, NEW a \in Sentinels, NEW w \in Verdicts,
           NEW left \in SUBSET (Sentinels \cup {"body", "index"}), NEW ok \in BOOLEAN,
           BackAttest(p, a, w, left, ok),
           UNCHANGED <<store, confirmed>>, crossed' \in BOOLEAN, torn' \in BOOLEAN
    PROVE  HVTypeOK'
<1>1. PICK r \in Run : Goto(p, r) /\ Placed(p, r)
  BY BackAttestTyped
<1> QED
  BY <1>1, Kinds, StoreTyped, TypeFrom DEF store

LEMMA EnterFacts ==
    ASSUME NEW p \in Lanes, HVTypeOK, Enter(p)
    PROVE  UNCHANGED <<store, confirmed>> /\ crossed' \in BOOLEAN /\ torn' \in BOOLEAN
BY DEF Enter, Taken, HVTypeOK, store

LEMMA OperatorTyped ==
    ASSUME HVTypeOK, NEW p \in Operators, OperatorStep(p)
    PROVE  HVTypeOK'
<1>1. PICK a \in Sentinels, v \in CastVerdicts, ok \in SubstrateOutcomes : OperatorVote(p, a, v, ok)
  BY DEF OperatorStep
<1>2. v \in Verdicts /\ ok \in BOOLEAN /\ {} \in SUBSET (Sentinels \cup {"body", "index"}) /\ p \in Lanes
  BY WritersAssumption, Kinds
<1>3. Enter(p) /\ BackAttest(p, a, v, {}, ok)
  BY <1>1 DEF OperatorVote
<1> QED
  BY <1>2, <1>3, EnterFacts, VoteTyped

LEMMA CronTyped ==
    ASSUME HVTypeOK, NEW p \in CronRuns, CronStep(p)
    PROVE  HVTypeOK'
<1>0. p \in Lanes /\ p \in Handlers /\ p \notin Submitters
  BY Kinds
<1>1. /\ seal \in Seals /\ indexed \in BOOLEAN /\ sidecar \in Votes
      /\ claimed \subseteq Sentinels \X DedupeKeys /\ confirmed \subseteq Sentinels
      /\ crossed \in BOOLEAN /\ torn \in BOOLEAN /\ run[p] \in Run /\ Placed(p, run[p])
  BY <1>0, StoreTyped
<1>2. ASSUME ListSeal(p)
      PROVE  HVTypeOK'
  <2> DEFINE r == [Idle EXCEPT !.at = "back", !.todo = Missing(seal.votes)]
             u == [Idle EXCEPT !.at = "write", !.copy = [seal EXCEPT !.status = "permanently-failed"]]
             w == [Idle EXCEPT !.at = "repair", !.copy = seal]
  <2>1. r \in Run /\ Placed(p, r)
    BY <1>0, IdleTyped DEF Placed, Run, LanePlaces, Missing
  <2>2. u \in Run /\ Placed(p, u)
    BY <1>0, <1>1, IdleTyped, SealsClosed DEF Placed, Run, LanePlaces, Statuses
  <2>3. w \in Run /\ Placed(p, w)
    BY <1>0, <1>1, IdleTyped DEF Placed, Run, LanePlaces
  <2>4. Goto(p, r) \/ Goto(p, u) \/ Goto(p, w)
    BY <1>2 DEF ListSeal
  <2>5. UNCHANGED <<store, confirmed>> /\ crossed' \in BOOLEAN /\ torn' \in BOOLEAN
    BY <1>0, <1>2, EnterFacts DEF ListSeal
  <2> QED
    BY <1>0, <1>1, <2>1, <2>2, <2>3, <2>4, <2>5, TypeFrom DEF store
<1>3. ASSUME NEW i \in DOMAIN Council, NEW ok \in SubstrateOutcomes, CronVote(p, i, ok)
      PROVE  HVTypeOK'
  <2> DEFINE left == run[p].todo \ {Council[i]}
             r    == [run[p] EXCEPT !.todo = left]
  <2>1. Council[i] \in Sentinels
    BY <1>3 DEF Sentinels, Range
  <2>2. left \in SUBSET (Sentinels \cup {"body", "index"})
    BY <1>1 DEF Run
  <2>3. UNCHANGED <<store, confirmed>> /\ crossed' \in BOOLEAN /\ torn' \in BOOLEAN
    BY <1>1, <1>3 DEF CronVote, history
  <2>4. CASE BackAttest(p, Council[i], "pass", left, ok)
    BY <1>0, <2>1, <2>2, <2>3, <2>4, VoteFacts, VoteTyped, WritersAssumption
  <2>5. CASE End(p)
    BY <1>0, <1>1, <2>3, <2>5, EndTyped DEF store
  <2>6. CASE Goto(p, r)
    <3>1. r \in Run /\ Placed(p, r)
      BY <1>0, <1>1, <2>2 DEF Placed, Run
    <3> QED
      BY <1>0, <1>1, <2>3, <2>6, <3>1, TypeFrom DEF store
  <2> QED
    BY <1>3, <2>4, <2>5, <2>6 DEF CronVote
<1>4. ASSUME NEW head \in BOOLEAN, NEW substrate \in SubstrateOutcomes, NEW ok \in StoreOutcomes,
             Repair(p, head, substrate, ok)
      PROVE  HVTypeOK'
  <2> DEFINE c == run[p].copy
             s == [c EXCEPT !.status = IF substrate THEN "attested" ELSE @, !.pointer = substrate \/ @]
             r == [run[p] EXCEPT !.at = "append", !.copy = s, !.todo = {"body", "index"}]
  <2>0. c \in Seals /\ (IF substrate THEN "attested" ELSE c.status) \in Statuses
        /\ (substrate \/ c.pointer) \in BOOLEAN
    BY <1>1 DEF Run, Seals, Statuses
  <2>1. s \in Seals
    BY <2>0 DEF Seals
  <2>2. r \in Run /\ Placed(p, r)
    BY <1>0, <1>1, <2>1 DEF Placed, Run, LanePlaces
  <2>3. seal' \in Seals /\ indexed' \in BOOLEAN /\ sidecar' \in Votes
        /\ claimed' \subseteq Sentinels \X DedupeKeys /\ confirmed' \subseteq Sentinels
        /\ crossed' \in BOOLEAN /\ torn' \in BOOLEAN
    BY <1>1, <1>4, <2>1 DEF Repair, history
  <2>4. End(p) \/ Goto(p, r)
    BY <1>4 DEF Repair
  <2> QED
    BY <1>0, <2>2, <2>3, <2>4, EndTyped, TypeFrom
<1> QED
  BY <1>2, <1>3, <1>4 DEF CronStep

LEMMA LaneTyped ==
    ASSUME HVTypeOK, NEW p \in Lanes, LaneStep(p)
    PROVE  HVTypeOK'
<1>0. p \in Handlers /\ p \notin Submitters
  BY Kinds
<1>1. /\ seal \in Seals /\ indexed \in BOOLEAN /\ sidecar \in Votes
      /\ claimed \subseteq Sentinels \X DedupeKeys /\ confirmed \subseteq Sentinels
      /\ crossed \in BOOLEAN /\ torn \in BOOLEAN /\ run[p] \in Run /\ Placed(p, run[p])
  BY <1>0, StoreTyped
<1>2. run[p].copy \in Seals
  BY <1>1 DEF Run
<1>3. ASSUME NEW ok \in StoreOutcomes, WriteBody(p, ok)
      PROVE  HVTypeOK'
  <2> DEFINE r == [run[p] EXCEPT !.at = "back", !.copy = Blank]
  <2>1. r \in Run /\ Placed(p, r)
    BY <1>0, <1>1, SealsClosed DEF Placed, Run, LanePlaces
  <2>2. seal' \in Seals /\ (End(p) \/ Goto(p, r))
    BY <1>1, <1>2, <1>3 DEF WriteBody
  <2>3. UNCHANGED <<indexed, sidecar, claimed, history>>
    BY <1>3 DEF WriteBody
  <2> QED
    BY <1>0, <1>1, <2>1, <2>2, <2>3, EndTyped, TypeFrom DEF history
<1>4. ASSUME NEW ok \in StoreOutcomes, NEW k \in {"body", "index"}, WriteKey(p, k, ok)
      PROVE  HVTypeOK'
  <2> DEFINE r == [run[p] EXCEPT !.todo = run[p].todo \ {k}]
  <2>1. r \in Run /\ Placed(p, r)
    BY <1>0, <1>1 DEF Placed, Run
  <2>2. End(p) \/ Goto(p, r)
    BY <1>4 DEF WriteKey
  <2>3. /\ seal' \in Seals /\ indexed' \in BOOLEAN /\ sidecar' \in Votes
        /\ claimed' \subseteq Sentinels \X DedupeKeys /\ confirmed' \subseteq Sentinels
        /\ crossed' \in BOOLEAN /\ torn' \in BOOLEAN
    BY <1>1, <1>2, <1>4 DEF WriteKey
  <2> QED
    BY <1>0, <2>1, <2>2, <2>3, EndTyped, TypeFrom
<1> QED
  BY <1>3, <1>4 DEF LaneStep

LEMMA KillTyped ==
    ASSUME HVTypeOK, NEW p \in Handlers, Kill(p)
    PROVE  HVTypeOK'
BY EndTyped, StoreTyped DEF Kill, store

(* Steps preserve the types.                                                *)
LEMMA TypeStep ==
    ASSUME HVTypeOK, [HVNext]_hvvars
    PROVE  HVTypeOK'
<1>1. CASE UNCHANGED hvvars
  BY <1>1 DEF hvvars, store, history, HVTypeOK, InFlight
<1> QED
  BY <1>1, SubmitTyped, OperatorTyped, CronTyped, LaneTyped, KillTyped DEF HVNext

LEMMA TypeInit == HVInit => HVTypeOK
<1> SUFFICES ASSUME HVInit PROVE HVTypeOK
  OBVIOUS
<1>1. run \in [Handlers -> Run] /\ InFlight = {}
  BY IdleTyped DEF HVInit, InFlight
<1> QED
  BY <1>1, VoteFacts DEF HVInit, HVTypeOK

-----------------------------------------------------------------------------
(* The handler that steps is the only one that moves.                       *)

LEMMA OthersStay ==
    ASSUME HVTypeOK, NEW p \in Handlers,
           SubmitStep(p) \/ OperatorStep(p) \/ CronStep(p) \/ LaneStep(p) \/ Kill(p)
    PROVE  \A q \in Handlers : q # p => run'[q] = run[q]
<1>1. run \in [Handlers -> Run]
  BY DEF HVTypeOK
<1>2. (\E r : Goto(p, r)) => \A q \in Handlers : q # p => run'[q] = run[q]
  BY <1>1 DEF Goto
<1>3. CASE SubmitStep(p)
  <2>1. ASSUME NEW ok \in StoreOutcomes, WriteMerge(p, ok) PROVE \E r : Goto(p, r)
    BY <2>1 DEF WriteMerge, End
  <2>2. ASSUME NEW ok \in StoreOutcomes, WriteSidecar(p, ok) \/ ClaimKey(p, ok) PROVE \E r : Goto(p, r)
    BY <2>2 DEF WriteSidecar, ClaimKey, End
  <2>3. ASSUME NEW a \in Sentinels, ReadSidecar(p, a) PROVE \E r : Goto(p, r)
    BY <2>3 DEF ReadSidecar
  <2>4. ASSUME NEW a, NEW v, NEW k, Submit(p, a, v, k) PROVE \E r : Goto(p, r)
    BY <2>4 DEF Submit
  <2>5. ASSUME ReadForMerge(p) PROVE \E r : Goto(p, r)
    BY <2>5 DEF ReadForMerge
  <2> QED
    BY <1>2, <1>3, <2>1, <2>2, <2>3, <2>4, <2>5 DEF SubmitStep
<1>4. CASE OperatorStep(p)
  BY <1>2, <1>4 DEF OperatorStep, OperatorVote, BackAttest
<1>5. CASE CronStep(p)
  <2>1. ASSUME ListSeal(p) PROVE \E r : Goto(p, r)
    BY <2>1 DEF ListSeal
  <2>2. ASSUME NEW i, NEW ok, CronVote(p, i, ok) PROVE \E r : Goto(p, r)
    BY <2>2 DEF CronVote, BackAttest, End
  <2>3. ASSUME NEW head, NEW substrate, NEW ok, Repair(p, head, substrate, ok) PROVE \E r : Goto(p, r)
    BY <2>3 DEF Repair, End
  <2> QED
    BY <1>2, <1>5, <2>1, <2>2, <2>3 DEF CronStep
<1>6. CASE LaneStep(p) \/ Kill(p)
  BY <1>2, <1>6 DEF LaneStep, WriteBody, WriteKey, Kill, End
<1> QED
  BY <1>2, <1>3, <1>4, <1>5, <1>6

-----------------------------------------------------------------------------
(* Sidecars, and what merges read of them.                                  *)

(* Whose vote is kept aside: a submission that has written it, one that has *)
(* consumed a key, and one that was told so.                                *)
KeptAside ==
    /\ \A p \in Submitters :
          run[p].at \in {"mergeRead", "sidecars", "merge", "claim"} => sidecar[run[p].agent] # NoVote
    /\ \A e \in claimed : sidecar[e[1]] # NoVote
    /\ \A a \in confirmed : sidecar[a] # NoVote

(* A merge that has not read its own sidecar yet is still to read it.       *)
ReadAside ==
    \A p \in Merging :
        /\ At(p, "merge") => run[p].todo = {}
        /\ run[p].agent \in run[p].todo \/ run[p].seen[run[p].agent] # NoVote

(* A submission that has not merged yet is not at its last merge.           *)
NotMergedYet == \A p \in Submitters : At(p, "vote") => ~run[p].final

Aside == KeptAside /\ ReadAside /\ NotMergedYet

(* A step of a handler that is no submission leaves the sidecars alone.     *)
LEMMA LanesAside ==
    ASSUME HVTypeOK, HVTypeOK', Aside, NEW p \in Lanes,
           OperatorStep(p) \/ CronStep(p) \/ LaneStep(p) \/ Kill(p)
    PROVE  Aside'
<1>1. p \in Handlers /\ p \notin Submitters
  BY Kinds
<1>2. UNCHANGED <<sidecar, claimed, confirmed>>
  <2>1. ASSUME OperatorStep(p) PROVE UNCHANGED <<sidecar, claimed, confirmed>>
    BY <2>1 DEF OperatorStep, OperatorVote, Enter, store
  <2>2. ASSUME LaneStep(p) PROVE UNCHANGED <<sidecar, claimed, confirmed>>
    BY <2>2 DEF LaneStep, WriteBody, WriteKey, history
  <2>3. ASSUME Kill(p) PROVE UNCHANGED <<sidecar, claimed, confirmed>>
    BY <2>3 DEF Kill, store
  <2>4. ASSUME CronStep(p) PROVE UNCHANGED <<sidecar, claimed, confirmed>>
    BY <2>4 DEF CronStep, ListSeal, CronVote, Repair, Enter, store, history
  <2> QED
    BY <2>1, <2>2, <2>3, <2>4
<1>3. \A q \in Submitters : run'[q] = run[q]
  BY <1>1, Kinds, OthersStay
<1>4. KeptAside'
  BY <1>2, <1>3 DEF Aside, KeptAside
<1>5. ReadAside' /\ NotMergedYet'
  BY <1>3 DEF Aside, ReadAside, NotMergedYet, Merging, At
<1> QED
  BY <1>4, <1>5 DEF Aside

(* A submission that steps, where it goes.                                  *)
LEMMA AsideFrom ==
    ASSUME HVTypeOK, Aside, NEW p \in Submitters, SubmitStep(p) \/ Kill(p),
           \A a \in Sentinels : sidecar[a] # NoVote => sidecar'[a] # NoVote,
           run'[p].at \in {"mergeRead", "sidecars", "merge", "claim"} => sidecar'[run'[p].agent] # NoVote,
           \A e \in claimed' \ claimed : sidecar'[e[1]] # NoVote,
           \A a \in confirmed' \ confirmed : sidecar'[a] # NoVote,
           run'[p].at = "vote" => ~run'[p].final,
           run'[p].at \in {"sidecars", "merge"} =>
              /\ run'[p].at = "merge" => run'[p].todo = {}
              /\ run'[p].agent \in run'[p].todo \/ run'[p].seen[run'[p].agent] # NoVote
    PROVE  Aside'
<1>1. p \in Handlers /\ \A q \in Submitters : q # p => run'[q] = run[q]
  BY Kinds, OthersStay
<1>2. \A q \in Submitters : run[q].agent \in Sentinels
  BY Kinds, StoreTyped DEF Run
<1>3. /\ \A e \in claimed : e[1] \in Sentinels
      /\ confirmed \subseteq Sentinels
  BY StoreTyped
<1>4. KeptAside'
  BY <1>1, <1>2, <1>3 DEF Aside, KeptAside
<1>5. ReadAside' /\ NotMergedYet'
  BY <1>1 DEF Aside, ReadAside, NotMergedYet, Merging, At
<1> QED
  BY <1>4, <1>5 DEF Aside

LEMMA SubmitAside ==
    ASSUME HVTypeOK, Aside, NEW p \in Submitters, SubmitStep(p)
    PROVE  Aside'
<1>0. p \in Handlers
  BY Kinds
<1>1. /\ sidecar \in Votes /\ run \in [Handlers -> Run] /\ run[p] \in Run
      /\ run[p].agent \in Sentinels /\ run[p].seen \in Votes
  BY <1>0, StoreTyped DEF Run
<1>2. run[p].at \in {"mergeRead", "sidecars", "merge", "claim"} => sidecar[run[p].agent] # NoVote
  BY DEF Aside, KeptAside
<1>3. ASSUME NEW a \in Sentinels, NEW v \in CastVerdicts, NEW k \in DedupeKeys, Submit(p, a, v, k)
      PROVE  Aside'
  <2>1. run'[p].at = "vote" /\ ~run'[p].final /\ UNCHANGED <<sidecar, claimed, confirmed>>
    BY <1>0, <1>1, <1>3, IdleTyped DEF Submit, Goto, Run, store, history
  <2> QED
    BY <2>1, AsideFrom
<1>4. ASSUME NEW ok \in StoreOutcomes, WriteSidecar(p, ok)
      PROVE  Aside'
  <2>1. UNCHANGED <<claimed, confirmed>>
    BY <1>4 DEF WriteSidecar, history
  <2>2. CASE ok
    <3>1. /\ run'[p].at = "mergeRead" /\ run'[p].agent = run[p].agent
          /\ sidecar' = [sidecar EXCEPT ![run[p].agent] = run[p].verdict]
      BY <1>0, <1>1, <1>4, <2>2 DEF WriteSidecar, Goto, Run
    <3>2. run[p].verdict # NoVote
      BY <1>1, VoteFacts DEF Run
    <3>3. sidecar'[run[p].agent] # NoVote /\ \A a \in Sentinels : sidecar[a] # NoVote => sidecar'[a] # NoVote
      BY <1>1, <3>1, <3>2 DEF Votes
    <3> QED
      BY <2>1, <3>1, <3>3, AsideFrom
  <2>3. CASE ~ok
    <3>1. run'[p].at = "ended" /\ sidecar' = sidecar
      BY <1>0, <1>1, <1>4, <2>3, Ended DEF WriteSidecar
    <3> QED
      BY <2>1, <3>1, AsideFrom
  <2> QED
    BY <2>2, <2>3
<1>5. ASSUME ReadForMerge(p)
      PROVE  Aside'
  <2>1. /\ run'[p].at = "sidecars" /\ run'[p].agent = run[p].agent /\ run'[p].todo = Sentinels
        /\ run[p].at = "mergeRead" /\ UNCHANGED <<sidecar, claimed, confirmed>>
    BY <1>0, <1>1, <1>5 DEF ReadForMerge, Goto, Run, At, store
  <2> QED
    BY <1>1, <1>2, <2>1, AsideFrom
<1>6. ASSUME NEW a \in Sentinels, ReadSidecar(p, a)
      PROVE  Aside'
  <2>1. /\ run'[p].at = IF run[p].todo \ {a} = {} THEN "merge" ELSE "sidecars"
        /\ run'[p].agent = run[p].agent /\ run'[p].todo = run[p].todo \ {a}
        /\ run'[p].seen = [run[p].seen EXCEPT ![a] = sidecar[a]]
        /\ run[p].at = "sidecars" /\ UNCHANGED <<sidecar, claimed, confirmed>>
    BY <1>0, <1>1, <1>6 DEF ReadSidecar, Goto, Run, At, store, history
  <2>2. run[p].agent \in run[p].todo \/ run[p].seen[run[p].agent] # NoVote
    BY <2>1 DEF Aside, ReadAside, Merging
  <2>3. run[p].agent \in run'[p].todo \/ run'[p].seen[run[p].agent] # NoVote
    BY <1>1, <1>2, <2>1, <2>2 DEF Votes
  <2> QED
    BY <1>2, <2>1, <2>3, AsideFrom
<1>7. ASSUME NEW ok \in StoreOutcomes, WriteMerge(p, ok)
      PROVE  Aside'
  <2>1. UNCHANGED <<sidecar, claimed>> /\ run[p].at = "merge" /\ confirmed' \subseteq confirmed \cup {run[p].agent}
    BY <1>7 DEF WriteMerge, At
  <2>2. run'[p].at = "ended" \/ (run'[p].at = "claim" /\ run'[p].agent = run[p].agent)
    <3>1. CASE End(p)
      BY <1>0, <1>1, <3>1, Ended
    <3>2. CASE Goto(p, [run[p] EXCEPT !.at = "claim"])
      BY <1>0, <1>1, <3>2 DEF Goto, Run
    <3> QED
      BY <1>7, <3>1, <3>2 DEF WriteMerge
  <2> QED
    BY <1>2, <2>1, <2>2, AsideFrom
<1>8. ASSUME NEW ok \in StoreOutcomes, ClaimKey(p, ok)
      PROVE  Aside'
  <2>1. /\ UNCHANGED <<sidecar, confirmed>> /\ run[p].at = "claim"
        /\ claimed' \subseteq claimed \cup {<<run[p].agent, run[p].key>>}
    BY <1>8 DEF ClaimKey, At
  <2>2. run'[p].at = "ended" \/ (run'[p].at = "mergeRead" /\ run'[p].agent = run[p].agent)
    <3>1. CASE End(p)
      BY <1>0, <1>1, <3>1, Ended
    <3>2. CASE Goto(p, [run[p] EXCEPT !.at = "mergeRead", !.final = TRUE])
      BY <1>0, <1>1, <3>2 DEF Goto, Run
    <3> QED
      BY <1>8, <3>1, <3>2 DEF ClaimKey
  <2>3. \A e \in claimed' \ claimed : e[1] = run[p].agent
    BY <2>1
  <2> QED
    BY <1>2, <2>1, <2>2, <2>3, AsideFrom
<1> QED
  BY <1>3, <1>4, <1>5, <1>6, <1>7, <1>8 DEF SubmitStep

LEMMA AsideStep ==
    ASSUME HVTypeOK, HVTypeOK', Aside, [HVNext]_hvvars
    PROVE  Aside'
<1>1. CASE UNCHANGED hvvars
  BY <1>1 DEF hvvars, store, history, Aside, KeptAside, ReadAside, NotMergedYet, Merging, At
<1>2. ASSUME NEW p \in Submitters, Kill(p) PROVE Aside'
  <2>1. run'[p].at = "ended" /\ UNCHANGED <<sidecar, claimed, confirmed>>
    BY <1>2, Kinds, StoreTyped, Ended DEF Kill, store
  <2> QED
    BY <1>2, <2>1, AsideFrom
<1> QED
  BY <1>1, <1>2, Kinds, SubmitAside, LanesAside DEF HVNext

LEMMA AsideInit == HVInit => Aside
BY IdleTyped, Kinds DEF HVInit, Aside, KeptAside, ReadAside, NotMergedYet, Merging, At

-----------------------------------------------------------------------------
(* Where the confirmed votes are.                                           *)

Healing  == \E p \in Submitters : At(p, "claim") \/ p \in LastMerge
Shown(s) == \A a \in confirmed : s.votes[a] # NoVote
Writing(r) == r.at \in {"write", "append", "repair"}

(* While nothing crossed: on the seal and on every copy a lane will write,  *)
(* or a last merge is to come, which is alone and has them among what it    *)
(* has read or will read.                                                   *)
OnTheirWay ==
    /\ Shown(seal) \/ Healing
    /\ \A p \in Lanes : Writing(run[p]) => Shown(run[p].copy) \/ Healing
    /\ \A p \in LastMerge :
          /\ Lanes \cap InFlight = {} /\ \A q \in LastMerge : q = p
          /\ p \in Merging => \A a \in confirmed : a \in run[p].todo \/ run[p].seen[a] # NoVote

Healed == ~crossed => OnTheirWay

(* A lane steps: what it writes, and what it goes on to write, have the     *)
(* confirmed votes.                                                         *)
LEMMA LaneHealedFrom ==
    ASSUME HVTypeOK, Healed, NEW p \in Lanes,
           \A q \in Handlers : q # p => run'[q] = run[q],
           confirmed' = confirmed,
           ~crossed' => /\ ~crossed /\ (LastMerge = {} \/ run'[p].at = "ended")
                        /\ Shown(seal') \/ Healing
                        /\ Writing(run'[p]) => Shown(run'[p].copy) \/ Healing
    PROVE  Healed'
<1> SUFFICES ASSUME ~crossed' PROVE OnTheirWay'
  BY DEF Healed
<1>0. p \in Handlers /\ p \notin Submitters /\ \A q \in Submitters : run'[q] = run[q]
  BY Kinds
<1>1. LastMerge' = LastMerge /\ Merging' = Merging /\ Healing' = Healing
  BY <1>0 DEF LastMerge, Merging, Healing, At
<1>2. Shown(seal)' \/ Healing'
  BY <1>1 DEF Shown
<1>3. ASSUME NEW q \in Lanes, Writing(run'[q]) PROVE Shown(run[q].copy)' \/ Healing'
  <2>1. q # p => run'[q] = run[q]
    BY Kinds
  <2> QED
    BY <1>1, <1>3, <2>1 DEF Shown, Healed, OnTheirWay
<1>4. ASSUME NEW q \in LastMerge
      PROVE  /\ (Lanes \cap InFlight)' = {} /\ \A u \in LastMerge : u = q
             /\ q \in Merging => \A a \in confirmed : a \in run[q].todo \/ run[q].seen[a] # NoVote
  BY <1>4, Kinds DEF Healed, OnTheirWay, InFlight
<1>5. \A q \in LastMerge' :
         /\ (Lanes \cap InFlight)' = {} /\ \A u \in LastMerge' : u = q
         /\ q \in Merging' => \A a \in confirmed' : a \in run'[q].todo \/ run'[q].seen[a] # NoVote
  <2>1. \A q \in LastMerge : q \in Submitters
    BY DEF LastMerge
  <2> QED
    BY <1>0, <1>1, <1>4, <2>1
<1> QED
  BY <1>2, <1>3, <1>5 DEF OnTheirWay

LEMMA LaneHealed ==
    ASSUME HVTypeOK, HVTypeOK', Healed, NEW p \in Lanes,
           OperatorStep(p) \/ CronStep(p) \/ LaneStep(p) \/ Kill(p)
    PROVE  Healed'
<1>0. p \in Handlers /\ p \notin Submitters /\ \A q \in Handlers : q # p => run'[q] = run[q]
  BY Kinds, OthersStay
<1>1. /\ seal \in Seals /\ confirmed \subseteq Sentinels /\ seal.votes \in Votes
      /\ run \in [Handlers -> Run] /\ run[p] \in Run
  BY <1>0, StoreTyped, SealsClosed
<1>2. ~crossed /\ p \in InFlight => LastMerge = {}
  BY DEF Healed, OnTheirWay
<1>3. ~crossed => Shown(seal) \/ Healing
  BY DEF Healed, OnTheirWay
<1>4. ~crossed /\ Writing(run[p]) => Shown(run[p].copy) \/ Healing
  BY DEF Healed, OnTheirWay
<1>5. ASSUME NEW a \in Sentinels, NEW w \in Verdicts, NEW left \in SUBSET (Sentinels \cup {"body", "index"}),
             NEW ok \in BOOLEAN, BackAttest(p, a, w, left, ok), Shown(seal)
      PROVE  Shown(run'[p].copy)
  <2>1. PICK r \in Run : Goto(p, r) /\ Voted(r, a, w, left, ok)
    BY <1>5, BackAttestTyped
  <2>2. run'[p] = r
    BY <1>0, <1>1, <2>1, Moved
  <2>3. r.copy.votes = [seal.votes EXCEPT ![a] = w]
    BY <1>1, <2>1 DEF Voted, Seals
  <2> QED
    BY <1>1, <1>5, <2>2, <2>3, VoteFacts DEF Shown, Votes
<1>6. CASE OperatorStep(p)
  <2>1. PICK a \in Sentinels, v \in CastVerdicts, ok \in SubstrateOutcomes : OperatorVote(p, a, v, ok)
    BY <1>6 DEF OperatorStep
  <2>2. /\ seal' = seal /\ confirmed' = confirmed
        /\ ~crossed' => ~crossed /\ LastMerge = {}
        /\ BackAttest(p, a, v, {}, ok)
    BY <2>1 DEF OperatorVote, Enter, store
  <2>3. v \in Verdicts /\ ok \in BOOLEAN
    BY WritersAssumption
  <2>4. ~crossed' => Shown(run'[p].copy) \/ Healing
    BY <1>3, <1>5, <2>2, <2>3
  <2> QED
    BY <1>0, <1>3, <2>2, <2>4, LaneHealedFrom
<1>7. CASE CronStep(p)
  <2>1. ASSUME ListSeal(p) PROVE Healed'
    <3>1. /\ seal' = seal /\ confirmed' = confirmed
          /\ ~crossed' => ~crossed /\ LastMerge = {}
      BY <2>1 DEF ListSeal, Enter, store
    <3>2. Writing(run'[p]) => run'[p].copy.votes = seal.votes
      <4>1. CASE Goto(p, [Idle EXCEPT !.at = "back", !.todo = Missing(seal.votes)])
        BY <1>0, <1>1, <4>1 DEF Goto, Idle, Writing
      <4>2. CASE Goto(p, [Idle EXCEPT !.at = "write", !.copy = [seal EXCEPT !.status = "permanently-failed"]])
        BY <1>0, <1>1, <4>2 DEF Goto, Idle, Seals
      <4>3. CASE Goto(p, [Idle EXCEPT !.at = "repair", !.copy = seal])
        BY <1>0, <1>1, <4>3 DEF Goto, Idle
      <4> QED
        BY <2>1, <4>1, <4>2, <4>3 DEF ListSeal
    <3>3. ~crossed' /\ Writing(run'[p]) => Shown(run'[p].copy) \/ Healing
      BY <1>3, <3>1, <3>2 DEF Shown
    <3> QED
      BY <1>0, <1>3, <3>1, <3>3, LaneHealedFrom
  <2>2. ASSUME NEW i \in DOMAIN Council, NEW ok \in SubstrateOutcomes, CronVote(p, i, ok) PROVE Healed'
    <3>1. /\ UNCHANGED <<seal, confirmed, crossed>> /\ run[p].at = "back"
          /\ \/ BackAttest(p, Council[i], "pass", run[p].todo \ {Council[i]}, ok)
             \/ End(p)
             \/ Goto(p, [run[p] EXCEPT !.todo = run[p].todo \ {Council[i]}])
      BY <2>2 DEF CronVote, At, store, history
    <3>2. p \in InFlight
      BY <1>0, <3>1 DEF InFlight
    <3>3. ~crossed' /\ Writing(run'[p]) => Shown(run'[p].copy) \/ Healing
      <4>1. CASE BackAttest(p, Council[i], "pass", run[p].todo \ {Council[i]}, ok)
        <5>1. Council[i] \in Sentinels
          BY <2>2 DEF Sentinels, Range
        <5>2. run[p].todo \ {Council[i]} \in SUBSET (Sentinels \cup {"body", "index"})
          BY <1>1 DEF Run
        <5> QED
          BY <1>3, <1>5, <3>1, <4>1, <5>1, <5>2, VoteFacts, WritersAssumption
      <4>2. CASE End(p)
        BY <1>0, <1>1, <4>2, Ended DEF Writing
      <4>3. CASE Goto(p, [run[p] EXCEPT !.todo = run[p].todo \ {Council[i]}])
        BY <1>0, <1>1, <3>1, <4>3 DEF Goto, Run, Writing
      <4> QED
        BY <3>1, <4>1, <4>2, <4>3
    <3> QED
      BY <1>0, <1>2, <1>3, <3>1, <3>2, <3>3, LaneHealedFrom
  <2>3. ASSUME NEW head \in BOOLEAN, NEW substrate \in SubstrateOutcomes, NEW ok \in StoreOutcomes,
               Repair(p, head, substrate, ok)
        PROVE  Healed'
    <3> DEFINE c == run[p].copy
               s == [c EXCEPT !.status = IF substrate THEN "attested" ELSE @, !.pointer = substrate \/ @]
    <3>1. /\ UNCHANGED <<confirmed, crossed>> /\ run[p].at = "repair"
          /\ seal' = s \/ seal' = seal
          /\ End(p) \/ Goto(p, [run[p] EXCEPT !.at = "append", !.copy = s, !.todo = {"body", "index"}])
      BY <2>3 DEF Repair, At, history
    <3>2. p \in InFlight /\ Writing(run[p])
      BY <1>0, <3>1 DEF InFlight, Writing
    <3>3. s.votes = c.votes
      BY <1>1 DEF Run, Seals
    <3>4. run'[p].at = "ended" \/ run'[p].copy = s
      <4>1. CASE End(p)
        BY <1>0, <1>1, <4>1, Ended
      <4>2. CASE Goto(p, [run[p] EXCEPT !.at = "append", !.copy = s, !.todo = {"body", "index"}])
        BY <1>0, <1>1, <4>2 DEF Goto, Run
      <4> QED
        BY <3>1, <4>1, <4>2
    <3>5. Shown(c) => Shown(s)
      BY <3>3 DEF Shown
    <3> QED
      BY <1>0, <1>2, <1>3, <1>4, <3>1, <3>2, <3>4, <3>5, LaneHealedFrom DEF Writing
  <2> QED
    BY <1>7, <2>1, <2>2, <2>3 DEF CronStep
<1>8. CASE LaneStep(p)
  <2>1. ASSUME NEW ok \in StoreOutcomes, WriteBody(p, ok) PROVE Healed'
    <3>1. /\ UNCHANGED <<confirmed, crossed>> /\ run[p].at = "write"
          /\ seal' = run[p].copy \/ seal' = seal
          /\ End(p) \/ Goto(p, [run[p] EXCEPT !.at = "back", !.copy = Blank])
      BY <2>1 DEF WriteBody, At, history
    <3>2. p \in InFlight /\ Writing(run[p])
      BY <1>0, <3>1 DEF InFlight, Writing
    <3>3. ~Writing(run'[p])
      <4>1. CASE End(p)
        BY <1>0, <1>1, <4>1, Ended DEF Writing
      <4>2. CASE Goto(p, [run[p] EXCEPT !.at = "back", !.copy = Blank])
        BY <1>0, <1>1, <4>2 DEF Goto, Run, Writing
      <4> QED
        BY <3>1, <4>1, <4>2
    <3> QED
      BY <1>0, <1>2, <1>3, <1>4, <3>1, <3>2, <3>3, LaneHealedFrom
  <2>2. ASSUME NEW ok \in StoreOutcomes, NEW k \in {"body", "index"}, WriteKey(p, k, ok) PROVE Healed'
    <3>1. /\ UNCHANGED <<confirmed, crossed>> /\ run[p].at = "append"
          /\ seal' = run[p].copy \/ seal' = seal
          /\ End(p) \/ Goto(p, [run[p] EXCEPT !.todo = run[p].todo \ {k}])
      BY <2>2 DEF WriteKey, At, history
    <3>2. p \in InFlight /\ Writing(run[p])
      BY <1>0, <3>1 DEF InFlight, Writing
    <3>3. run'[p].at = "ended" \/ run'[p].copy = run[p].copy
      <4>1. CASE End(p)
        BY <1>0, <1>1, <4>1, Ended
      <4>2. CASE Goto(p, [run[p] EXCEPT !.todo = run[p].todo \ {k}])
        BY <1>0, <1>1, <4>2 DEF Goto, Run
      <4> QED
        BY <3>1, <4>1, <4>2
    <3> QED
      BY <1>0, <1>2, <1>3, <1>4, <3>1, <3>2, <3>3, LaneHealedFrom DEF Writing
  <2> QED
    BY <1>8, <2>1, <2>2 DEF LaneStep
<1>9. CASE Kill(p)
  <2>1. /\ UNCHANGED <<seal, confirmed>> /\ End(p)
        /\ ~crossed' => ~crossed
    BY <1>9 DEF Kill, store
  <2>2. run'[p].at = "ended" /\ ~Writing(run'[p])
    BY <1>0, <1>1, <2>1, Ended DEF Writing
  <2> QED
    BY <1>0, <1>3, <2>1, <2>2, LaneHealedFrom
<1> QED
  BY <1>6, <1>7, <1>8, <1>9

(* A submission steps outside its last merge, and the seal and the          *)
(* confirmed votes stay.                                                    *)
Quiet(r) == r.at # "claim" /\ (r.at \in {"mergeRead", "sidecars", "merge"} => ~r.final)

LEMMA QuietHealed ==
    ASSUME HVTypeOK, Healed, NEW p \in Submitters,
           \A q \in Handlers : q # p => run'[q] = run[q],
           UNCHANGED <<seal, confirmed>>, ~crossed' => ~crossed,
           Quiet(run'[p]), crossed' \/ Quiet(run[p])
    PROVE  Healed'
<1> SUFFICES ASSUME ~crossed' PROVE OnTheirWay'
  BY DEF Healed
<1>1. /\ \A q \in Submitters : q # p => run'[q] = run[q]
      /\ \A q \in Lanes : q \in Handlers /\ run'[q] = run[q]
  BY Kinds
<1>2. /\ LastMerge' = LastMerge /\ p \notin LastMerge
      /\ Healing' = Healing /\ (Lanes \cap InFlight)' = Lanes \cap InFlight
      /\ \A q \in LastMerge : run'[q] = run[q] /\ (q \in Merging' <=> q \in Merging)
  BY <1>1 DEF Quiet, LastMerge, Healing, At, InFlight, Merging
<1>3. OnTheirWay
  BY DEF Healed
<1>4. Shown(seal)' \/ Healing'
  BY <1>2, <1>3 DEF OnTheirWay, Shown
<1>5. \A q \in Lanes : Writing(run[q])' => Shown(run[q].copy)' \/ Healing'
  BY <1>1, <1>2, <1>3 DEF OnTheirWay, Shown
<1>6. \A q \in LastMerge' :
         /\ (Lanes \cap InFlight)' = {} /\ \A u \in LastMerge' : u = q
         /\ q \in Merging' => \A a \in confirmed' : a \in run'[q].todo \/ run'[q].seen[a] # NoVote
  BY <1>2, <1>3 DEF OnTheirWay
<1> QED
  BY <1>4, <1>5, <1>6 DEF OnTheirWay

(* The one last merge reads on.                                             *)
LEMMA LastReadHealed ==
    ASSUME HVTypeOK, Healed, NEW p \in LastMerge,
           \A q \in Handlers : q # p => run'[q] = run[q],
           UNCHANGED <<seal, confirmed, crossed>>,
           run'[p].at \in {"sidecars", "merge"}, run'[p].final,
           \A a \in confirmed : (p \in Merging => a \in run[p].todo \/ run[p].seen[a] # NoVote) =>
                                a \in run'[p].todo \/ run'[p].seen[a] # NoVote
    PROVE  Healed'
<1> SUFFICES ASSUME ~crossed' PROVE OnTheirWay'
  BY DEF Healed
<1>1. /\ p \in Submitters
      /\ \A q \in Submitters : q # p => run'[q] = run[q]
      /\ \A q \in Lanes : q \in Handlers /\ run'[q] = run[q]
  BY Kinds DEF LastMerge
<1>2. OnTheirWay
  BY DEF Healed
<1>3. Lanes \cap InFlight = {} /\ \A u \in LastMerge : u = p
  BY <1>2 DEF OnTheirWay
<1>4. /\ \A u \in LastMerge' : u = p
      /\ p \in LastMerge' /\ Healing' /\ (Lanes \cap InFlight)' = {}
  BY <1>1, <1>3 DEF LastMerge, Healing, InFlight
<1>5. \A a \in confirmed : a \in run'[p].todo \/ run'[p].seen[a] # NoVote
  BY <1>2 DEF OnTheirWay
<1> QED
  BY <1>4, <1>5 DEF OnTheirWay

LEMMA SubmitHealed ==
    ASSUME HVTypeOK, HVTypeOK', Aside, Healed, NEW p \in Submitters, SubmitStep(p)
    PROVE  Healed'
<1>0. p \in Handlers /\ \A q \in Handlers : q # p => run'[q] = run[q]
  BY Kinds, OthersStay
<1>1. /\ run \in [Handlers -> Run] /\ run[p] \in Run /\ run[p].seen \in Votes /\ run[p].copy \in Seals
      /\ confirmed \subseteq Sentinels /\ run[p].agent \in Sentinels /\ sidecar \in Votes
  BY <1>0, StoreTyped DEF Run
<1>2. /\ \A q \in Submitters : q # p => run'[q] = run[q]
      /\ \A q \in Lanes : q \in Handlers /\ run'[q] = run[q]
      /\ (Lanes \cap InFlight)' = Lanes \cap InFlight
  BY <1>0, Kinds DEF InFlight
<1>3. ASSUME NEW a \in Sentinels, NEW v \in CastVerdicts, NEW k \in DedupeKeys, Submit(p, a, v, k)
      PROVE  Healed'
  <2>1. /\ run[p].at = "idle" /\ run'[p].at = "vote"
        /\ UNCHANGED <<seal, confirmed, crossed>>
    BY <1>0, <1>1, <1>3, IdleTyped DEF Submit, At, Goto, Run, store, history
  <2> QED
    BY <1>0, <2>1, QuietHealed DEF Quiet
<1>4. ASSUME NEW ok \in StoreOutcomes, WriteSidecar(p, ok)
      PROVE  Healed'
  <2>1. run[p].at = "vote" /\ UNCHANGED <<seal, confirmed, crossed>>
    BY <1>4 DEF WriteSidecar, At, history
  <2>2. run'[p].at = "ended" \/ (run'[p].at = "mergeRead" /\ run'[p].final = run[p].final)
    <3>1. CASE End(p)
      BY <1>0, <1>1, <3>1, Ended
    <3>2. CASE Goto(p, [run[p] EXCEPT !.at = "mergeRead"])
      BY <1>0, <1>1, <3>2 DEF Goto, Run
    <3> QED
      BY <1>4, <3>1, <3>2 DEF WriteSidecar
  <2>3. ~run[p].final
    BY <2>1 DEF Aside, NotMergedYet, At
  <2> QED
    BY <1>0, <2>1, <2>2, <2>3, QuietHealed DEF Quiet
<1>5. ASSUME ReadForMerge(p)
      PROVE  Healed'
  <2>1. /\ run[p].at = "mergeRead" /\ run'[p].at = "sidecars" /\ run'[p].final = run[p].final
        /\ run'[p].todo = Sentinels /\ UNCHANGED <<seal, confirmed, crossed>>
    BY <1>0, <1>1, <1>5 DEF ReadForMerge, At, Goto, Run, store
  <2>2. CASE ~run[p].final
    BY <1>0, <2>1, <2>2, QuietHealed DEF Quiet
  <2>3. CASE run[p].final
    <3>1. p \in LastMerge
      BY <2>1, <2>3 DEF LastMerge
    <3> QED
      BY <1>0, <1>1, <2>1, <2>3, <3>1, LastReadHealed
  <2> QED
    BY <2>2, <2>3
<1>6. ASSUME NEW a \in Sentinels, ReadSidecar(p, a)
      PROVE  Healed'
  <2>1. /\ run[p].at = "sidecars" /\ run'[p].at \in {"sidecars", "merge"} /\ run'[p].final = run[p].final
        /\ run'[p].todo = run[p].todo \ {a}
        /\ run'[p].seen = [run[p].seen EXCEPT ![a] = sidecar[a]]
        /\ UNCHANGED <<seal, confirmed, crossed>>
    BY <1>0, <1>1, <1>6 DEF ReadSidecar, At, Goto, Run, store, history
  <2>2. CASE ~run[p].final
    BY <1>0, <2>1, <2>2, QuietHealed DEF Quiet
  <2>3. CASE run[p].final
    <3>1. p \in LastMerge /\ p \in Merging
      BY <2>1, <2>3 DEF LastMerge, Merging
    <3>2. \A b \in confirmed : sidecar[b] # NoVote
      BY DEF Aside, KeptAside
    <3>3. ASSUME NEW b \in confirmed, b \in run[p].todo \/ run[p].seen[b] # NoVote
          PROVE  b \in run'[p].todo \/ run'[p].seen[b] # NoVote
      BY <1>1, <2>1, <3>2, <3>3 DEF Votes
    <3> QED
      BY <1>0, <2>1, <2>3, <3>1, <3>3, LastReadHealed
  <2> QED
    BY <2>2, <2>3
<1>7. ASSUME NEW ok \in StoreOutcomes, WriteMerge(p, ok)
      PROVE  Healed'
  <2> SUFFICES ASSUME ~crossed' PROVE OnTheirWay'
    BY DEF Healed
  <2>1. ~crossed /\ run[p].at = "merge"
    BY <1>7 DEF WriteMerge, At
  <2>2. OnTheirWay /\ p \in Merging /\ run[p].todo = {}
    BY <2>1 DEF Healed, Aside, ReadAside, Merging, At
  <2>3. CASE run[p].final
    <3>1. /\ seal' = Merged(run[p].copy, run[p].seen)
          /\ confirmed' = confirmed \cup {run[p].agent} /\ End(p)
      BY <1>7, <2>3 DEF WriteMerge
    <3>2. p \in LastMerge
      BY <2>1, <2>3 DEF LastMerge
    <3>3. Lanes \cap InFlight = {} /\ \A q \in LastMerge : q = p
      BY <2>2, <3>2 DEF OnTheirWay
    <3>4. \A a \in confirmed' : a \in Sentinels /\ run[p].seen[a] # NoVote
      <4>1. \A a \in confirmed : run[p].seen[a] # NoVote
        BY <2>2, <3>2 DEF OnTheirWay
      <4>2. run[p].seen[run[p].agent] # NoVote
        BY <2>2 DEF Aside, ReadAside
      <4> QED
        BY <1>1, <3>1, <4>1, <4>2
    <3>5. \A a \in Sentinels : run[p].seen[a] # NoVote => seal'.votes[a] = run[p].seen[a]
      BY <1>1, <3>1 DEF Merged, Seals
    <3>6. Shown(seal)'
      BY <3>4, <3>5 DEF Shown
    <3>7. LastMerge' = {}
      <4>1. run'[p].at = "ended"
        BY <1>0, <1>1, <3>1, Ended
      <4> QED
        BY <1>2, <3>3, <4>1 DEF LastMerge
    <3>8. \A q \in Lanes : ~Writing(run'[q])
      BY <1>2, <3>3 DEF Writing, InFlight
    <3> QED
      BY <3>6, <3>7, <3>8 DEF OnTheirWay
  <2>4. CASE ~run[p].final
    <3>1. Goto(p, [run[p] EXCEPT !.at = "claim"]) /\ confirmed' = confirmed
      BY <1>7, <2>4 DEF WriteMerge
    <3>2. run'[p].at = "claim"
      BY <1>0, <1>1, <3>1 DEF Goto, Run
    <3>3. Healing'
      BY <3>2 DEF Healing, At
    <3>4. LastMerge' = LastMerge /\ p \notin LastMerge
          /\ \A q \in LastMerge : run'[q] = run[q] /\ (q \in Merging' <=> q \in Merging)
      BY <1>2, <2>4, <3>2 DEF LastMerge, Merging
    <3>5. \A q \in LastMerge' :
             /\ (Lanes \cap InFlight)' = {} /\ \A u \in LastMerge' : u = q
             /\ q \in Merging' => \A a \in confirmed' : a \in run'[q].todo \/ run'[q].seen[a] # NoVote
      BY <1>2, <2>2, <3>1, <3>4 DEF OnTheirWay
    <3> QED
      BY <3>3, <3>5 DEF OnTheirWay
  <2> QED
    BY <2>3, <2>4
<1>8. ASSUME NEW ok \in StoreOutcomes, ClaimKey(p, ok)
      PROVE  Healed'
  <2> SUFFICES ASSUME ~crossed' PROVE OnTheirWay'
    BY DEF Healed
  <2>1. /\ LastMerge = {} /\ Lanes \cap InFlight = {}
        /\ Goto(p, [run[p] EXCEPT !.at = "mergeRead", !.final = TRUE])
    BY <1>8 DEF ClaimKey
  <2>2. run'[p].at = "mergeRead" /\ run'[p].final
    BY <1>0, <1>1, <2>1 DEF Goto, Run
  <2>3. LastMerge' = {p} /\ p \notin Merging'
    BY <1>2, <2>1, <2>2 DEF LastMerge, Merging
  <2>4. Healing'
    BY <2>3 DEF Healing
  <2> QED
    BY <1>2, <2>1, <2>3, <2>4 DEF OnTheirWay
<1> QED
  BY <1>3, <1>4, <1>5, <1>6, <1>7, <1>8 DEF SubmitStep

LEMMA HealedStep ==
    ASSUME HVTypeOK, HVTypeOK', Aside, Healed, [HVNext]_hvvars
    PROVE  Healed'
<1>1. CASE UNCHANGED hvvars
  BY <1>1 DEF hvvars, store, history, Healed, OnTheirWay, Healing, Shown, Writing, LastMerge, Merging, InFlight, At
<1>2. ASSUME NEW p \in Submitters, Kill(p) PROVE Healed'
  <2>1. /\ run'[p].at = "ended" /\ UNCHANGED <<seal, confirmed>>
        /\ crossed' = (crossed \/ At(p, "claim") \/ p \in LastMerge)
        /\ \A q \in Handlers : q # p => run'[q] = run[q]
    BY <1>2, Kinds, StoreTyped, Ended DEF Kill, store
  <2> QED
    BY <2>1, QuietHealed DEF Quiet, LastMerge, At
<1> QED
  BY <1>1, <1>2, Kinds, SubmitHealed, LaneHealed DEF HVNext

LEMMA HealedInit == HVInit => Healed
BY IdleTyped, Kinds DEF HVInit, Healed, OnTheirWay, Shown, Writing, LastMerge

-----------------------------------------------------------------------------
(* One copy of the seal at a time.                                          *)

(* Seal t keeps the votes of s, and its promotion and pointer.              *)
Keeps(s, t) ==
    /\ \A a \in Sentinels : s.votes[a] # NoVote => t.votes[a] # NoVote
    /\ s.status = "attested" => t.status = "attested" /\ (s.pointer => t.pointer)

Holders == Merging \cup (Lanes \cap InFlight)

(* What a lane at r is about to write, against a seal s that the index      *)
(* names if i.                                                              *)
LaneCopy(r, s, i) ==
    /\ r.at = "write" => Keeps(s, r.copy) /\ s.status # "attested" /\ r.copy.status # "attested"
    /\ r.at = "repair" => r.copy = s /\ s.status \in {"attested", "quarantined"}
    /\ r.at = "append" =>
          /\ r.copy.status = "attested" /\ r.todo \subseteq {"body", "index"} /\ r.todo # {}
          /\ IF "body" \in r.todo THEN Keeps(s, r.copy) ELSE s = r.copy
          /\ "index" \in r.todo \/ i

Settled == (\A p \in Lanes : ~At(p, "append")) => (indexed <=> seal.status = "attested")

(* While no copies were held together, the one holder has the seal as it is, *)
(* or what it made of it.                                                    *)
OneCopy ==
    /\ \A p, q \in Holders : p = q
    /\ \A p \in Merging : run[p].copy = seal
    /\ \A p \in Lanes : LaneCopy(run[p], seal, indexed)
    /\ Settled

Serial == ~torn => OneCopy

LEMMA KeepsSeal ==
    /\ \A s : Keeps(s, s)
    /\ \A s \in Seals, v \in Votes :
          Keeps(s, Merged(s, v)) /\ Merged(s, v).status = s.status
    /\ \A s, t \in Seals, a \in Sentinels, w \in Verdicts :
          t.votes = [s.votes EXCEPT ![a] = w] /\ s.status # "attested" => Keeps(s, t)
<1>1. ASSUME NEW s \in Seals, NEW v \in Votes
      PROVE  Keeps(s, Merged(s, v)) /\ Merged(s, v).status = s.status
  BY <1>1 DEF Keeps, Merged, Seals
<1>2. ASSUME NEW s \in Seals, NEW t \in Seals, NEW a \in Sentinels, NEW w \in Verdicts,
             t.votes = [s.votes EXCEPT ![a] = w], s.status # "attested"
      PROVE  Keeps(s, t)
  BY <1>2, VoteFacts DEF Keeps, Seals, Votes
<1> QED
  BY <1>1, <1>2 DEF Keeps

(* A lane steps that nobody else holds a copy beside.                       *)
LEMMA LaneSerialFrom ==
    ASSUME HVTypeOK, NEW p \in Lanes,
           \A q \in Handlers : q # p => run'[q] = run[q],
           ~torn' => /\ Holders \subseteq {p}
                     /\ LaneCopy(run'[p], seal', indexed')
                     /\ run'[p].at # "append" => (indexed' <=> seal'.status = "attested")
    PROVE  Serial'
<1> SUFFICES ASSUME ~torn' PROVE OneCopy'
  BY DEF Serial
<1>1. \A q \in Submitters : q # p /\ run'[q] = run[q]
  BY Kinds
<1>2. /\ Merging' = {}
      /\ \A q \in Lanes \ {p} : q \notin InFlight'
  BY <1>1, Kinds DEF Holders, Merging, InFlight
<1>3. Holders' \subseteq {p}
  BY <1>2 DEF Holders
<1>4. \A q \in Lanes \ {p} : run'[q].at \in {"idle", "ended"}
  BY <1>2, Kinds DEF InFlight
<1>5. \A q \in Lanes : LaneCopy(run'[q], seal', indexed')
  BY <1>4 DEF LaneCopy
<1>6. Settled'
  BY DEF Settled, At
<1> QED
  BY <1>2, <1>3, <1>5, <1>6 DEF OneCopy

LEMMA LaneSerial ==
    ASSUME HVTypeOK, HVTypeOK', Serial, NEW p \in Lanes,
           OperatorStep(p) \/ CronStep(p) \/ LaneStep(p)
    PROVE  Serial' /\ (~torn' => Keeps(seal, seal'))
<1>0. p \in Handlers /\ p \notin Submitters /\ \A q \in Handlers : q # p => run'[q] = run[q]
  BY Kinds, OthersStay
<1>1. /\ seal \in Seals /\ seal.votes \in Votes /\ indexed \in BOOLEAN
      /\ run \in [Handlers -> Run] /\ run[p] \in Run /\ run[p].copy \in Seals
  BY <1>0, StoreTyped, SealsClosed DEF Run
(* A lane in flight is the one holder.                                      *)
<1>2. ~torn /\ p \in InFlight =>
         /\ Holders \subseteq {p}
         /\ LaneCopy(run[p], seal, indexed)
         /\ run[p].at # "append" => (indexed <=> seal.status = "attested")
  <2> SUFFICES ASSUME ~torn, p \in InFlight
               PROVE  /\ Holders \subseteq {p} /\ LaneCopy(run[p], seal, indexed)
                      /\ run[p].at # "append" => (indexed <=> seal.status = "attested")
    OBVIOUS
  <2>1. OneCopy /\ p \in Holders
    BY DEF Serial, Holders
  <2>2. Holders \subseteq {p}
    BY <2>1 DEF OneCopy
  <2>3. \A q \in Lanes : q # p => ~At(q, "append")
    BY <2>2, Kinds DEF Holders, InFlight, At
  <2> QED
    BY <2>1, <2>2, <2>3 DEF OneCopy, Settled, At
(* A lane that starts meets no holder.                                      *)
<1>3. Enter(p) /\ ~torn' =>
         /\ Holders \subseteq {p} /\ seal' = seal /\ indexed' = indexed
         /\ indexed <=> seal.status = "attested"
  <2> SUFFICES ASSUME Enter(p), ~torn'
               PROVE  /\ Holders \subseteq {p} /\ seal' = seal /\ indexed' = indexed
                      /\ indexed <=> seal.status = "attested"
    OBVIOUS
  <2>1. ~torn /\ Holders \subseteq {p} /\ run[p].at = "idle" /\ seal' = seal /\ indexed' = indexed
    BY DEF Enter, Taken, Holders, At, store
  <2>2. \A q \in Lanes : ~At(q, "append")
    BY <2>1, Kinds DEF Holders, InFlight, At
  <2> QED
    BY <2>1, <2>2 DEF Serial, OneCopy, Settled
(* What a vote on the seal goes on to write.                                *)
<1>4. ASSUME NEW a \in Sentinels, NEW w \in Verdicts, NEW left \in SUBSET (Sentinels \cup {"body", "index"}),
             NEW ok \in BOOLEAN, BackAttest(p, a, w, left, ok), seal.status # "attested"
      PROVE  LaneCopy(run'[p], seal, indexed)
  <2>1. PICK r \in Run : Goto(p, r) /\ Voted(r, a, w, left, ok)
    BY <1>4, BackAttestTyped
  <2>2. run'[p] = r
    BY <1>0, <1>1, <2>1, Moved
  <2>3. r.copy \in Seals /\ r.copy.votes = [seal.votes EXCEPT ![a] = w]
    BY <1>1, <2>1 DEF Voted, Seals, Run
  <2>4. Keeps(seal, r.copy)
    BY <1>1, <1>4, <2>3, KeepsSeal
  <2>5. r.at = "write" => r.copy.status = seal.status
    BY <1>1, <2>1 DEF Voted, Seals
  <2>6. r.at \in {"write", "append"}
    BY <2>1 DEF Voted
  <2>7. r.at = "append" => r.copy.status = "attested" /\ r.todo = {"body", "index"}
    BY <2>1 DEF Voted
  <2> QED
    BY <1>4, <2>2, <2>4, <2>5, <2>6, <2>7 DEF LaneCopy
<1>5. CASE OperatorStep(p)
  <2>1. PICK a \in Sentinels, v \in CastVerdicts, ok \in SubstrateOutcomes : OperatorVote(p, a, v, ok)
    BY <1>5 DEF OperatorStep
  <2>2. Enter(p) /\ BackAttest(p, a, v, {}, ok) /\ seal.status # "attested"
    BY <2>1 DEF OperatorVote
  <2>3. LaneCopy(run'[p], seal, indexed)
    BY <1>4, <2>2, WritersAssumption
  <2> QED
    BY <1>0, <1>3, <2>2, <2>3, KeepsSeal, LaneSerialFrom
<1>6. CASE CronStep(p)
  <2>1. ASSUME ListSeal(p) PROVE Serial' /\ (~torn' => Keeps(seal, seal'))
    <3>1. Enter(p)
      BY <2>1 DEF ListSeal
    <3>2. LaneCopy(run'[p], seal, indexed)
      <4>1. CASE Goto(p, [Idle EXCEPT !.at = "back", !.todo = Missing(seal.votes)])
        BY <1>0, <1>1, <4>1 DEF Goto, Idle, LaneCopy
      <4>2. CASE /\ seal.status = "quarantined"
                 /\ Goto(p, [Idle EXCEPT !.at = "write", !.copy = [seal EXCEPT !.status = "permanently-failed"]])
        <5>1. run'[p].at = "write" /\ run'[p].copy = [seal EXCEPT !.status = "permanently-failed"]
          BY <1>0, <1>1, <4>2 DEF Goto, Idle
        <5>2. run'[p].copy.status = "permanently-failed" /\ run'[p].copy.votes = seal.votes
          BY <1>1, <5>1 DEF Seals
        <5> QED
          BY <4>2, <5>1, <5>2 DEF LaneCopy, Keeps
      <4>3. CASE (Stuck \/ Stale) /\ Goto(p, [Idle EXCEPT !.at = "repair", !.copy = seal])
        <5>1. run'[p].at = "repair" /\ run'[p].copy = seal
          BY <1>0, <1>1, <4>3 DEF Goto, Idle
        <5>2. seal.status \in {"attested", "quarantined"}
          BY <4>3 DEF Stuck, Stale
        <5> QED
          BY <5>1, <5>2 DEF LaneCopy
      <4> QED
        BY <2>1, <4>1, <4>2, <4>3 DEF ListSeal
    <3> QED
      BY <1>0, <1>3, <3>1, <3>2, KeepsSeal, LaneSerialFrom
  <2>2. ASSUME NEW i \in DOMAIN Council, NEW ok \in SubstrateOutcomes, CronVote(p, i, ok)
        PROVE  Serial' /\ (~torn' => Keeps(seal, seal'))
    <3>1. /\ UNCHANGED <<seal, indexed, torn>> /\ run[p].at = "back"
          /\ \/ /\ BackAttest(p, Council[i], "pass", run[p].todo \ {Council[i]}, ok)
                /\ seal.status # "attested"
             \/ End(p)
             \/ Goto(p, [run[p] EXCEPT !.todo = run[p].todo \ {Council[i]}])
      BY <2>2 DEF CronVote, At, store, history
    <3>2. p \in InFlight
      BY <1>0, <3>1 DEF InFlight
    <3>3. LaneCopy(run'[p], seal, indexed)
      <4>1. CASE /\ BackAttest(p, Council[i], "pass", run[p].todo \ {Council[i]}, ok)
                 /\ seal.status # "attested"
        <5>1. Council[i] \in Sentinels
          BY <2>2 DEF Sentinels, Range
        <5>2. run[p].todo \ {Council[i]} \in SUBSET (Sentinels \cup {"body", "index"})
          BY <1>1 DEF Run
        <5> QED
          BY <1>4, <4>1, <5>1, <5>2, VoteFacts, WritersAssumption
      <4>2. CASE End(p)
        BY <1>0, <1>1, <4>2, Ended DEF LaneCopy
      <4>3. CASE Goto(p, [run[p] EXCEPT !.todo = run[p].todo \ {Council[i]}])
        <5>1. run'[p].at = "back"
          BY <1>0, <1>1, <3>1, <4>3 DEF Goto, Run
        <5> QED
          BY <5>1 DEF LaneCopy
      <4> QED
        BY <3>1, <4>1, <4>2, <4>3
    <3> QED
      BY <1>0, <1>2, <3>1, <3>2, <3>3, KeepsSeal, LaneSerialFrom
  <2>3. ASSUME NEW head \in BOOLEAN, NEW substrate \in SubstrateOutcomes, NEW ok \in StoreOutcomes,
               Repair(p, head, substrate, ok)
        PROVE  Serial' /\ (~torn' => Keeps(seal, seal'))
    <3> DEFINE c == run[p].copy
               s == [c EXCEPT !.status = IF substrate THEN "attested" ELSE @, !.pointer = substrate \/ @]
    <3>1. /\ UNCHANGED <<indexed, torn>> /\ run[p].at = "repair"
          /\ seal' = s \/ seal' = seal
          /\ \/ /\ substrate
                /\ Goto(p, [run[p] EXCEPT !.at = "append", !.copy = s, !.todo = {"body", "index"}])
             \/ ~(substrate /\ c.status = "quarantined") /\ End(p)
      BY <2>3 DEF Repair, At, history
    <3>2. p \in InFlight
      BY <1>0, <3>1 DEF InFlight
    <3> SUFFICES ASSUME ~torn' PROVE Serial' /\ Keeps(seal, seal')
      BY DEF Serial
    <3>3. /\ c = seal /\ seal.status \in {"attested", "quarantined"}
          /\ Holders \subseteq {p} /\ (indexed <=> seal.status = "attested")
      BY <1>2, <3>1, <3>2 DEF LaneCopy
    <3>4. /\ s.votes = seal.votes
          /\ s.status = IF substrate THEN "attested" ELSE seal.status
          /\ s.pointer = (substrate \/ seal.pointer)
      BY <1>1, <3>3 DEF Seals
    <3>5. Keeps(seal, s)
      BY <3>4 DEF Keeps
    <3>6. Keeps(seal, seal')
      BY <3>1, <3>5, KeepsSeal
    <3>7. CASE substrate /\ Goto(p, [run[p] EXCEPT !.at = "append", !.copy = s, !.todo = {"body", "index"}])
      <4>1. run'[p].at = "append" /\ run'[p].copy = s /\ run'[p].todo = {"body", "index"}
        BY <1>0, <1>1, <3>7 DEF Goto, Run
      <4>2. Keeps(seal', s) /\ s.status = "attested"
        BY <3>1, <3>4, <3>5, <3>7, KeepsSeal
      <4>3. LaneCopy(run'[p], seal', indexed')
        BY <4>1, <4>2 DEF LaneCopy
      <4> QED
        BY <1>0, <3>3, <3>6, <4>1, <4>3, LaneSerialFrom
    <3>8. CASE ~(substrate /\ c.status = "quarantined") /\ End(p)
      <4>1. run'[p].at = "ended"
        BY <1>0, <1>1, <3>8, Ended
      <4>2. indexed' <=> seal'.status = "attested"
        BY <3>1, <3>3, <3>4, <3>8
      <4>3. LaneCopy(run'[p], seal', indexed')
        BY <4>1 DEF LaneCopy
      <4> QED
        BY <1>0, <3>3, <3>6, <4>2, <4>3, LaneSerialFrom
    <3> QED
      BY <3>1, <3>7, <3>8
  <2> QED
    BY <1>6, <2>1, <2>2, <2>3 DEF CronStep
<1>7. CASE LaneStep(p)
  <2>1. ASSUME NEW ok \in StoreOutcomes, WriteBody(p, ok)
        PROVE  Serial' /\ (~torn' => Keeps(seal, seal'))
    <3>1. /\ UNCHANGED <<indexed, torn>> /\ run[p].at = "write"
          /\ seal' = run[p].copy \/ seal' = seal
          /\ End(p) \/ Goto(p, [run[p] EXCEPT !.at = "back", !.copy = Blank])
      BY <2>1 DEF WriteBody, At, history
    <3>2. p \in InFlight
      BY <1>0, <3>1 DEF InFlight
    <3> SUFFICES ASSUME ~torn' PROVE Serial' /\ Keeps(seal, seal')
      BY DEF Serial
    <3>3. /\ Keeps(seal, run[p].copy) /\ seal.status # "attested" /\ run[p].copy.status # "attested"
          /\ Holders \subseteq {p} /\ (indexed <=> seal.status = "attested")
      BY <1>2, <3>1, <3>2 DEF LaneCopy
    <3>4. run'[p].at \in {"ended", "back"}
      <4>1. CASE End(p)
        BY <1>0, <1>1, <4>1, Ended
      <4>2. CASE Goto(p, [run[p] EXCEPT !.at = "back", !.copy = Blank])
        BY <1>0, <1>1, <4>2 DEF Goto, Run
      <4> QED
        BY <3>1, <4>1, <4>2
    <3>5. LaneCopy(run'[p], seal', indexed')
      BY <3>4 DEF LaneCopy
    <3>6. /\ indexed' <=> seal'.status = "attested"
          /\ Keeps(seal, seal')
      BY <3>1, <3>3, KeepsSeal
    <3> QED
      BY <1>0, <3>3, <3>5, <3>6, LaneSerialFrom
  <2>2. ASSUME NEW ok \in StoreOutcomes, NEW k \in {"body", "index"}, WriteKey(p, k, ok)
        PROVE  Serial' /\ (~torn' => Keeps(seal, seal'))
    <3> SUFFICES ASSUME ~torn' PROVE Serial' /\ Keeps(seal, seal')
      BY DEF Serial
    <3> DEFINE left == run[p].todo \ {k}
    <3>1. /\ ~torn /\ run[p].at = "append" /\ k \in run[p].todo
          /\ seal' = IF k = "body" THEN run[p].copy ELSE seal
          /\ indexed' = (indexed \/ k = "index")
          /\ IF left = {} THEN End(p) ELSE Goto(p, [run[p] EXCEPT !.todo = left])
      BY <2>2 DEF WriteKey, At
    <3>2. p \in InFlight
      BY <1>0, <3>1 DEF InFlight
    <3>3. Holders \subseteq {p} /\ LaneCopy(run[p], seal, indexed)
      BY <1>2, <3>1, <3>2
    <3>4. /\ run[p].copy.status = "attested" /\ run[p].todo \subseteq {"body", "index"}
          /\ IF "body" \in run[p].todo THEN Keeps(seal, run[p].copy) ELSE seal = run[p].copy
          /\ "index" \in run[p].todo \/ indexed
      BY <3>1, <3>3 DEF LaneCopy
    <3>5. /\ IF "body" \in left THEN Keeps(seal', run[p].copy) ELSE seal' = run[p].copy
          /\ "index" \in left \/ indexed'
      BY <3>1, <3>4
    <3>6. Keeps(seal, seal')
      BY <3>1, <3>4, KeepsSeal
    <3>7. CASE left = {}
      <4>1. run'[p].at = "ended"
        BY <1>0, <1>1, <3>1, <3>7, Ended
      <4>2. indexed' /\ seal'.status = "attested"
        BY <3>4, <3>5, <3>7
      <4>3. LaneCopy(run'[p], seal', indexed')
        BY <4>1 DEF LaneCopy
      <4> QED
        BY <1>0, <3>3, <3>6, <4>2, <4>3, LaneSerialFrom
    <3>8. CASE left # {}
      <4>1. run'[p].at = "append" /\ run'[p].copy = run[p].copy /\ run'[p].todo = left
        BY <1>0, <1>1, <3>1, <3>8 DEF Goto, Run
      <4>2. LaneCopy(run'[p], seal', indexed')
        BY <3>4, <3>5, <3>8, <4>1 DEF LaneCopy
      <4> QED
        BY <1>0, <3>3, <3>6, <4>1, <4>2, LaneSerialFrom
    <3> QED
      BY <3>7, <3>8
  <2> QED
    BY <1>7, <2>1, <2>2 DEF LaneStep
<1> QED
  BY <1>5, <1>6, <1>7

(* A submission steps: into a merge, within it, out of it, or elsewhere.    *)
LEMMA SubmitSerialFrom ==
    ASSUME HVTypeOK, Serial, NEW p \in Submitters,
           \A q \in Handlers : q # p => run'[q] = run[q],
           indexed' = indexed,
           ~torn' => /\ ~torn /\ seal'.status = seal.status
                     /\ run'[p].at \in {"sidecars", "merge"} => Holders \subseteq {p} /\ run'[p].copy = seal
                     /\ seal' = seal \/ Holders \subseteq {p}
                     /\ run'[p].at \in {"sidecars", "merge"} => seal' = seal
    PROVE  Serial'
<1> SUFFICES ASSUME ~torn' PROVE OneCopy'
  BY DEF Serial
<1>1. /\ \A q \in Lanes : q # p /\ run'[q] = run[q]
      /\ \A q \in Submitters : q # p => run'[q] = run[q]
  BY Kinds
<1>2. OneCopy
  BY DEF Serial
<1>3. \A q \in Merging' : q = p \/ q \in Merging
  BY <1>1 DEF Merging
<1>4. (Lanes \cap InFlight)' = Lanes \cap InFlight
  BY <1>1, Kinds DEF InFlight
<1>5. \A q, u \in Holders' : q = u
  <2>1. CASE p \in Merging'
    BY <1>3, <1>4, <2>1 DEF Holders, Merging
  <2>2. CASE p \notin Merging'
    BY <1>2, <1>3, <1>4, <2>2 DEF Holders, OneCopy
  <2> QED
    BY <2>1, <2>2
<1>6. \A q \in Merging' : run'[q].copy = seal'
  <2> SUFFICES ASSUME NEW q \in Merging' PROVE run'[q].copy = seal'
    OBVIOUS
  <2>1. CASE q = p
    BY <2>1 DEF Merging
  <2>2. CASE q # p
    <3>1. q \in Merging /\ run'[q] = run[q] /\ ~(Holders \subseteq {p})
      BY <1>1, <1>3, <2>2 DEF Holders, Merging
    <3> QED
      BY <1>2, <3>1 DEF OneCopy
  <2> QED
    BY <2>1, <2>2
<1>7. ASSUME NEW q \in Lanes PROVE LaneCopy(run'[q], seal', indexed')
  <2>1. CASE seal' = seal
    BY <1>1, <1>2, <2>1 DEF OneCopy
  <2>2. CASE Holders \subseteq {p}
    <3>1. run'[q].at \in {"idle", "ended"}
      BY <1>1, <2>2, Kinds DEF Holders, InFlight
    <3> QED
      BY <3>1 DEF LaneCopy
  <2> QED
    BY <2>1, <2>2
<1>8. Settled'
  BY <1>1, <1>2 DEF OneCopy, Settled, At
<1> QED
  BY <1>5, <1>6, <1>7, <1>8 DEF OneCopy

LEMMA SubmitSerial ==
    ASSUME HVTypeOK, HVTypeOK', Serial, NEW p \in Submitters, SubmitStep(p)
    PROVE  Serial' /\ (~torn' => Keeps(seal, seal'))
<1>0. p \in Handlers /\ p \notin Lanes /\ \A q \in Handlers : q # p => run'[q] = run[q]
  BY Kinds, OthersStay
<1>1. /\ seal \in Seals /\ run \in [Handlers -> Run] /\ run[p] \in Run
      /\ run[p].copy \in Seals /\ run[p].seen \in Votes
  BY <1>0, StoreTyped DEF Run
<1>2. ASSUME run'[p].at \notin {"sidecars", "merge"}, UNCHANGED <<seal, indexed, torn>>
      PROVE  Serial' /\ (~torn' => Keeps(seal, seal'))
  BY <1>0, <1>2, KeepsSeal, SubmitSerialFrom
(* A submission at its merge is the one holder.                             *)
<1>3. ~torn /\ run[p].at \in {"sidecars", "merge"} => Holders \subseteq {p} /\ run[p].copy = seal
  BY DEF Serial, OneCopy, Holders, Merging
<1>4. ASSUME NEW a \in Sentinels, NEW v \in CastVerdicts, NEW k \in DedupeKeys, Submit(p, a, v, k)
      PROVE  run'[p].at \notin {"sidecars", "merge"} /\ UNCHANGED <<seal, indexed, torn>>
  BY <1>0, <1>1, <1>4, IdleTyped DEF Submit, Goto, Run, store, history
<1>5. ASSUME NEW ok \in StoreOutcomes, WriteSidecar(p, ok)
      PROVE  run'[p].at \notin {"sidecars", "merge"} /\ UNCHANGED <<seal, indexed, torn>>
  <2>1. CASE End(p)
    BY <1>0, <1>1, <1>5, <2>1, Ended DEF WriteSidecar, history
  <2>2. CASE Goto(p, [run[p] EXCEPT !.at = "mergeRead"])
    BY <1>0, <1>1, <1>5, <2>2 DEF WriteSidecar, Goto, Run, history
  <2> QED
    BY <1>5, <2>1, <2>2 DEF WriteSidecar
<1>6. ASSUME NEW ok \in StoreOutcomes, ClaimKey(p, ok)
      PROVE  run'[p].at \notin {"sidecars", "merge"} /\ UNCHANGED <<seal, indexed, torn>>
  <2>1. CASE End(p)
    BY <1>0, <1>1, <1>6, <2>1, Ended DEF ClaimKey
  <2>2. CASE Goto(p, [run[p] EXCEPT !.at = "mergeRead", !.final = TRUE])
    BY <1>0, <1>1, <1>6, <2>2 DEF ClaimKey, Goto, Run
  <2> QED
    BY <1>6, <2>1, <2>2 DEF ClaimKey
<1>7. ASSUME ReadForMerge(p)
      PROVE  Serial' /\ (~torn' => Keeps(seal, seal'))
  <2>1. /\ seal' = seal /\ indexed' = indexed /\ run'[p].copy = seal
        /\ ~torn' => ~torn /\ Holders \subseteq {p}
    BY <1>0, <1>1, <1>7 DEF ReadForMerge, Taken, Holders, Goto, Run, store
  <2> QED
    BY <1>0, <2>1, KeepsSeal, SubmitSerialFrom
<1>8. ASSUME NEW a \in Sentinels, ReadSidecar(p, a)
      PROVE  Serial' /\ (~torn' => Keeps(seal, seal'))
  <2>1. /\ UNCHANGED <<seal, indexed, torn>> /\ run'[p].copy = run[p].copy
        /\ run[p].at = "sidecars"
    BY <1>0, <1>1, <1>8 DEF ReadSidecar, At, Goto, Run, store, history
  <2> QED
    BY <1>0, <1>3, <2>1, KeepsSeal, SubmitSerialFrom
<1>9. ASSUME NEW ok \in StoreOutcomes, WriteMerge(p, ok)
      PROVE  Serial' /\ (~torn' => Keeps(seal, seal'))
  <2>1. /\ UNCHANGED <<indexed, torn>> /\ run[p].at = "merge"
        /\ seal' = Merged(run[p].copy, run[p].seen) \/ seal' = seal
        /\ End(p) \/ Goto(p, [run[p] EXCEPT !.at = "claim"])
    BY <1>9 DEF WriteMerge, At
  <2>2. run'[p].at \in {"ended", "claim"}
    <3>1. CASE End(p)
      BY <1>0, <1>1, <3>1, Ended
    <3>2. CASE Goto(p, [run[p] EXCEPT !.at = "claim"])
      BY <1>0, <1>1, <3>2 DEF Goto, Run
    <3> QED
      BY <2>1, <3>1, <3>2
  <2>3. ~torn' => Keeps(seal, seal') /\ seal'.status = seal.status
    BY <1>1, <1>3, <2>1, KeepsSeal
  <2> QED
    BY <1>0, <1>3, <2>1, <2>2, <2>3, SubmitSerialFrom
<1> QED
  BY <1>2, <1>4, <1>5, <1>6, <1>7, <1>8, <1>9 DEF SubmitStep

LEMMA KillSerial ==
    ASSUME HVTypeOK, Serial, NEW p \in Handlers, Kill(p)
    PROVE  Serial' /\ seal' = seal
<1>1. /\ run \in [Handlers -> Run] /\ p \in InFlight /\ End(p) /\ UNCHANGED <<seal, indexed>>
      /\ ~torn' => ~torn /\ run[p].at # "append"
  BY StoreTyped DEF Kill, store, At
<1>2. run'[p].at = "ended" /\ \A q \in Handlers : q # p => run'[q] = run[q]
  BY <1>1, Ended
<1>3. CASE p \in Submitters
  BY <1>1, <1>2, <1>3, SubmitSerialFrom
<1>4. CASE p \in Lanes
  <2>1. ~torn' => Holders \subseteq {p}
    BY <1>1, <1>4 DEF Serial, OneCopy, Holders
  <2>2. ~torn' => (indexed <=> seal.status = "attested")
    <3> SUFFICES ASSUME ~torn' PROVE indexed <=> seal.status = "attested"
      OBVIOUS
    <3>1. \A q \in Lanes : ~At(q, "append")
      BY <1>1, <2>1, Kinds DEF Holders, InFlight, At
    <3> QED
      BY <1>1, <3>1 DEF Serial, OneCopy, Settled
  <2>3. LaneCopy(run'[p], seal', indexed')
    BY <1>2 DEF LaneCopy
  <2> QED
    BY <1>1, <1>2, <1>4, <2>1, <2>2, <2>3, LaneSerialFrom
<1> QED
  BY <1>1, <1>3, <1>4, Kinds

LEMMA SerialStep ==
    ASSUME HVTypeOK, HVTypeOK', Serial, [HVNext]_hvvars
    PROVE  Serial' /\ (~torn' => Keeps(seal, seal'))
<1>1. CASE UNCHANGED hvvars
  BY <1>1, KeepsSeal
     DEF hvvars, store, history, Serial, OneCopy, Settled, Holders, Merging, InFlight, At
<1> QED
  BY <1>1, Kinds, KeepsSeal, SubmitSerial, LaneSerial, KillSerial DEF HVNext

LEMMA SerialInit == HVInit => Serial
<1> SUFFICES ASSUME HVInit PROVE OneCopy
  BY DEF Serial
<1>1. \A p \in Handlers : run[p].at = "idle"
  BY IdleTyped DEF HVInit
<1>2. Merging = {} /\ Holders = {}
  BY <1>1, Kinds DEF Merging, Holders, InFlight
<1>3. \A p \in Lanes : LaneCopy(run[p], seal, indexed)
  BY <1>1, Kinds DEF LaneCopy
<1>4. Settled
  BY DEF HVInit, Settled
<1> QED
  BY <1>2, <1>3, <1>4 DEF OneCopy

-----------------------------------------------------------------------------
(* The invariant, and what follows from it.                                 *)

HVInv == HVTypeOK /\ Aside /\ Healed /\ Serial

LEMMA HVInvHolds == HVSpec => []HVInv
<1>1. HVInit => HVInv
  BY TypeInit, AsideInit, HealedInit, SerialInit DEF HVInv
<1>2. HVInv /\ [HVNext]_hvvars => HVInv'
  BY TypeStep, AsideStep, HealedStep, SerialStep DEF HVInv
<1> QED
  BY <1>1, <1>2, PTL DEF HVSpec

(* Every variable has its type in every reachable state, and every handler  *)
(* in flight is at a place of its kind.                                     *)
THEOREM VotesTypeCorrect == HVSpec => []HVTypeOK
<1>1. HVInv => HVTypeOK
  BY DEF HVInv
<1> QED
  BY <1>1, HVInvHolds, PTL

(* In every reachable state, the vote a dedupe key was consumed for is in a *)
(* sidecar: no interleaving of submissions, and no death between two steps, *)
(* burns a key without keeping the vote.                                    *)
THEOREM KeysHaveVotes == HVSpec => []ConsumedKeyHasVote
<1>1. HVInv => ConsumedKeyHasVote
  BY DEF HVInv, Aside, KeptAside, ConsumedKeyHasVote
<1> QED
  BY <1>1, HVInvHolds, PTL

(* In every reachable state, unless a last merge crossed another or a lane, *)
(* or a submission that had merged was refused or killed: every vote its    *)
(* sentinel was told of is on the seal, or the last merge of a submission   *)
(* that puts it back is still to come.                                      *)
THEOREM ConfirmedVotesStayShown == HVSpec => []ConfirmedVotesShow
<1>1. HVInv => ConfirmedVotesShow
  BY DEF HVInv, Healed, OnTheirWay, Healing, Shown, ConfirmedVotesShow
<1> QED
  BY <1>1, HVInvHolds, PTL

(* In every reachable state, unless two handlers held copies of the seal at *)
(* once or an append was left half done: the seal is attested if and only   *)
(* if the index of the chain names it, but while an append is under way.    *)
THEOREM IndexFollowsStatus == HVSpec => []AttestedIffIndexed
<1>1. HVInv => AttestedIffIndexed
  BY DEF HVInv, Serial, OneCopy, Settled, AttestedIffIndexed
<1> QED
  BY <1>1, HVInvHolds, PTL

(* No step takes back a vote, a promotion or a pointer, unless two handlers *)
(* held copies of the seal at once or an append was left half done.         *)
THEOREM WritersTakeNothingBack == HVSpec => NothingTakenBack
<1>1. HVInv /\ HVInv' /\ [HVNext]_hvvars =>
         [~torn' => /\ \A a \in Sentinels : seal.votes[a] # NoVote => seal'.votes[a] # NoVote
                    /\ seal.status = "attested" =>
                          seal'.status = "attested" /\ (seal.pointer => seal'.pointer)]_hvvars
  BY SerialStep DEF HVInv, Keeps
<1> QED
  BY <1>1, HVInvHolds, PTL DEF HVSpec, NothingTakenBack
=============================================================================
