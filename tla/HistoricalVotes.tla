--------------------------- MODULE HistoricalVotes ---------------------------
(***************************************************************************)
(* The writers of one stored seal, split at their awaits: submissions of    *)
(* historical votes (submitHistoricalBlockAttestation), back-attestations   *)
(* by an operator, and runs of the reattestation cron.  All of them read    *)
(* the seal, and write all of it back later.                                *)
(*                                                                         *)
(* A submission puts its vote into a key of its own, a sidecar, then merges *)
(* every sidecar into the seal, consumes its dedupe key, and merges again.  *)
(*                                                                         *)
(* One seal stands for all: a handler takes them one after the other, and   *)
(* nothing it does to one depends on another but whether the seal is the    *)
(* head of the chain, which is a free choice here.  So are the backoff and  *)
(* the attempt counter of the cron, as in HistoricalReserve.  Left out: the *)
(* expiry of sidecars (a year) and dedupe keys (30 days), failed reads, and *)
(* the sweeps, which back-attest as the cron does, and whose retry queue    *)
(* HistoricalReserve has.                                                   *)
(***************************************************************************)
EXTENDS SealQuorum

CONSTANTS
    Submitters, Operators, CronRuns,   \* requests and runs, each of which starts once
    DedupeKeys,                        \* the dedupe keys one sentinel may sign
    CastVerdicts,                      \* the verdicts requests carry
    StoreOutcomes,                     \* whether a write to the store succeeds
    SubstrateOutcomes,                 \* whether the substrate takes a write
    LegacyVotes                        \* the votes the seal was finalized with

Handlers == Submitters \cup Operators \cup CronRuns
Lanes    == Operators \cup CronRuns

ASSUME WritersAssumption ==
    /\ Submitters \cap Lanes = {} /\ Operators \cap CronRuns = {}
    /\ CastVerdicts \subseteq Verdicts /\ LegacyVotes \subseteq Votes
    /\ StoreOutcomes \subseteq BOOLEAN /\ SubstrateOutcomes \subseteq BOOLEAN

VARIABLES
    seal,        \* the body of the seal
    indexed,     \* whether the attested index names it
    sidecar,     \* the votes in the sidecars
    claimed,     \* the consumed dedupe keys, with their sentinels
    run,         \* the handlers
    confirmed,   \* history: the sentinels told that their vote is recorded
    crossed,     \* history: a last merge met another one or another lane, or
                 \*   a submission that had merged ended without a last merge
    torn         \* history: two handlers held copies of the seal at once, or
                 \*   an append to the chain was left half done

store   == <<seal, indexed, sidecar, claimed>>
history == <<confirmed, crossed, torn>>
hvvars  == <<store, run, history>>

Statuses == {"attested", "quarantined", "rejected", "permanently-failed"}
Seals    == [votes : Votes, status : Statuses, pointer : BOOLEAN]

(* A handler has its request and, on the way, a copy of the seal that it     *)
(* goes on to write, what it still has to read, vote on or write (todo),    *)
(* and the sidecars it has read (seen).                                     *)
SubmitPlaces == {"vote", "mergeRead", "sidecars", "merge", "claim"}
LanePlaces   == {"back", "write", "append", "repair"}

Blank == [votes |-> NoVotes, status |-> "quarantined", pointer |-> FALSE]

Run == [at : SubmitPlaces \cup LanePlaces \cup {"idle", "ended"},
        agent : Sentinels, verdict : Verdicts, key : DedupeKeys \cup {"none"}, final : BOOLEAN,
        copy : Seals, todo : SUBSET (Sentinels \cup {"body", "index"}), seen : Votes]

Idle == [at |-> "idle", agent |-> Zeus, verdict |-> "pass", key |-> "none", final |-> FALSE,
         copy |-> Blank, todo |-> {}, seen |-> NoVotes]

Goto(p, r)    == run' = [run EXCEPT ![p] = r]
End(p)        == Goto(p, [Idle EXCEPT !.at = "ended"])
At(p, l)      == run[p].at = l
InFlight      == {p \in Handlers : run[p].at \notin {"idle", "ended"}}

Merging  == {p \in Submitters : run[p].at \in {"sidecars", "merge"}}
LastMerge == {p \in Submitters : run[p].at \in {"mergeRead", "sidecars", "merge"} /\ run[p].final}

(* Handler p takes a copy of the seal.                                      *)
Taken(p) == torn' = (torn \/ (Merging \cup (Lanes \cap InFlight)) \ {p} # {})

-----------------------------------------------------------------------------
(* submitHistoricalBlockAttestation.                                        *)

(* A sentinel that is on the seal already is turned away.  The signature    *)
(* covers fields of the seal that no handler changes.                       *)
Submit(p, agent, verdict, key) ==
    /\ At(p, "idle")
    /\ seal.votes[agent] = NoVote
    /\ Goto(p, [Idle EXCEPT !.at = "vote", !.agent = agent, !.verdict = verdict, !.key = key])
    /\ UNCHANGED <<store, history>>

(* Fault: the outcome of the write is not looked at.                        *)
WriteSidecar_Unchecked(p, ok) ==
    /\ At(p, "vote")
    /\ sidecar' = IF ok THEN [sidecar EXCEPT ![run[p].agent] = run[p].verdict] ELSE sidecar
    /\ Goto(p, [run[p] EXCEPT !.at = "mergeRead"])
    /\ UNCHANGED <<seal, indexed, claimed, history>>

WriteSidecar(p, ok) ==
    /\ At(p, "vote")
    /\ IF ok THEN /\ sidecar' = [sidecar EXCEPT ![run[p].agent] = run[p].verdict]
                  /\ Goto(p, [run[p] EXCEPT !.at = "mergeRead"])
       ELSE End(p) /\ UNCHANGED sidecar
    /\ UNCHANGED <<seal, indexed, claimed, history>>

(* mergeHistoricalAttestationIntoSeal reads the seal, then the sidecars,    *)
(* which it asks for together.                                              *)
ReadForMerge(p) ==
    /\ At(p, "mergeRead")
    /\ Taken(p)
    /\ Goto(p, [run[p] EXCEPT !.at = "sidecars", !.copy = seal, !.todo = Sentinels, !.seen = NoVotes])
    /\ UNCHANGED <<store, confirmed, crossed>>

ReadSidecar(p, a) ==
    /\ At(p, "sidecars") /\ a \in run[p].todo
    /\ LET left == run[p].todo \ {a}
       IN  Goto(p, [run[p] EXCEPT !.at = IF left = {} THEN "merge" ELSE "sidecars",
                                  !.todo = left, !.seen[a] = sidecar[a]])
    /\ UNCHANGED <<store, history>>

(* Fault: the sidecars replace the votes of the seal.                       *)
Merged_SidecarsOnly(s, v) == [s EXCEPT !.votes = v]

(* A sidecar wins over the vote the seal has of its sentinel.               *)
Merged(s, v) ==
    [s EXCEPT !.votes = [a \in Sentinels |-> IF v[a] = NoVote THEN s.votes[a] ELSE v[a]]]

(* writeSeal reports nothing: the submission goes on as if it had written.  *)
WriteMerge(p, ok) ==
    LET s == Merged(run[p].copy, run[p].seen)
    IN  /\ At(p, "merge")
        /\ seal' = IF ok THEN s ELSE seal
        /\ IF run[p].final
           THEN /\ confirmed' = confirmed \cup {run[p].agent}
                /\ crossed' = (crossed \/ ~ok)
                /\ End(p)
           ELSE /\ IF s.votes[run[p].agent] = NoVote
                   THEN End(p) /\ crossed' = TRUE
                   ELSE Goto(p, [run[p] EXCEPT !.at = "claim"]) /\ UNCHANGED crossed
                /\ UNCHANGED confirmed
        /\ UNCHANGED <<indexed, sidecar, claimed, torn>>

(* Fault: no second merge.                                                  *)
ClaimKey_MergedOnce(p, ok) ==
    /\ At(p, "claim")
    /\ LET key == <<run[p].agent, run[p].key>>
       IN  IF ok /\ key \notin claimed
           THEN claimed' = claimed \cup {key} /\ confirmed' = confirmed \cup {run[p].agent}
           ELSE UNCHANGED <<claimed, confirmed>>
    /\ End(p)
    /\ UNCHANGED <<seal, indexed, sidecar, crossed, torn>>

(* consumeDedupeKey sets the key if it is not set.  A submission that finds *)
(* it set, or no store to set it in, is refused; its vote stays merged.     *)
ClaimKey(p, ok) ==
    /\ At(p, "claim")
    /\ LET key == <<run[p].agent, run[p].key>>
       IN  IF ok /\ key \notin claimed
           THEN /\ claimed' = claimed \cup {key}
                /\ crossed' = (crossed \/ LastMerge # {} \/ Lanes \cap InFlight # {})
                /\ Goto(p, [run[p] EXCEPT !.at = "mergeRead", !.final = TRUE])
           ELSE crossed' = TRUE /\ End(p) /\ UNCHANGED claimed
    /\ UNCHANGED <<seal, indexed, sidecar, confirmed, torn>>

-----------------------------------------------------------------------------
(* backAttestSeal, by an operator or by the cron: handler p, with the other *)
(* sentinels left its loop has for the seal, records a vote on it.          *)

BackAttest(p, a, verdict, left, ok) ==
    LET s == [seal EXCEPT !.votes[a] = verdict]
        r == [Idle EXCEPT !.todo = left]
    IN  IF EvaluateBackQuorum(s.votes) = "attested"
        THEN Goto(p, [r EXCEPT !.at = "append", !.todo = {"body", "index"},
                               !.copy = [s EXCEPT !.status = "attested", !.pointer = ok]])
        ELSE Goto(p, [r EXCEPT !.at = "write", !.copy = s])

(* A lane starts on the seal.                                               *)
Enter(p) ==
    /\ At(p, "idle")
    /\ Taken(p)
    /\ crossed' = (crossed \/ LastMerge # {})
    /\ UNCHANGED <<store, confirmed>>

OperatorVote(p, a, verdict, ok) ==
    /\ Enter(p)
    /\ seal.status # "attested"
    /\ BackAttest(p, a, verdict, {}, ok)

(* The cron takes the next sentinel in the order of the council.            *)
CronVote(p, i, ok) ==
    /\ At(p, "back") /\ Council[i] \in run[p].todo /\ \A j \in 1..(i - 1) : Council[j] \notin run[p].todo
    /\ LET left == run[p].todo \ {Council[i]}
       IN  IF seal.status # "attested" THEN BackAttest(p, Council[i], "pass", left, ok)
           ELSE IF left = {} THEN End(p)
           ELSE Goto(p, [run[p] EXCEPT !.todo = left])
    /\ UNCHANGED <<store, history>>

(* writeSeal: a vote that decides nothing, or a seal given up on.           *)
WriteBody(p, ok) ==
    /\ At(p, "write")
    /\ seal' = IF ok THEN run[p].copy ELSE seal
    /\ IF run[p].todo = {} THEN End(p)
       ELSE Goto(p, [run[p] EXCEPT !.at = "back", !.copy = Blank])
    /\ UNCHANGED <<indexed, sidecar, claimed, history>>

(* appendSealToChain: the body and the index are written together.          *)
WriteKey(p, k, ok) ==
    /\ At(p, "append") /\ k \in run[p].todo
    /\ seal' = IF ok /\ k = "body" THEN run[p].copy ELSE seal
    /\ indexed' = (indexed \/ (ok /\ k = "index"))
    /\ LET left == run[p].todo \ {k}
       IN  IF left = {} THEN End(p) ELSE Goto(p, [run[p] EXCEPT !.todo = left])
    /\ torn' = (torn \/ ~ok)
    /\ UNCHANGED <<sidecar, claimed, confirmed, crossed>>

-----------------------------------------------------------------------------
(* GET /api/cron/reattest-seals.                                            *)

Stuck == seal.status = "quarantined" /\ Missing(seal.votes) = {}
Stale == seal.status = "attested" /\ Missing(seal.votes) = {} /\ ~seal.pointer

(* A run lists the seal: it may vote for the missing sentinels, give the    *)
(* seal up, or ask for its pointer.                                         *)
ListSeal(p) ==
    /\ Enter(p)
    /\ \/ /\ seal.status = "quarantined" /\ Missing(seal.votes) # {}
          /\ \/ Goto(p, [Idle EXCEPT !.at = "back", !.todo = Missing(seal.votes)])
             \/ Goto(p, [Idle EXCEPT !.at = "write", !.copy = [seal EXCEPT !.status = "permanently-failed"]])
       \/ (Stuck \/ Stale) /\ Goto(p, [Idle EXCEPT !.at = "repair", !.copy = seal])

(* Fault: a stuck seal is attested in its body only.                        *)
Repair_NotIndexed(p, head, substrate, ok) ==
    LET c == run[p].copy
        s == [c EXCEPT !.status = IF substrate THEN "attested" ELSE @, !.pointer = substrate \/ @]
    IN  /\ At(p, "repair")
        /\ seal' = IF ok THEN s ELSE seal
        /\ End(p)
        /\ UNCHANGED <<indexed, sidecar, claimed, history>>

(* retrySubstratePointer on the seal as it was listed.  A stuck seal joins  *)
(* the chain, and so does a stale one that is the head.                     *)
Repair(p, head, substrate, ok) ==
    LET c == run[p].copy
        s == [c EXCEPT !.status = IF substrate THEN "attested" ELSE @, !.pointer = substrate \/ @]
    IN  /\ At(p, "repair")
        /\ seal' = IF ok THEN s ELSE seal
        /\ IF substrate /\ (head \/ c.status = "quarantined")
           THEN Goto(p, [run[p] EXCEPT !.at = "append", !.copy = s, !.todo = {"body", "index"}])
           ELSE End(p)
        /\ UNCHANGED <<indexed, sidecar, claimed, history>>

-----------------------------------------------------------------------------
(* A handler is killed at its time limit.                                   *)
Kill(p) ==
    /\ p \in InFlight /\ End(p)
    /\ crossed' = (crossed \/ At(p, "claim") \/ p \in LastMerge)
    /\ torn' = (torn \/ At(p, "append"))
    /\ UNCHANGED <<store, confirmed>>

SubmitStep(p) ==
    \/ \E a \in Sentinels, v \in CastVerdicts, k \in DedupeKeys : Submit(p, a, v, k)
    \/ \E ok \in StoreOutcomes : WriteSidecar(p, ok) \/ WriteMerge(p, ok) \/ ClaimKey(p, ok)
    \/ ReadForMerge(p)
    \/ \E a \in Sentinels : ReadSidecar(p, a)

LaneStep(p) ==
    \E ok \in StoreOutcomes : WriteBody(p, ok) \/ \E k \in {"body", "index"} : WriteKey(p, k, ok)

OperatorStep(p) ==
    \E a \in Sentinels, v \in CastVerdicts, ok \in SubstrateOutcomes : OperatorVote(p, a, v, ok)

CronStep(p) ==
    \/ ListSeal(p)
    \/ \E i \in DOMAIN Council, ok \in SubstrateOutcomes : CronVote(p, i, ok)
    \/ \E head \in BOOLEAN, substrate \in SubstrateOutcomes, ok \in StoreOutcomes :
          Repair(p, head, substrate, ok)

HVNext ==
    \/ \E p \in Submitters : SubmitStep(p)
    \/ \E p \in Operators : OperatorStep(p)
    \/ \E p \in CronRuns : CronStep(p)
    \/ \E p \in Lanes : LaneStep(p)
    \/ \E p \in Handlers : Kill(p)

(* The seal as it was finalized, or as an earlier deployment left it.       *)
HVInit ==
    /\ seal \in Seals /\ seal.votes \in LegacyVotes
    /\ seal.status = IF seal.votes[Zeus] = "reject" THEN "rejected"
                     ELSE IF QuorumMet(seal.votes) THEN "attested" ELSE "quarantined"
    /\ seal.pointer => seal.status = "attested"
    /\ indexed = (seal.status = "attested")
    /\ sidecar = NoVotes /\ claimed = {}
    /\ run = [p \in Handlers |-> Idle]
    /\ confirmed = {} /\ crossed = FALSE /\ torn = FALSE

HVSpec == HVInit /\ [][HVNext]_hvvars

-----------------------------------------------------------------------------
(* Properties.                                                              *)

(* Type invariant; a handler in flight is at a place of its kind.           *)
HVTypeOK ==
    /\ seal \in Seals /\ indexed \in BOOLEAN
    /\ sidecar \in Votes /\ claimed \subseteq Sentinels \X DedupeKeys
    /\ confirmed \subseteq Sentinels /\ crossed \in BOOLEAN /\ torn \in BOOLEAN
    /\ run \in [Handlers -> Run]
    /\ \A p \in InFlight :
          IF p \in Submitters THEN run[p].at \in SubmitPlaces /\ run[p].key \in DedupeKeys
          ELSE run[p].at \in LanePlaces

(* A dedupe key is consumed only when the vote is kept aside: a submission  *)
(* that dies later, or whose merge is overwritten, is not lost with it,     *)
(* since every later merge puts the vote on the seal, and the key would     *)
(* refuse a second submission.                                              *)
ConsumedKeyHasVote == \A e \in claimed : sidecar[e[1]] # NoVote

(* What the second merge is for: a vote its sentinel was told of is on the  *)
(* seal, though first merges of submissions may overwrite one another and   *)
(* others' last merges, unless a submission that merged still has its last  *)
(* merge to come.                                                           *)
ConfirmedVotesShow ==
    ~crossed => \/ \A a \in confirmed : seal.votes[a] # NoVote
                \/ \E p \in Submitters : At(p, "claim") \/ p \in LastMerge

(* A seal is attested if and only if the index of the chain names it.       *)
AttestedIffIndexed ==
    ~torn /\ (\A p \in Lanes : ~At(p, "append")) => (indexed <=> seal.status = "attested")

(* Writers that do not hold copies together take nothing back: no vote      *)
(* vanishes, no attested seal is demoted, and no pointer is dropped.        *)
NothingTakenBack ==
    [][~torn' => /\ \A a \in Sentinels : seal.votes[a] # NoVote => seal'.votes[a] # NoVote
                 /\ seal.status = "attested" =>
                       seal'.status = "attested" /\ (seal.pointer => seal'.pointer)]_hvvars
=============================================================================
