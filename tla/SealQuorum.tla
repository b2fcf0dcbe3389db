----------------------------- MODULE SealQuorum -----------------------------
(***************************************************************************)
(* The vote arithmetic of Vault v2: the quorum rule applied to a candidate  *)
(* (evaluateQuorum), the rule applied to a seal already in the store        *)
(* (evaluateBackQuorum), and the two ways code fills in votes nobody cast   *)
(* (the attestation cron and the back-attestation sweeps).                  *)
(*                                                                         *)
(* A vote vector is a total function: a sentinel without an attestation has *)
(* the vote NoVote.  Rationales, signatures, timestamps and postures are    *)
(* left out: no decision reads them.                                        *)
(***************************************************************************)
EXTENDS Integers, FiniteSets, Sequences, SequencesExt

CONSTANTS
    Council,     \* the sentinels in the order of SENTINEL_AGENTS
    Zeus,        \* the sentinel with the veto
    MinPasses    \* VAULT_QUORUM_MIN_PASSES

Sentinels == Range(Council)

ASSUME CouncilAssumption ==
    /\ Council \in Seq(Sentinels)
    /\ Zeus \in Sentinels
    /\ MinPasses \in Nat \ {0}

Verdicts == {"pass", "flag", "reject"}
NoVote   == "none"
Votes    == [Sentinels -> Verdicts \cup {NoVote}]
NoVotes  == [a \in Sentinels |-> NoVote]

Missing(v) == {a \in Sentinels : v[a] = NoVote}
Passes(v)  == {a \in Sentinels : v[a] = "pass"}
Objects(v) == \E a \in Sentinels \ {Zeus} : v[a] = "reject"

(* What both rules call a met quorum: ZEUS passes, no other sentinel        *)
(* rejects, and enough sentinels pass.                                      *)
QuorumMet(v) ==
    /\ v[Zeus] = "pass"
    /\ ~Objects(v)
    /\ Cardinality(Passes(v)) >= MinPasses

Decisions == {"attested", "quarantined", "rejected", "waiting"}

(* evaluateQuorum: a ZEUS reject decides at once, even with votes missing;  *)
(* otherwise all votes are awaited.                                         *)
EvaluateQuorum(v) ==
    IF v[Zeus] = "reject" THEN "rejected"
    ELSE IF Missing(v) # {} THEN "waiting"
    ELSE IF QuorumMet(v) THEN "attested"
    ELSE "quarantined"

(* evaluateBackQuorum: a met quorum decides without waiting for the rest.   *)
EvaluateBackQuorum(v) ==
    IF QuorumMet(v) THEN "attested"
    ELSE IF Missing(v) # {} THEN "waiting"
    ELSE "quarantined"

(* Every missing vote becomes w; the votes already cast stay.               *)
FillVotes(v, w) == [a \in Sentinels |-> IF v[a] = NoVote THEN w ELSE v[a]]

-----------------------------------------------------------------------------
(* One back-attestation sweep over a seal: each sentinel without a vote, in *)
(* council order, is recorded as passing until the quorum is met.           *)

PassUpTo(v, k) ==
    [a \in Sentinels |->
        IF v[a] = NoVote /\ \E i \in 1..k : Council[i] = a THEN "pass" ELSE v[a]]

(* The number of places of the council order the sweep gets through: it     *)
(* stops at the vote that meets the quorum.  A quorum already met before    *)
(* the sweep is only noticed when a vote is recorded.                       *)
SweepLength(v) ==
    LET stops == {k \in 1..Len(Council) :
                    v[Council[k]] = NoVote /\ QuorumMet(PassUpTo(v, k))}
    IN  IF stops = {} THEN Len(Council) ELSE Min(stops)

SweptVotes(v) == PassUpTo(v, SweepLength(v))
=============================================================================
