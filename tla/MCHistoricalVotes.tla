-------------------------- MODULE MCHistoricalVotes --------------------------
(* Two sentinels who must both pass, a seal on which one or none has voted, *)
(* and two submissions, which nothing but their names tells apart.          *)
EXTENDS HistoricalVotes
CONSTANTS zeus, eve, first, second
MCCouncil    == <<eve, zeus>>
MCVotes      == {[a \in Sentinels |-> IF a = eve THEN NoVote ELSE w] : w \in {"pass", "flag", NoVote}}
MCSubmitters == Permutations(Submitters)
=============================================================================
