------------------------- MODULE MCHistoricalReserve -------------------------
(* Instances of HistoricalReserve for model checking: ZEUS and one other     *)
(* sentinel, one pass needed, so that a quorum can be met with a vote        *)
(* missing and failed by either sentinel.                                    *)
EXTENDS HistoricalReserve

CONSTANTS zeus, eve

MCCouncil == <<zeus, eve>>
=============================================================================
