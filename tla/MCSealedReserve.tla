--------------------------- MODULE MCSealedReserve ---------------------------
(* Instances of SealedReserve for model checking: three sentinels, of which  *)
(* two must pass, and reserve for at most three parcels.                     *)
EXTENDS SealedReserve

CONSTANTS zeus, eve, atlas

MCCouncil == <<atlas, zeus, eve>>
MCOutcomes == {TRUE}
=============================================================================
