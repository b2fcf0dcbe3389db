---------------------------- MODULE MCVaultSteps ----------------------------
(* Two sentinels who must both pass: a vote that is lost changes what the  *)
(* quorum decides.                                                         *)
EXTENDS VaultSteps
CONSTANTS zeus, eve
MCCouncil == <<eve, zeus>>
=============================================================================
