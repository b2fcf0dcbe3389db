---------------------------- MODULE MCVaultTiers ----------------------------
(* Two deposits: one is lost, or told twice, only beside another.         *)
EXTENDS VaultTiers
=============================================================================
