---------------------------- MODULE ValidatorIds -----------------------------
(* The identities (silver_core::ValidatorID) that the services around the  *)
(* validators share: staking, delegation, the validator set, slashing.     *)
EXTENDS FiniteSets

CONSTANT Validators

ASSUME ValidatorsAssumption == IsFiniteSet(Validators)
=============================================================================
