------------------------------ MODULE Services -------------------------------
(***************************************************************************)
(* The services around the engine, side by side.  In the code they         *)
(* share no state and none calls another, so a step of one can neither     *)
(* enable nor disturb a step of another, and interleaving them shows       *)
(* nothing: a behaviour exercises one service, chosen at its beginning.    *)
(***************************************************************************)
EXTENDS CycleEnd, ValidatorOps, Delegation, Slashing, Downtime, ValidatorActivation, KeyRotation, KeyStore,
        Commission, CommissionManager, Upgrade, VersionActivation, Compatibility, FlowGraphCache

VARIABLE service    \* the service that this behaviour exercises

vars == <<service, opsVars, delegationVars, slashingVars, downtimeVars, activationVars,
          rotationVars, keyStoreVars, commissionVars, managedVars, upgradeVars, coordinatorVars, checkerVars, cacheVars>>

Init ==
  /\ service \in {"cycle end", "validator operations", "delegation", "slashing", "downtime",
                  "activation", "key rotation", "key store", "commission", "commission manager",
                  "upgrade", "version activation", "compatibility", "flow graph cache"}
  /\ OpsInit /\ DelegationInit /\ SlashingInit /\ DowntimeInit /\ ActivationInit
  /\ KeyRotationInit /\ KeyStoreInit /\ CommissionInit /\ ManagerInit /\ UpgradeInit
  /\ CoordinatorInit /\ CheckerInit /\ CacheInit

CycleEndStep ==
  /\ service = "cycle end" /\ CycleNext
  /\ UNCHANGED <<service, rewardVars, delegationVars, slashingVars, downtimeVars, activationVars,
                 rotationVars, keyStoreVars, commissionVars, managedVars, upgradeVars,
                 coordinatorVars, checkerVars, cacheVars>>

ValidatorOpsStep ==
  /\ service = "validator operations" /\ OpsNext
  /\ UNCHANGED <<service, delegationVars, slashingVars, downtimeVars, activationVars,
                 rotationVars, keyStoreVars, commissionVars, managedVars, upgradeVars,
                 coordinatorVars, checkerVars, cacheVars>>

DelegationStep ==
  /\ service = "delegation" /\ DelegationNext
  /\ UNCHANGED <<service, opsVars, slashingVars, downtimeVars, activationVars,
                 rotationVars, keyStoreVars, commissionVars, managedVars, upgradeVars,
                 coordinatorVars, checkerVars, cacheVars>>

SlashingStep ==
  /\ service = "slashing" /\ SlashingNext
  /\ UNCHANGED <<service, opsVars, delegationVars, downtimeVars, activationVars,
                 rotationVars, keyStoreVars, commissionVars, managedVars, upgradeVars,
                 coordinatorVars, checkerVars, cacheVars>>

DowntimeStep ==
  /\ service = "downtime" /\ DowntimeNext
  /\ UNCHANGED <<service, opsVars, delegationVars, slashingVars, activationVars,
                 rotationVars, keyStoreVars, commissionVars, managedVars, upgradeVars,
                 coordinatorVars, checkerVars, cacheVars>>

ActivationStep ==
  /\ service = "activation" /\ ActivationNext
  /\ UNCHANGED <<service, opsVars, delegationVars, slashingVars, downtimeVars,
                 rotationVars, keyStoreVars, commissionVars, managedVars, upgradeVars,
                 coordinatorVars, checkerVars, cacheVars>>

KeyRotationStep ==
  /\ service = "key rotation" /\ KeyRotationNext
  /\ UNCHANGED <<service, opsVars, delegationVars, slashingVars, downtimeVars,
                 activationVars, keyStoreVars, commissionVars, managedVars, upgradeVars,
                 coordinatorVars, checkerVars, cacheVars>>

KeyStoreStep ==
  /\ service = "key store" /\ KeyStoreNext
  /\ UNCHANGED <<service, opsVars, delegationVars, slashingVars, downtimeVars,
                 activationVars, rotationVars, commissionVars, managedVars, upgradeVars,
                 coordinatorVars, checkerVars, cacheVars>>

CommissionStep ==
  /\ service = "commission" /\ CommissionNext
  /\ UNCHANGED <<service, opsVars, delegationVars, slashingVars, downtimeVars,
                 activationVars, rotationVars, keyStoreVars, managedVars, upgradeVars,
                 coordinatorVars, checkerVars, cacheVars>>

CommissionManagerStep ==
  /\ service = "commission manager" /\ ManagerNext
  /\ UNCHANGED <<service, opsVars, delegationVars, slashingVars, downtimeVars,
                 activationVars, rotationVars, keyStoreVars, commissionVars, upgradeVars,
                 coordinatorVars, checkerVars, cacheVars>>

UpgradeStep ==
  /\ service = "upgrade" /\ UpgradeNext
  /\ UNCHANGED <<service, opsVars, delegationVars, slashingVars, downtimeVars,
                 activationVars, rotationVars, keyStoreVars, commissionVars, managedVars,
                 coordinatorVars, checkerVars, cacheVars>>

VersionActivationStep ==
  /\ service = "version activation" /\ CoordinatorNext
  /\ UNCHANGED <<service, opsVars, delegationVars, slashingVars, downtimeVars, activationVars,
                 rotationVars, keyStoreVars, commissionVars, managedVars, upgradeVars, checkerVars, cacheVars>>

CompatibilityStep ==
  /\ service = "compatibility" /\ CheckerNext
  /\ UNCHANGED <<service, opsVars, delegationVars, slashingVars, downtimeVars, activationVars,
                 rotationVars, keyStoreVars, commissionVars, managedVars, upgradeVars,
                 coordinatorVars, cacheVars>>

FlowGraphCacheStep ==
  /\ service = "flow graph cache" /\ CacheNext
  /\ UNCHANGED <<service, opsVars, delegationVars, slashingVars, downtimeVars, activationVars,
                 rotationVars, keyStoreVars, commissionVars, managedVars, upgradeVars,
                 coordinatorVars, checkerVars>>

Next ==
  \/ CycleEndStep \/ ValidatorOpsStep \/ DelegationStep \/ SlashingStep \/ DowntimeStep \/ ActivationStep
  \/ KeyRotationStep \/ KeyStoreStep \/ CommissionStep \/ CommissionManagerStep \/ UpgradeStep
  \/ VersionActivationStep \/ CompatibilityStep \/ FlowGraphCacheStep

Spec == Init /\ [][Next]_vars

-----------------------------------------------------------------------------
(* Safety: ValidatorOperations registers, pays and unstakes through one     *)
(* object, and only there StakeBehindMembers of ValidatorOps.tla may hold.  *)
OpsStakeBehindMembers == service = "validator operations" => StakeBehindMembers
=============================================================================
