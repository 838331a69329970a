---------------------------- MODULE MCProvisioning ----------------------------
(* A token that nothing was ever stored in. *)
EXTENDS Provisioning, TLC

CONSTANTS sensor_01, operator_01

TwoIdentities == {sensor_01, operator_01}
Symmetry      == Permutations(Identities)
===============================================================================
