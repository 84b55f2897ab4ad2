---------------------------- MODULE MCTrustStore ----------------------------
(* A small instance of TrustStore: two devices, so that a change of one may   *)
(* disturb the other.  Neither is named by the specification.                 *)
EXTENDS TrustStore, TLC

CONSTANTS alice, bob

Symmetric == Permutations({alice, bob})
=============================================================================
