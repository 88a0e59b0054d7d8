------------------------------ MODULE MCRollout ------------------------------
(* One package and one device, deployments that name it alone or together  *)
(* with one that is not there, and a call of deploy_patches.               *)
EXTENDS Rollout, TLC

CONSTANTS d1, x1

MCTargets == {<<d1>>, <<d1, x1>>}
MCSymmetry == Permutations(Request) \cup Permutations(Worker)
=============================================================================
