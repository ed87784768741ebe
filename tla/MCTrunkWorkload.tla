---------------------------- MODULE MCTrunkWorkload ----------------------------
(***************************************************************************)
(* Instances of TrunkWorkload for TLC.                                     *)
(***************************************************************************)
EXTENDS TrunkWorkload, TLC

CONSTANTS i1, i2, t1, t2

TwoIterations == {i1, i2}
TwoTrunks == {t1, t2}
AllTrunkWorkloads ==
  {"pod_fip_simulation", "add_subports_to_random_trunks", "delete_subports_from_random_trunks",
   "swap_floating_ips_between_random_subports"}
Symmetry == Permutations(TwoIterations) \cup Permutations(TwoTrunks)
PodsAndAdd == {"pod_fip_simulation", "add_subports_to_random_trunks"}
================================================================================
