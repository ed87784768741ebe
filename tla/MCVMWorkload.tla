----------------------------- MODULE MCVMWorkload ------------------------------
(***************************************************************************)
(* Instances of VMWorkload for TLC.                                        *)
(***************************************************************************)
EXTENDS VMWorkload

CONSTANTS i1, i2, p1, p2, p3, s1, s2, s3

TwoIterations == {i1, i2}
TwoServers == {s1, s2}
ThreeServers == {s1, s2, s3}
ThreePlain == {p1, p2, p3}

NoSwap == {"create_delete_servers", "migrate_servers", "stop_start_servers"}
SwapOnly == {"swap_floating_ips_between_servers"}
SwapAndStop == {"swap_floating_ips_between_servers", "stop_start_servers"}
AllVM == NoSwap \cup SwapOnly

================================================================================
