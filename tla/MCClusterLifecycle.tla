------------------------- MODULE MCClusterLifecycle -------------------------
(* Instances of ClusterLifecycle for TLC; see the MCClusterLifecycle_*.cfg *)
(* files.                                                                  *)
EXTENDS ClusterLifecycle
=============================================================================
