------------------------------ MODULE MCCluster ------------------------------
(* Three workers, up to two machines and three threads: workers may be too few, *)
(* as many as the tasks, or too many.                                          *)
EXTENDS Cluster
=============================================================================
