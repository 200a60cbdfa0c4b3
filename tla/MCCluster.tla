----------------------------- MODULE MCCluster ------------------------------
(* Instances of MppCluster for TLC.                                        *)
EXTENDS MppCluster
=============================================================================
