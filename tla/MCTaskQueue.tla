---------------------------- MODULE MCTaskQueue -----------------------------
(* Instances of MppTaskQueue for TLC.                                      *)
EXTENDS MppTaskQueue
=============================================================================
