----------------------------- MODULE MCDecVproc -----------------------------
(* Instances of MppDecVproc for TLC. *)
EXTENDS MppDecVproc
=============================================================================
