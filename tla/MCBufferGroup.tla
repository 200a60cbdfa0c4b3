--------------------------- MODULE MCBufferGroup ---------------------------
(* Instances of MppBufferGroup for TLC.                                    *)
EXTENDS MppBufferGroup
=============================================================================
