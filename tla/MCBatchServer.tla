--------------------------- MODULE MCBatchServer ----------------------------
(* Instances of MppBatchServer for TLC.                                    *)
EXTENDS MppBatchServer

CONSTANT Spare    \* the sessions that have a second task

MCTasks == (Sessions \X {1}) \cup (Spare \X {2})
MCOwner == [t \in MCTasks |-> t[1]]
=============================================================================
