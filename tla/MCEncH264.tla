------------------------------ MODULE MCEncH264 -------------------------------
(* Instances of MppEncH264 for TLC: the configurations of                  *)
(* utils/mpi_enc_utils.c and of the examples in inc/rk_venc_ref.h.         *)
EXTENDS MppEncH264

St(nonref, tid, mode) ==
    [nonref |-> nonref, tid |-> tid, mode |-> mode, arg |-> 0, repeat |-> 0]
Lt(idx, mode, gap, delay) ==
    [idx |-> idx, mode |-> mode, arg |-> 0, gap |-> gap, delay |-> delay]

Default0 == << St(FALSE, 0, "prev_ref") >>
Tsvc3 == << St(FALSE, 0, "tid"), St(TRUE, 2, "prev_ref"), St(FALSE, 1, "prev_ref"),
            St(TRUE, 2, "prev_ref"), St(FALSE, 0, "tid") >>
Tsvc4 == << St(FALSE, 0, "tid"), St(TRUE, 3, "prev_ref"), St(FALSE, 2, "prev_ref"),
            St(TRUE, 3, "prev_ref"), St(FALSE, 1, "prev_lt"), St(TRUE, 3, "prev_ref"),
            St(FALSE, 2, "prev_ref"), St(TRUE, 3, "prev_ref"), St(FALSE, 0, "tid") >>
SmartSt == << St(FALSE, 0, "prev_intra"),
              [St(FALSE, 0, "prev_ref") EXCEPT !.repeat = 1],
              St(FALSE, 0, "prev_intra") >>

MCConfigs ==
    {Ready(Default0, << >>, k) : k \in BOOLEAN}
      \cup {Ready(Tsvc3, << >>, k) : k \in BOOLEAN}
      \cup {Ready(Tsvc4, << Lt(0, "prev_lt", 8, 0) >>, FALSE),
            Ready(SmartSt, << Lt(0, "prev_lt", 7, 0) >>, FALSE)}
MCIgops == {0, 7}
=============================================================================
