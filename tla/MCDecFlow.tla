----------------------------- MODULE MCDecFlow ------------------------------
(* Instances of MppDecFlow for TLC: the buffer group hands out any buffer    *)
(* that is free, so the buffers are interchangeable.                         *)
EXTENDS MppDecFlow, TLC

BufferSymmetry == Permutations(Buffers)
=============================================================================
