----------------------------- MODULE MppH264eDpb -----------------------------
(***************************************************************************)
(* The H.264 encoder's picture buffer, h264e_dpb.c, as operators: it maps  *)
(* the references of MppEncRefs to slots of the hardware's buffers and     *)
(* makes the stream's syntax for them: frame_num, the reordering of the    *)
(* reference list, and the marking commands.                               *)
(*                                                                         *)
(* A dpb is [frames, rt, bakFrames, bakRt, used, maxIdx, size, cfgIdx]:    *)
(* the slots, the runtime status, the backup of both, the counted          *)
(* references, the long-term limit told to the decoder, and the sizes of   *)
(* the configuration.                                                      *)
(***************************************************************************)
EXTENDS MppEncRefs

CONSTANT MaxFrmNum     \* max_frm_num

NoSlot == [status |-> None, on |-> FALSE, num |-> 0, poc |-> 0]

\* h264e_dpb_setup, when the stream's headers are made.
DpbSetup(info) ==
    LET slots == [i \in 1 .. info.dpb + 1 |-> NoSlot]
        rt == [seq |-> 0, ref |-> 0, num |-> 0, poc |-> 0]
    IN  [frames |-> slots, rt |-> rt, bakFrames |-> slots, bakRt |-> rt,
         used |-> 0, maxIdx |-> 0, size |-> info.dpb, cfgIdx |-> info.maxIdx]

\* find_cpb_frame, 0 when there is none.
Find(frames, frm) ==
    LET at == {i \in DOMAIN frames : frm # None /\ frames[i].status # None
                                     /\ frames[i].status.seq = frm.seq}
    IN  IF at = {} THEN 0 ELSE Min(at)

MapOf(frames, refs) == {Find(frames, refs[i]) : i \in DOMAIN refs} \ {0}

\* An IDR frame empties the slots; a frame with the number of the last one is
\* encoded again, so what the last one did is undone.
ResumedSlip(dpb, curr) == dpb
Resumed(dpb, curr) ==
    IF curr.idr
    THEN [dpb EXCEPT !.frames = [i \in DOMAIN @ |-> [@[i] EXCEPT !.status = None, !.on = FALSE]],
                     !.used = 0, !.maxIdx = 0]
    ELSE IF curr.seq = dpb.rt.seq
         THEN [dpb EXCEPT !.rt = dpb.bakRt, !.frames = dpb.bakFrames]
         ELSE dpb

NextFrmNum(rt) == IF rt.num + rt.ref >= MaxFrmNum THEN 0 ELSE rt.num + rt.ref

\* The current frame takes the first slot that no reference is mapped to, and
\* the others of that kind are invalid from now on.
Placed(frames, map, slot, entry) ==
    [i \in DOMAIN frames |->
        IF i \in map THEN [frames[i] EXCEPT !.on = TRUE]
        ELSE IF i = slot THEN entry
        ELSE [frames[i] EXCEPT !.status = None, !.on = FALSE]]

\* h264e_dpb_build_list: the default list, short-term frames with the largest
\* frame_num first, then long-term ones by index; its first entry, and the
\* command that puts the wanted reference there.
Default(frames, init) ==
    LET map == MapOf(frames, init)
        sts == {i \in map : ~frames[i].status.lt}
    IN  IF map = {} THEN 0
        ELSE IF sts # {}
             THEN CHOOSE i \in sts : \A j \in sts : frames[j].num <= frames[i].num
             ELSE CHOOSE i \in map : \A j \in map :
                    frames[i].status.idx <= frames[j].status.idx

ReorderSlip(frames, init, curr, refr) == [op |-> "none", arg |-> 0]
Reorder(frames, init, curr, refr) ==
    LET def == Default(frames, init)
        diff == frames[curr].num - frames[refr].num
    IN  IF def = 0 \/ frames[def].status.seq = frames[refr].status.seq
        THEN [op |-> "none", arg |-> 0]
        ELSE IF frames[refr].status.lt
             THEN [op |-> "long", arg |-> frames[refr].status.idx]
             ELSE [op |-> "short", arg |-> IF diff < 0 THEN -diff ELSE diff]

\* h264e_dpb_build_marking: command 4 when the long-term limit has changed, and
\* command 6 with the frame's index; -1 for none.
Marking(dpb, curr) ==
    LET long == curr.lt /\ ~curr.idr /\ ~curr.nonref
    IN  [op4 |-> IF long /\ dpb.maxIdx # dpb.cfgIdx THEN dpb.cfgIdx ELSE -1,
         op6 |-> IF long THEN curr.idx ELSE -1]

\* h264e_dpb_proc: the dpb, the slots of the frame and of its reference (its own
\* if that is not found), and what the slice header says of them.
Proc(dpb0, cs) ==
    LET dpb == Resumed(dpb0, cs.curr)
        map == MapOf(dpb.frames, cs.init)
        mapped == [i \in DOMAIN dpb.frames |->
                     [dpb.frames[i] EXCEPT !.on = @ \/ i \in map]]
        slot == Min(DOMAIN dpb.frames \ map)
        rt == [seq |-> cs.curr.seq, ref |-> IF cs.curr.nonref THEN 0 ELSE 1,
               num |-> IF cs.curr.idr THEN 0 ELSE NextFrmNum(dpb.rt),
               poc |-> IF cs.curr.idr THEN 0 ELSE dpb.rt.poc + 2]
        frames == Placed(mapped, map, slot,
                         [status |-> cs.curr, on |-> TRUE, num |-> rt.num, poc |-> rt.poc])
        found == Find(frames, cs.refr)
        refr == IF found = 0 THEN slot ELSE found
        mark == Marking(dpb, cs.curr)
    IN  [dpb |-> [dpb EXCEPT !.frames = frames, !.rt = rt, !.bakFrames = mapped,
                             !.bakRt = dpb.rt,
                             !.maxIdx = IF mark.op4 # -1 THEN dpb.cfgIdx ELSE @],
         curr |-> slot, refr |-> refr,
         slice |-> [idr |-> cs.curr.idr, ref |-> ~cs.curr.nonref, num |-> rt.num,
                    long |-> cs.curr.idr /\ cs.curr.lt, mark |-> mark,
                    reorder |-> IF cs.curr.idr THEN [op |-> "none", arg |-> 0]
                                ELSE Reorder(frames, cs.init, slot, refr)]]

\* h264e_dpb_check: the frame is stored if it is a reference, in the place of the
\* long-term frame with its index, and what is too much slides out, the
\* short-term frame with the smallest poc first.
OutOfWindow(frames, n) ==
    LET sts == {i \in DOMAIN frames : frames[i].on /\ frames[i].status # None
                                      /\ ~frames[i].status.lt}
    IN  {i \in sts : Cardinality({j \in sts : frames[j].poc < frames[i].poc}) < n}

Check(dpb, slot) ==
    LET me == dpb.frames[slot].status
        same == {i \in DOMAIN dpb.frames \ {slot} :
                   /\ me.lt /\ dpb.frames[i].on /\ dpb.frames[i].status # None
                   /\ dpb.frames[i].status.lt /\ dpb.frames[i].status.idx = me.idx}
        freed == IF me.nonref THEN {slot} ELSE same
        kept == [i \in DOMAIN dpb.frames |->
                   IF i \in freed THEN [dpb.frames[i] EXCEPT !.status = None, !.on = FALSE]
                                  ELSE dpb.frames[i]]
        used == dpb.used + 1 - Cardinality(same)
        out == IF me.nonref THEN {} ELSE OutOfWindow(kept, used - dpb.size)
    IN  [dpb EXCEPT
            !.frames = [i \in DOMAIN kept |-> [kept[i] EXCEPT !.on = @ /\ i \notin out]],
            !.used = IF me.nonref THEN @ ELSE used - Cardinality(out)]
=============================================================================
