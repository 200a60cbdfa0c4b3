----------------------------- MODULE MppH264dRefs -----------------------------
(***************************************************************************)
(* The reference marking of the H.264 decoder, h264d_dpb.c and             *)
(* h264d_init.c, for frames of one layer, as operators.  A decoder is      *)
(* [fs, room]: its reference frames in decoding order, and num_ref_frames  *)
(* of the stream.  The output of frames is left out: it is what decides    *)
(* when a frame that is no reference leaves.                               *)
(***************************************************************************)
EXTENDS Integers, Sequences, FiniteSets, SequencesExt

CONSTANT MaxFrameNum   \* 1 << log2_max_frame_num

NoPicture == 0

ShortOf(fs) == SelectSeq(fs, LAMBDA f : ~f.lt)
LongOf(fs) == SelectSeq(fs, LAMBDA f : f.lt)

\* update_pic_num
PicNum(f, num) == IF f.num > num THEN f.num - MaxFrameNum ELSE f.num

\* init_lists_p_slice_mvc: the first entry of the list.
First(fs, num) ==
    LET st == Range(ShortOf(fs))
        lt == Range(LongOf(fs))
    IN  IF st # {} THEN CHOOSE f \in st : \A g \in st : PicNum(g, num) <= PicNum(f, num)
        ELSE CHOOSE f \in lt : \A g \in lt : f.idx <= g.idx

\* check_ref_pic_list: the picture number that a reordering command names.
Named(num, diff) ==
    LET pred == IF num - diff < 0 THEN num - diff + MaxFrameNum ELSE num - diff
    IN  IF pred > num THEN pred - MaxFrameNum ELSE pred

\* The reference of a slice, NoPicture if the decoder has none.
Reference(dec, slice) ==
    LET by == {f \in Range(dec.fs) :
                 CASE slice.reorder.op = "long" -> f.lt /\ f.idx = slice.reorder.arg
                   [] slice.reorder.op = "short" ->
                        ~f.lt /\ PicNum(f, slice.num) = Named(slice.num, slice.reorder.arg)
                   [] OTHER -> f = First(dec.fs, slice.num)}
    IN  IF slice.idr \/ by = {} THEN NoPicture ELSE (CHOOSE f \in by : TRUE).pic

\* sliding_window_memory_management
Room(dec) == Max({1, dec.room})

SlideSlip(fs, dec) ==
    IF Len(ShortOf(fs)) > Room(dec) - Len(LongOf(fs)) /\ ShortOf(fs) # << >>
    THEN Tail(fs) ELSE fs
Slide(fs, dec) ==
    IF Len(ShortOf(fs)) = Room(dec) - Len(LongOf(fs)) /\ ShortOf(fs) # << >>
    THEN LET out == Head(ShortOf(fs)) IN SelectSeq(fs, LAMBDA f : f # out)
    ELSE fs

\* adaptive_memory_management, commands 4 and 6.
Adapt(fs, dec, mark) ==
    LET limited == SelectSeq(fs, LAMBDA f : ~f.lt \/ mark.op4 = -1 \/ f.idx <= mark.op4)
        free == SelectSeq(limited, LAMBDA f : ~f.lt \/ f.idx # mark.op6)
    IN  IF Len(free) > Room(dec) THEN Slide(free, dec) ELSE free

\* store_picture_in_dpb; an IDR frame may be long-term with index 0.
Entry(slice, pic, long) ==
    [pic |-> pic, num |-> slice.num, lt |-> long \/ slice.mark.op6 # -1,
     idx |-> IF slice.idr THEN 0 ELSE Max({0, slice.mark.op6})]

Kept(dec, slice, me) ==
    IF slice.idr THEN << me >>
    ELSE IF ~slice.ref THEN dec.fs
    ELSE Append(IF slice.mark.op6 # -1 THEN Adapt(dec.fs, dec, slice.mark)
                                       ELSE Slide(dec.fs, dec), me)

StoreSlip(dec, slice, pic) == [dec EXCEPT !.fs = Kept(dec, slice, Entry(slice, pic, FALSE))]
Store(dec, slice, pic) == [dec EXCEPT !.fs = Kept(dec, slice, Entry(slice, pic, slice.long))]
=============================================================================
