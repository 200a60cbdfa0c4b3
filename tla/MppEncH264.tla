------------------------------ MODULE MppEncH264 ------------------------------
(***************************************************************************)
(* The references of an H.264 encoder from the configuration to the        *)
(* stream, and of a decoder that reads it: the encoder thread of           *)
(* mpp_enc_impl.cpp drives the reference manager (MppEncRefs) and the      *)
(* picture buffer (MppH264eDpb), may encode a frame again, drop it or      *)
(* replace it by a skipped one, and the decoder (MppH264dRefs) gets what   *)
(* is sent.                                                                *)
(*                                                                         *)
(* Commands and frames are handled by one thread, a command only between   *)
(* two frames.  A picture is a number, given when the hardware writes it,  *)
(* so that a slot that was written again does not pass for the old one.    *)
(***************************************************************************)
EXTENDS MppH264eDpb, MppH264dRefs

CONSTANTS
    Configs,      \* the reference configurations, as operator Ready makes them
    Igops,        \* the distances of IDR frames, 0 for none but the first
    LayerSkips,   \* whether frames that others name by their layer are skipped
    MaxPictures,  \* bound: how many pictures are encoded
    MaxEvents     \* bound: how often something else than encoding happens

ASSUME EncAssumption ==
    /\ \A c \in Configs : CheckCfg(c)
    /\ LayerSkips \in BOOLEAN /\ Igops \subseteq Nat /\ MaxPictures \in Nat /\ MaxEvents \in Nat
    /\ MaxFrmNum \in Nat \ {0} /\ MaxFrameNum = MaxFrmNum

VARIABLES
    cfg, igop, changed, cpb, stash,   \* MppEncRefsImpl
    force,      \* enc->frm_cfg: what the user forces on the next frame
    hdr,        \* hdr_status.ready
    dpb, recon, \* the picture buffer, and the picture in each of its slots
    coded,      \* the frame between its encoding and its end, or << >>
    made,       \* the picture of each frame of the sequence, by its number
    pictures,   \* how many were made
    sps, dec,   \* the references that the last header promises, the decoder
    last,       \* of the last frame sent: the picture its mode names, the one
                \* it was predicted from, and the one the decoder took
    lost,       \* a frame failed and no IDR frame was sent since
    events

refVars == <<cfg, igop, changed, cpb, stash, force, hdr>>
dpbVars == <<dpb, recon, coded, made, pictures>>
streamVars == <<sps, dec, last, lost>>
encVars == <<refVars, dpbVars, streamVars, events>>

NoForce == [idr |-> FALSE, lt |-> -1, use |-> -1, pskip |-> FALSE]

Sent == [idr |-> FALSE, named |-> 0, read |-> 0, got |-> 0]

\* A configuration that refers to the IDR frame does not take its long-term
\* index away before the next one comes.
NamesIntra(c) == \E i \in DOMAIN c.st : c.st[i].mode = "prev_intra"
IntraStays(c, n) ==
    NamesIntra(c) => n > 0 /\ \A i \in DOMAIN c.lt : n <= c.lt[i].gap

\* The ...Slip operators are the mutants of the checks.
EncInit ==
    /\ cfg \in Configs /\ igop \in Igops /\ IntraStays(cfg, igop) /\ changed = {}
    /\ cpb = Cleaned(cfg) /\ stash = cpb
    /\ force = NoForce /\ hdr = FALSE
    /\ dpb = DpbSetup(cfg.info)
    /\ recon = [i \in 1 .. MaxStFrm + MaxLtFrm + 1 |-> 0]
    /\ coded = << >>
    /\ made = << >> /\ pictures = 0
    /\ sps = 0 /\ dec = [fs |-> << >>, room |-> 0] /\ last = Sent /\ lost = FALSE
    /\ events = 0

Idle == coded = << >>

Event == events < MaxEvents /\ events' = events + 1

-----------------------------------------------------------------------------
(* Commands *)

\* MPP_ENC_SET_REF_CFG.  A configuration that keeps the references keeps the
\* long-term ones too, and needs no larger buffer; and no failed frame has left
\* the wish for a long-term frame that the new one does not have.
SetRefCfg(c) ==
    /\ Idle /\ Event /\ IntraStays(c, igop)
    /\ force.lt >= 0 => c.lt = cfg.lt
    /\ c.keep => c.lt = cfg.lt /\ c.info.dpb <= cfg.info.dpb
    /\ cfg' = c
    /\ changed' = changed \cup {"cfg"}
    /\ cpb' = SetCfg(cpb, c)
    /\ hdr' = (hdr /\ ~HdrNeedUpdate(cfg, c))
    /\ UNCHANGED <<igop, stash, force, dpbVars, streamVars>>

\* Commands that the next frame answers with headers and an IDR frame.
Resend == force' = [force EXCEPT !.idr = TRUE] /\ hdr' = FALSE

\* MPP_ENC_SET_IDR_FRAME, and the parameters of the codec and of the input.
SetIdr ==
    /\ Idle /\ Event
    /\ Resend
    /\ UNCHANGED <<cfg, igop, changed, cpb, stash, dpbVars, streamVars>>

\* The gop of the rate control.
SetGop(n) ==
    /\ Idle /\ Event
    /\ n # igop /\ igop' = n /\ IntraStays(cfg, n)
    /\ changed' = changed \cup {"igop"}
    /\ Resend
    /\ UNCHANGED <<cfg, cpb, stash, dpbVars, streamVars>>

-----------------------------------------------------------------------------
(* One frame *)

\* mpp_enc_refs_get_cpb, after which nothing has changed.
CpbStatus(from, f) ==
    GetCpb(from, cfg, igop, "cfg" \in changed,
           [f EXCEPT !.idr = @ \/ "igop" \in changed])

\* A frame with its slots and its slice header, and the picture that it is
\* predicted from; the encoder writes picture p into the frame's slot.
Code(buffer, cs, p) ==
    LET proc == Proc(buffer, cs)
    IN  [dpb |-> Check(proc.dpb, proc.curr),
         recon |-> [recon EXCEPT ![proc.curr] = p],
         made |-> (cs.curr.seq :> p) @@ (IF cs.curr.idr THEN << >> ELSE made),
         frame |-> [curr |-> cs.curr, slot |-> proc.curr, slice |-> proc.slice,
                    named |-> IF cs.refr = None THEN 0 ELSE made[cs.refr.seq],
                    read |-> IF proc.refr = proc.curr THEN 0 ELSE recon[proc.refr]]]

\* What the frame's meta data may force: a long-term index of the configuration
\* for this frame, and a long-term frame that there is as its reference.
Marks == {cfg.lt[i].idx : i \in {j \in DOMAIN cfg.lt : ~NamesIntra(cfg)}}
Uses == {i \in Marks : <<"lt", i>> \in DOMAIN cpb.by}

\* try_get_enc_task and mpp_enc_normal.
Encode(mark, use) ==
    /\ Idle /\ pictures < MaxPictures
    /\ mark \in Marks \cup {-1} /\ use \in Uses \cup {-1}
    /\ LET f == [force EXCEPT !.lt = IF mark >= 0 THEN mark ELSE @,
                              !.use = IF use >= 0 THEN use ELSE @]
           cs == CpbStatus(cpb, f)
           code == Code(IF hdr THEN dpb ELSE DpbSetup(cfg.info), cs, pictures + 1)
       IN  /\ force' = f /\ cpb' = cs.cpb
           /\ dpb' = code.dpb /\ recon' = code.recon /\ made' = code.made
           /\ coded' = code.frame
    /\ pictures' = pictures + 1
    /\ stash' = cpb /\ changed' = {} /\ hdr' = TRUE
    /\ sps' = IF hdr THEN sps ELSE cfg.info.dpb
    /\ events' = events + (IF mark >= 0 \/ use >= 0 THEN 1 ELSE 0)
    /\ events' <= MaxEvents
    /\ UNCHANGED <<cfg, igop, dec, last, lost>>

\* The frame is sent; the decoder takes its reference and marks it.  What it
\* makes of frames after a lost one is left out until an IDR frame comes.
Send(frame, p) ==
    LET to == IF frame.slice.idr THEN [dec EXCEPT !.room = sps] ELSE dec
    IN  /\ lost' = (lost /\ ~frame.slice.idr)
        /\ dec' = IF lost' THEN dec ELSE Store(to, frame.slice, p)
        /\ last' = [idr |-> frame.slice.idr, named |-> frame.named,
                    read |-> frame.read, got |-> Reference(to, frame.slice)]

EndFrame ==
    /\ coded' = << >>
    /\ force' = NoForce

Done ==
    /\ ~Idle
    /\ Send(coded, made[coded.curr.seq])
    /\ EndFrame
    /\ UNCHANGED <<cfg, igop, changed, cpb, stash, hdr, dpb, recon, made,
                   pictures, sps, events>>

\* mpp_enc_reenc_simple: only the hardware encodes the frame again.
Reenc ==
    /\ ~Idle /\ Event /\ pictures < MaxPictures
    /\ pictures' = pictures + 1
    /\ recon' = [recon EXCEPT ![coded.slot] = pictures']
    /\ made' = [made EXCEPT ![coded.curr.seq] = pictures']
    /\ UNCHANGED <<refVars, dpb, coded, streamVars>>

\* mpp_enc_reenc_drop: the rate control drops inter frames only, and the next
\* frame has the same number.
MayDropSlip(frm) == TRUE
MayDrop(frm) == ~frm.idr

Drop ==
    /\ ~Idle /\ Event /\ MayDrop(coded.curr)
    /\ cpb' = stash
    /\ EndFrame
    /\ UNCHANGED <<cfg, igop, changed, stash, hdr, dpb, recon, made, pictures,
                   streamVars>>

\* A reference that a later frame may name by its layer.
NamedByLayer(frm) ==
    ~frm.nonref /\ \E i \in DOMAIN cfg.st : cfg.st[i].mode = "tid" /\ cfg.st[i].arg = frm.tid

\* mpp_enc_reenc_force_pskip: the frame is made again as a copy of its reference.
ForcePskip ==
    /\ ~Idle /\ Event /\ pictures < MaxPictures
    /\ ~coded.curr.idr /\ ~coded.curr.lt
    /\ LayerSkips \/ ~NamedByLayer(coded.curr)
    /\ pictures' = pictures + 1
    /\ LET cs == CpbStatus(stash, [force EXCEPT !.pskip = TRUE])
           code == Code(dpb, cs, pictures')
       IN  /\ cpb' = cs.cpb
           /\ dpb' = code.dpb /\ recon' = code.recon /\ made' = code.made
           /\ Send(code.frame, pictures')
    /\ EndFrame
    /\ UNCHANGED <<cfg, igop, changed, stash, hdr, sps>>

\* The hardware fails: the frame is not sent, but it keeps its place in the
\* references, and what was forced is forced again.
Fail ==
    /\ ~Idle /\ Event
    /\ coded' = << >>
    /\ lost' = TRUE
    /\ UNCHANGED <<refVars, dpb, recon, made, pictures, sps, dec, last>>

-----------------------------------------------------------------------------
EncNext ==
    \/ \E c \in Configs : SetRefCfg(c)
    \/ \E n \in Igops : SetGop(n)
    \/ \E mark, use \in {-1} \cup Marks : Encode(mark, use)
    \/ SetIdr \/ Reenc \/ Drop \/ ForcePskip \/ Done \/ Fail

EncSpec == EncInit /\ [][EncNext]_encVars

-----------------------------------------------------------------------------
(* Properties *)

\* The references of the next frame, as the manager sees them, and the slots
\* that the picture buffer will have for them.
References == Range(SaveStatus(cpb, cfg.info))
Slots == Resumed(dpb, [seq |-> cpb.seq, idr |-> FALSE]).frames

\* Every frame that the reference manager goes on with has a slot of its own in
\* the picture buffer, with the picture that was encoded last under its number:
\* whatever was dropped, skipped, repeated or failed, the next frame overwrites
\* no reference, and h264e_dpb_build_list finds all of them (it does not ask).
ReferencesHaveSlots ==
    /\ cpb.seq \in Nat /\ pictures <= MaxPictures /\ events <= MaxEvents
    /\ Idle => \A r \in References :
                 /\ Find(Slots, r) # 0
                 /\ recon[Find(Slots, r)] = made[r.seq]
                 /\ \A q \in References : Find(Slots, q) = Find(Slots, r) => q = r

\* The decoder predicts each frame from the picture that the encoder predicted
\* it from, and that is the one the reference mode names: drops and repeats are
\* not seen in the stream, and the slice headers say what was done.
ReferenceDecoded ==
    ~lost => last.named = last.read /\ last.read = last.got

\* Between frames the decoder still has all references of the encoder, marked
\* alike.
DecoderHasReferences ==
    Idle /\ ~lost => \A r \in References : \E f \in Range(dec.fs) :
        f.pic = made[r.seq] /\ f.lt = r.lt /\ (r.lt => f.idx = r.idx)

\* What the decoder keeps follows the rules that the encoder's interface states:
\* a long-term frame stays until its index is taken or an IDR frame comes, and
\* the oldest short-term frame goes when there is no room.
Rules == INSTANCE MppRefRules WITH
    Pictures <- 1 .. MaxPictures,
    Indices <- 0 .. MaxLtFrm - 1,
    room <- dec.room,
    short <- [i \in DOMAIN ShortOf(dec.fs) |-> ShortOf(dec.fs)[i].pic],
    long <- [x \in {f.idx : f \in Range(LongOf(dec.fs))} |->
               (CHOOSE f \in Range(LongOf(dec.fs)) : f.idx = x).pic]

DecoderKeepsRules == Rules!Spec

\* An IDR frame that was asked for is never forgotten: the wish ends only with
\* an IDR frame that is sent, also when frames fail or are dropped meanwhile.
IdrServed ==
    [][force.idr /\ ~force'.idr => last'.idr /\ Len(dec'.fs) = 1 /\ ~lost']_encVars
=============================================================================
