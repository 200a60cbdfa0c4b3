------------------------------ MODULE MppEncRefs ------------------------------
(***************************************************************************)
(* The reference manager of the encoders, mpp_enc_refs.cpp, as operators:  *)
(* from a reference configuration and the virtual cpb to the status of the *)
(* next frame, its reference, and the references before and after it.      *)
(*                                                                         *)
(* A configuration is [st, lt, keep, info]: the short-term entries, the    *)
(* long-term entries, whether it keeps the cpb, and the sizes that         *)
(* mpp_enc_ref_cfg_check finds by a dry run.                               *)
(***************************************************************************)
EXTENDS Integers, Sequences, FiniteSets, SequencesExt

MaxStFrm == 16
MaxLtFrm == 16
MaxTid == 3

Modes == {"prev_ref", "prev_st", "prev_lt", "prev_intra"}
ArgModes == {"tid", "lt", "prev_n"}

\* The status of a frame; None is a status that is not valid.
None == [seq |-> -1, idr |-> FALSE, nonref |-> FALSE, lt |-> FALSE, idx |-> 0,
         tid |-> 0, mode |-> "prev_ref", arg |-> 0]

Frame(seq, st) ==
    [seq |-> seq, idr |-> seq = 0, nonref |-> st.nonref, lt |-> FALSE, idx |-> 0,
     tid |-> st.tid, mode |-> st.mode, arg |-> st.arg]

MarkLong(frm, c) ==
    LET own == c.mode # "st_setup"
    IN  [frm EXCEPT !.nonref = FALSE, !.lt = TRUE, !.idx = c.idx, !.tid = 0,
                    !.mode = IF own THEN c.mode ELSE @,
                    !.arg = IF own THEN c.arg ELSE @]

-----------------------------------------------------------------------------
(* The virtual cpb: the references with the newest short-term frame first, *)
(* the frames that the reference modes name, a counter per long-term       *)
(* entry, and the place in the configuration.                              *)

Fresh(cfg) == [i \in DOMAIN cfg.lt |-> [delay |-> cfg.lt[i].delay, cnt |-> 0]]

Cleaned(cfg) ==
    [st |-> << >>, lt |-> << >>, by |-> << >>, cnter |-> Fresh(cfg),
     seq |-> 0, pos |-> 0, rep |-> 0]

\* mpp_enc_refs_set_cfg: with the cpb the counters keep their counts, also those
\* that the new configuration has no long-term entry for.
SetCfg(cpb, cfg) ==
    LET count == [i \in DOMAIN cfg.lt |-> IF i \in DOMAIN cpb.cnter
                                          THEN cpb.cnter[i].cnt ELSE 0]
    IN  IF ~cfg.keep THEN Cleaned(cfg)
        ELSE [cpb EXCEPT !.cnter =
                [i \in DOMAIN cfg.lt |-> [delay |-> cfg.lt[i].delay, cnt |-> count[i]]]
                  @@ @]

\* Whether the stream needs new headers with that.
HdrNeedUpdate(old, cfg) ==
    ~cfg.keep \/ (old.info.dpb > 0 /\ old.info.dpb < cfg.info.dpb)

\* The first counter that is due makes the frame long-term, and all advance.
Due(c) == c.delay = 0 /\ c.cnt = 0

Advance(c, gap) ==
    IF c.delay > 0 THEN [c EXCEPT !.delay = @ - 1]
    ELSE [c EXCEPT !.cnt = IF @ + 1 < gap THEN @ + 1 ELSE IF gap > 0 THEN 0 ELSE 1]

NextFrame(cpb, cfg, st) ==
    LET frm == Frame(cpb.seq, st)
        due == {i \in DOMAIN cfg.lt : Due(cpb.cnter[i])}
    IN  [frm |-> IF due = {} THEN frm ELSE MarkLong(frm, cfg.lt[Min(due)]),
         cpb |-> [cpb EXCEPT
                    !.seq = @ + 1,
                    !.cnter = [i \in DOMAIN cfg.lt |-> Advance(@[i], cfg.lt[i].gap)]
                                @@ @]]

RefOf(cpb, frm) ==
    LET key == <<frm.mode, IF frm.mode \in ArgModes THEN frm.arg ELSE 0>>
    IN  IF frm.idr THEN None
        ELSE IF frm.mode = "prev_n"
             THEN IF frm.arg < Len(cpb.st) THEN cpb.st[frm.arg + 1] ELSE None
             ELSE IF key \in DOMAIN cpb.by THEN cpb.by[key] ELSE None

\* The references that fit, long-term ones first.
SaveStatus(cpb, info) ==
    LET lt == SubSeq(cpb.lt, 1, Min({info.maxLt, Len(cpb.lt)}))
        left == info.dpb - Len(lt)
        n == Min({Len(cpb.st), Max({info.maxSt, left})})
    IN  IF left > 0 THEN lt \o SubSeq(cpb.st, 1, n) ELSE lt

\* A long-term frame takes the place of the one with its index.
PutLong(lt, frm) ==
    LET same == {i \in DOMAIN lt : lt[i].idx = frm.idx}
    IN  IF same # {} THEN [lt EXCEPT ![Min(same)] = frm]
        ELSE IF Len(lt) < MaxLtFrm THEN Append(lt, frm) ELSE lt

StoreRef(cpb, frm) ==
    LET names == {<<"prev_ref", 0>>, <<"tid", frm.tid>>}
                   \cup (IF frm.idr THEN {<<"prev_intra", 0>>} ELSE {})
                   \cup (IF frm.lt THEN {<<"prev_lt", 0>>, <<"lt", frm.idx>>}
                                   ELSE {<<"prev_st", 0>>})
        st == << frm >> \o cpb.st
    IN  IF frm.nonref THEN cpb
        ELSE [cpb EXCEPT
                !.by = [k \in names |-> frm] @@ @,
                !.lt = IF frm.lt THEN PutLong(@, frm) ELSE @,
                !.st = IF frm.lt THEN @ ELSE SubSeq(st, 1, Min({Len(st), MaxStFrm}))]

-----------------------------------------------------------------------------
(* The check of a configuration                                            *)

\* One frame of the dry run: how far back a short-term reference is found.
DryFrame(acc, st) ==
    LET next == NextFrame(acc.cpb, acc.cfg, st)
        ref == RefOf(next.cpb, next.frm)
        at == {i \in DOMAIN next.cpb.st : ref # None /\ ~ref.lt
                                          /\ next.cpb.st[i].seq = ref.seq}
    IN  [acc EXCEPT !.cpb = StoreRef(next.cpb, next.frm),
                    !.used = Max({@} \cup at)]

\* The dry run takes each entry `repeat' times, and once if that is zero.
DryRun(cfg) ==
    LET frames == FlattenSeq([i \in DOMAIN cfg.st |->
                    [j \in 1 .. Max({1, cfg.st[i].repeat}) |-> cfg.st[i]]])
        end == FoldLeft(DryFrame, [cfg |-> cfg, cpb |-> Cleaned(cfg), used |-> 0], frames)
    IN  Max({1, end.used})

CheckCfg(cfg) ==
    /\ \A i \in DOMAIN cfg.lt :
         /\ cfg.lt[i].idx \in 0 .. MaxLtFrm - 1
         /\ cfg.lt[i].mode \in Modes \cup ArgModes \cup {"st_setup"}
         /\ \A j \in DOMAIN cfg.lt : cfg.lt[i].idx = cfg.lt[j].idx => i = j
    /\ \A i \in DOMAIN cfg.st :
         /\ cfg.st[i].tid \in 0 .. MaxTid /\ cfg.st[i].repeat >= 0
         /\ cfg.st[i].mode \in Modes \cup ArgModes
         /\ i \in {1, Len(cfg.st)} => ~cfg.st[i].nonref /\ cfg.st[i].tid = 0

\* What mpp_enc_ref_cfg_check adds to the entries.
Ready(st, lt, keep) ==
    LET cfg == [st |-> st, lt |-> lt, keep |-> keep]
        maxSt == DryRun(cfg)
    IN  [st |-> st, lt |-> lt, keep |-> keep,
         info |-> [dpb |-> Len(lt) + maxSt, maxLt |-> Len(lt), maxSt |-> maxSt,
                   maxIdx |-> Max({0} \cup {lt[i].idx : i \in DOMAIN lt})]]

-----------------------------------------------------------------------------
(* mpp_enc_refs_get_cpb                                                    *)

\* After the last entry the configuration goes on with the second one.
StCfgPos(pos, cfg) ==
    IF pos < Len(cfg.st) THEN pos ELSE IF Len(cfg.st) > 1 THEN 1 ELSE 0

\* What the user forces: a long-term index and a reference, -1 for none.
ForceFrame(frm, force) ==
    LET mark == force.lt >= 0
        f1 == IF ~mark THEN frm
              ELSE [frm EXCEPT !.nonref = FALSE, !.lt = TRUE, !.tid = 0,
                               !.idx = IF frm.idr THEN 0 ELSE force.lt]
        f2 == IF force.use < 0 THEN f1
              ELSE [f1 EXCEPT !.mode = "lt", !.arg = force.use]
    IN  IF force.pskip THEN [f2 EXCEPT !.nonref = TRUE] ELSE f2

GetCpb(cpb, cfg, igop, changed, force) ==
    LET cleanup == (igop > 0 /\ cpb.seq >= igop) \/ force.idr
        c0 == IF cleanup THEN Cleaned(cfg)
              ELSE IF changed THEN [cpb EXCEPT !.pos = 0, !.rep = 0] ELSE cpb
        pos == StCfgPos(c0.pos, cfg)
        st == cfg.st[pos + 1]
        next == NextFrame(c0, cfg, st)
        curr == ForceFrame(next.frm, force)
        marked == force.lt >= 0
        rep == IF marked THEN 1 ELSE c0.rep + 1
        over == rep > st.repeat
        c1 == [next.cpb EXCEPT !.rep = IF over THEN 0 ELSE rep,
                               !.pos = (IF marked THEN 0 ELSE pos)
                                         + (IF over THEN 1 ELSE 0)]
        c2 == StoreRef(c1, curr)
    IN  [curr |-> curr, refr |-> RefOf(c1, curr), cpb |-> c2,
         init |-> SaveStatus(c1, cfg.info), final |-> SaveStatus(c2, cfg.info)]
=============================================================================
