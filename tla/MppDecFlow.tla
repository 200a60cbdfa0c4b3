----------------------------- MODULE MppDecFlow -----------------------------
(***************************************************************************)
(* How pictures flow through the decoder: the parser thread and the hal    *)
(* thread of mpp/codec/mpp_dec.cpp, with the MPEG-4 parser's reference     *)
(* handling (mpp/codec/dec/mpg4), share the frame slots of MppBufSlots and *)
(* hand finished frames to an application that keeps their buffers for a   *)
(* while.  Geometry changes, end of stream and resets are part of it.      *)
(*                                                                         *)
(* Every call on the slots is a step of its own.  A thread that makes      *)
(* several in a row keeps the rest of them in its todo list, so that the   *)
(* calls of the two threads interleave as they do in the program.  When    *)
(* threads wake up is the subject of MppDecSync; here a thread may run     *)
(* whenever its code would not send it to sleep again.                     *)
(***************************************************************************)
EXTENDS MppBufSlots

CONSTANTS
    HalTasks,      \* status->hal_task_count: 3 in fast mode, 2 otherwise
    FastMode,      \* parser_fast_mode
    DisplayLimit,  \* frames in mFrames that stop the parser (4 in the code)
    MaxPics,       \* bound: pictures in the stream
    MaxResets,     \* bound: calls of Mpp::reset
    EosKinds       \* how the stream may end: "picture", "empty", "skipped"

ASSUME FlowAssumption ==
    /\ FastMode \in BOOLEAN /\ HalTasks = IF FastMode THEN 3 ELSE 2
    /\ {DisplayLimit, MaxPics, MaxResets} \subseteq Nat
    /\ EosKinds \subseteq {"picture", "empty", "skipped"}

VARIABLES
    ref0, ref1,   \* hdr_ref0, hdr_ref1: slot_idx, enqueued, geometry
    foundI,       \* found_i_vop
    gotEos,       \* got_eos
    ppc, ptodo,   \* parser thread: place in its loop, slot calls to make
    task,         \* parser thread: DecTask
    procQ,        \* hal tasks in TASK_PROCESSING, oldest first
    procDone,     \* number of hal tasks in TASK_PROC_DONE
    hpc, htodo,   \* hal thread: place in its loop, slot calls to make
    hal,          \* hal thread: the task it works on
    hcur,         \* hal thread: the entry it has dequeued for output
    resetFlag,    \* reset_flag
    halReset,     \* hal_reset_post/done: "none", "posted", "done"
    flushDue,     \* Mpp::reset still has to flush mFrames
    readyCmd,     \* a MPP_DEC_SET_INFO_CHANGE_READY waits for the parser
    frames,       \* mFrames
    held,         \* buffers of the frames the application holds
    \* what happened since the last reset, for the properties only
    pic,          \* pic[i]: the picture decoded into entry i
    coded,        \* the types of the pictures parsed, in coding order
    decoded,      \* pictures the hardware has finished
    shown,        \* pictures put into mFrames, in order
    dropped,      \* pictures a reset took out of the display queue
    eosSent,      \* frames with the eos flag put into mFrames
    resets        \* calls of Mpp::reset so far

parserVars == <<ref0, ref1, foundI, gotEos, ppc, ptodo, task>>
halVars == <<procQ, procDone, hpc, htodo, hal, hcur>>
ctrlVars == <<resetFlag, halReset, flushDue, readyCmd>>
outVars == <<frames, held>>
histVars == <<pic, coded, decoded, shown, dropped, eosSent, resets>>
vars == <<slotVars, parserVars, halVars, ctrlVars, outVars, histVars>>

NoRef == [slot |-> NoSlot, enqueued |-> FALSE, size |-> 0]
NoRefer == <<NoSlot, NoSlot>>
NoTask ==
    [parsed |-> FALSE, out |-> NoSlot, refer |-> NoRefer, eos |-> FALSE,
     infoGen |-> FALSE, waitInfo |-> FALSE, prevRdy |-> TRUE]
HalTask(kind, out, refer, eos) ==
    [kind |-> kind, out |-> out, refer |-> refer, eos |-> eos]
NoHal == HalTask("none", NoSlot, NoRefer, FALSE)
Frame(p, b, eos) == [pic |-> p, buf |-> b, eos |-> eos]
InfoFrame == Frame(-1, NoBuf, FALSE)
EosFrame == Frame(0, NoBuf, TRUE)

Init ==
    /\ SlotsInit
    /\ ref0 = NoRef /\ ref1 = NoRef /\ foundI = FALSE /\ gotEos = FALSE
    /\ ppc = "top" /\ ptodo = << >> /\ task = NoTask
    /\ procQ = << >> /\ procDone = 0
    /\ hpc = "top" /\ htodo = << >> /\ hal = NoHal /\ hcur = NoSlot
    /\ resetFlag = FALSE /\ halReset = "none" /\ flushDue = FALSE
    /\ readyCmd = FALSE
    /\ frames = << >> /\ held = {}
    /\ pic = [i \in Slots |-> 0]
    /\ coded = << >> /\ decoded = {} /\ shown = << >> /\ dropped = {}
    /\ eosSent = 0 /\ resets = 0

-----------------------------------------------------------------------------
(* Calls on the slots, as <<operation, entry, argument>>. *)

Call(c) ==
    \/ c[1] = "set" /\ SetFlag(c[2], c[3])
    \/ c[1] = "clr" /\ ClrFlag(c[2], c[3])
    \/ c[1] = "enqueue" /\ Enqueue(c[2], c[3])
    \/ c[1] = "frame" /\ SetFrame(c[2], c[3])
    \/ c[1] = "reset" /\ SlotReset(c[2])
    \/ /\ c[1] = "put"   \* mpp_buffer_put of the entry's buffer
       /\ bufRef' = RefAdd(bufRef, slot[c[2]].buffer, -1)
       /\ UNCHANGED <<slot, queue, usedCount, info, infoSet, infoChanged,
                      slotError>>

Valid(r) == r.slot # NoSlot
If(cond, calls) == IF cond THEN calls ELSE << >>
Display(i) == << <<"set", i, "QUEUE_USE">>, <<"enqueue", i, "DISPLAY">> >>
Refer(r) == If(Valid(r), << <<"set", r.slot, "HAL_INPUT">> >>)
Unref(r) == If(Valid(r), << <<"clr", r.slot, "CODEC_USE">> >>)


\* The hal is done with a task: its output is ready and its references lose
\* one use each.
HwDoneCalls(t) ==
    << <<"clr", t.out, "HAL_OUTPUT">> >>
    \o If(t.refer[1] # NoSlot, << <<"clr", t.refer[1], "HAL_INPUT">> >>)
    \o If(t.refer[2] # NoSlot, << <<"clr", t.refer[2], "HAL_INPUT">> >>)

\* mpp_mpg4_parser_flush: the last reference picture becomes displayable.
FlushCallsSlip(r) == If(Valid(r) /\ r.enqueued, Display(r.slot))
FlushCalls(r) == If(Valid(r) /\ ~r.enqueued, Display(r.slot))
Flushed(r) == IF Valid(r) THEN [r EXCEPT !.enqueued = TRUE] ELSE r

-----------------------------------------------------------------------------
(* Parser thread.                                                          *)
(*   "top"      at the top of its loop                                     *)
(*   "check"    in try_proc_dec_task, the picture parsed                   *)
(*   "submit"   in try_proc_dec_task, the output buffer found              *)
(*   "eos"      in try_proc_dec_task with an empty end of stream           *)
(*   "waithal"  in reset_parser_thread, in sem_wait(hal_reset)             *)
(*   "drain"    in reset_parser_thread, past the parser's own reset        *)

IdleTasks == HalTasks - Len(procQ) - procDone

\* Control and reset come first; then a hal task in TASK_IDLE is needed.
ResetAskedSlip == ~readyCmd /\ resetFlag /\ ~task.parsed
ResetAsked == ~readyCmd /\ resetFlag
TryProc == ppc = "top" /\ ~readyCmd /\ ~resetFlag /\ IdleTasks > 0

\* The application feeds no packet while it is inside Mpp::reset, nor after
\* an end of stream that no reset has followed.
PacketReady ==
    ~task.parsed /\ ~gotEos /\ ~flushDue /\ Len(coded) < MaxPics

\* Step 7.1 without fast mode: the task before must be in TASK_PROC_DONE,
\* and is then set to TASK_IDLE.
PrevDone ==
    /\ TryProc /\ PacketReady /\ ~FastMode
    /\ ~task.prevRdy /\ procDone > 0
    /\ procDone' = procDone - 1
    /\ task' = [task EXCEPT !.prevRdy = TRUE]
    /\ UNCHANGED <<slotVars, ref0, ref1, foundI, gotEos, ppc, ptodo, procQ,
                   hpc, htodo, hal, hcur, ctrlVars, outVars, histVars>>

\* Steps 7.1 to 7.3 on each pass: previous task done, mFrames not too long,
\* an unused slot by the count.
ParseGate ==
    /\ FastMode \/ task.prevRdy
    /\ Len(frames) <= DisplayLimit
    /\ UnusedCount # 0

\* mpeg4_parse_vop_header and mpp_mpg4_parser_decode: which pictures parse.
\* A B picture lies between two references of one geometry.
Decodable(type, size) ==
    \/ type = "I"
    \/ type = "P" /\ foundI /\ Valid(ref0) /\ size = ref0.size
    \/ /\ type = "B" /\ Valid(ref0) /\ Valid(ref1)
       /\ size = ref0.size /\ size = ref1.size

\* mpp_mpg4_parser_update_dpb: a B picture is displayed at once, any other
\* one sends the last reference to display and takes its place.
UpdateDpbSlip(type, i) ==
    IF type = "B" THEN Display(i)
    ELSE << <<"set", i, "CODEC_USE">> >> \o Display(i) \o Unref(ref1)
UpdateDpbNoUse(type, i) ==
    IF type = "B" THEN Display(i) ELSE FlushCalls(ref0) \o Unref(ref1)
UpdateDpb(type, i) ==
    IF type = "B" THEN Display(i)
    ELSE FlushCalls(ref0) \o << <<"set", i, "CODEC_USE">> >> \o Unref(ref1)

\* Steps 3 to 8 for a packet with a decodable picture: the parser takes the
\* first unused slot (its first call) and has the others still to make.
ParseAs(type, size, eos, i) ==
    LET cur == [slot |-> i, enqueued |-> FALSE, size |-> size]
        last == IF type = "B" THEN ref0 ELSE cur
    IN  /\ GetUnused(i)
        /\ ptodo' = << <<"set", i, "HAL_OUTPUT">>, <<"frame", i, size>> >>
                    \o Refer(ref0) \o Refer(ref1) \o UpdateDpb(type, i)
                    \o If(eos, FlushCalls(last))
        /\ ref1' = IF type = "B" THEN ref1 ELSE ref0
        /\ ref0' = IF eos THEN Flushed(last) ELSE last
        /\ task' = [task EXCEPT !.parsed = TRUE, !.out = i, !.eos = eos,
                                !.refer = <<ref0.slot, ref1.slot>>]
        /\ pic' = [pic EXCEPT ![i] = Len(coded) + 1]

Parse(type, size, eos) ==
    /\ TryProc /\ PacketReady /\ ParseGate /\ Decodable(type, size)
    /\ eos => "picture" \in EosKinds
    /\ \E i \in Slots : ParseAs(type, size, eos, i)
    /\ foundI' = (foundI \/ type = "I")
    /\ gotEos' = eos
    /\ ppc' = "check"
    /\ coded' = Append(coded, type)
    /\ UNCHANGED <<halVars, ctrlVars, outVars, decoded, shown, dropped,
                   eosSent, resets>>

\* The same for a packet without a decodable picture (an N-VOP, or a picture
\* that lacks its references): mpg4d_parse returns before the flush, and the
\* task goes back to TASK_IDLE, or to the hal when it carries the eos flag.
ParseSkipped(eos) ==
    /\ TryProc /\ PacketReady /\ ParseGate
    /\ eos => "skipped" \in EosKinds
    /\ coded' = Append(coded, "N")
    /\ gotEos' = eos
    /\ procQ' = IF eos
                THEN Append(procQ, HalTask("eos", NoSlot, NoRefer, TRUE))
                ELSE procQ
    /\ UNCHANGED <<slotVars, ref0, ref1, foundI, ppc, ptodo, task, procDone,
                   hpc, htodo, hal, hcur, ctrlVars, outVars, pic, decoded,
                   shown, dropped, eosSent, resets>>

\* mpg4d_prepare of an empty packet with the eos flag: flush, then an empty
\* task for the hal.
PrepareEos ==
    /\ TryProc /\ PacketReady /\ "empty" \in EosKinds
    /\ gotEos' = TRUE
    /\ ptodo' = FlushCalls(ref0)
    /\ ref0' = Flushed(ref0)
    /\ ppc' = "eos"
    /\ UNCHANGED <<slotVars, ref1, foundI, task, halVars, ctrlVars, outVars,
                   histVars>>

SubmitEos ==
    /\ ppc = "eos" /\ ptodo = << >>
    /\ procQ' = Append(procQ, HalTask("eos", NoSlot, NoRefer, TRUE))
    /\ ppc' = "top"
    /\ UNCHANGED <<slotVars, ref0, ref1, foundI, gotEos, ptodo, task,
                   procDone, hpc, htodo, hal, hcur, ctrlVars, outVars,
                   histVars>>

\* The next call of whatever the parser thread is doing.
ParserCall ==
    /\ ptodo # << >>
    /\ Call(Head(ptodo))
    /\ ptodo' = Tail(ptodo)
    /\ UNCHANGED <<ref0, ref1, foundI, gotEos, ppc, task, halVars, ctrlVars,
                   outVars, histVars>>

\* Past step 8, in the pass that parsed the picture or in a later one.
Parsed ==
    /\ task.parsed /\ ptodo = << >>
    /\ ppc = "check" \/ (TryProc /\ ParseGate)

\* Step 9: a geometry change is sent to the hal thread once.
SendInfoChange ==
    /\ Parsed /\ infoChanged /\ ~task.infoGen
    /\ procQ' = Append(procQ, HalTask("info", task.out, NoRefer, FALSE))
    /\ task' = [task EXCEPT !.infoGen = TRUE]
    /\ ppc' = "top"
    /\ UNCHANGED <<slotVars, ref0, ref1, foundI, gotEos, ptodo, procDone,
                   hpc, htodo, hal, hcur, ctrlVars, outVars, histVars>>

\* Step 9 again, while the application has not accepted it.
WaitInfoChange ==
    /\ Parsed /\ infoChanged /\ task.infoGen /\ ~task.waitInfo
    /\ task' = [task EXCEPT !.waitInfo = TRUE]
    /\ ppc' = "top"
    /\ UNCHANGED <<slotVars, ref0, ref1, foundI, gotEos, ptodo, halVars,
                   ctrlVars, outVars, histVars>>

FreeBuffers == {b \in Buffers : bufRef[b] = 0}

\* Steps 9 to 11: no change is pending, a buffer is taken for the output.
GetBuffer(b) ==
    /\ Parsed /\ ~infoChanged /\ b \in FreeBuffers
    /\ SetBuffer(task.out, b)
    /\ task' = [task EXCEPT !.infoGen = FALSE, !.waitInfo = FALSE]
    /\ ppc' = "submit"
    /\ UNCHANGED <<ref0, ref1, foundI, gotEos, ptodo, halVars, ctrlVars,
                   outVars, histVars>>

\* Step 10 without a buffer: back to the top to wait for one.
NoBuffer ==
    /\ Parsed /\ ~infoChanged /\ FreeBuffers = {}
    /\ ppc = "check" \/ task.infoGen
    /\ task' = [task EXCEPT !.infoGen = FALSE, !.waitInfo = FALSE]
    /\ ppc' = "top"
    /\ UNCHANGED <<slotVars, ref0, ref1, foundI, gotEos, ptodo, halVars,
                   ctrlVars, outVars, histVars>>

\* Step 12: the picture goes to the hardware and the task to the hal thread.
Submit ==
    /\ ppc = "submit"
    /\ procQ' = Append(procQ, HalTask("frame", task.out, task.refer, task.eos))
    /\ task' = [NoTask EXCEPT !.prevRdy = FALSE]
    /\ ppc' = "top"
    /\ UNCHANGED <<slotVars, ref0, ref1, foundI, gotEos, ptodo, procDone,
                   hpc, htodo, hal, hcur, ctrlVars, outVars, histVars>>

\* MPP_DEC_SET_INFO_CHANGE_READY, processed at the top of the loop.
ProcControl ==
    /\ ppc = "top" /\ readyCmd
    /\ Ready
    /\ readyCmd' = FALSE
    /\ UNCHANGED <<parserVars, halVars, resetFlag, halReset, flushDue,
                   outVars, histVars>>

\* reset_parser_thread up to the sem_wait for the hal thread.
ResetPost ==
    /\ ppc = "top" /\ ResetAsked
    /\ halReset' = "posted"
    /\ ppc' = "waithal"
    /\ UNCHANGED <<slotVars, ref0, ref1, foundI, gotEos, ptodo, task, halVars,
                   resetFlag, flushDue, readyCmd, outVars, histVars>>

\* The parser's own reset, then the entry of an unfinished geometry change,
\* then the uses of a picture that was parsed and not sent.
ResetCallsSlip ==
    FlushCalls(ref0) \o Unref(ref0) \o Unref(ref1)
    \o If(task.waitInfo, << <<"reset", task.out, 0>> >>)
ResetCalls ==
    FlushCalls(ref0) \o Unref(ref0) \o Unref(ref1)
    \o If(task.waitInfo, << <<"reset", task.out, 0>> >>)
    \o If(task.parsed, HwDoneCalls(task))

ResetParser ==
    /\ ppc = "waithal" /\ halReset = "done"
    /\ ptodo' = ResetCalls
    /\ ref0' = NoRef /\ ref1' = NoRef /\ foundI' = FALSE /\ gotEos' = FALSE
    /\ halReset' = "none"
    /\ ppc' = "drain"
    /\ UNCHANGED <<slotVars, task, halVars, resetFlag, flushDue, readyCmd,
                   outVars, histVars>>

\* The display queue is emptied: the extra reference of each buffer and the
\* queue's use of each entry go.
DrainCallsSlip(i) == << <<"clr", i, "QUEUE_USE">> >>
DrainCalls(i) ==
    If(slot[i].buffer # NoBuf, << <<"put", i, 0>> >>)
    \o << <<"clr", i, "QUEUE_USE">> >>

ResetDrain(i) ==
    /\ ppc = "drain" /\ ptodo = << >>
    /\ Dequeue(i, "DISPLAY")
    /\ ptodo' = DrainCalls(i)
    /\ dropped' = dropped \cup {pic[i]}
    /\ UNCHANGED <<ref0, ref1, foundI, gotEos, ppc, task, halVars, ctrlVars,
                   outVars, pic, coded, decoded, shown, eosSent, resets>>

ResetDone ==
    /\ ppc = "drain" /\ ptodo = << >> /\ ~CanDequeue("DISPLAY")
    /\ task' = NoTask
    /\ resetFlag' = FALSE
    /\ ppc' = "top"
    /\ UNCHANGED <<slotVars, ref0, ref1, foundI, gotEos, ptodo, halVars,
                   halReset, flushDue, readyCmd, outVars, histVars>>

-----------------------------------------------------------------------------
(* Hal thread.                                                             *)
(*   "top"   at the top of its loop                                        *)
(*   "hw"    waiting for the hardware to finish the task                   *)
(*   "push"  in the loop that empties the display queue                    *)
(*   "put"   in that loop, an entry dequeued and not yet put into mFrames  *)

HalTake ==
    /\ hpc = "top" /\ procQ # << >>
    /\ hal' = Head(procQ)
    /\ hpc' = IF hal'.kind = "frame" THEN "hw" ELSE "push"
    /\ htodo' = IF hal'.kind = "info" THEN FlushCalls(ref0) ELSE << >>
    /\ ref0' = IF hal'.kind = "info" THEN Flushed(ref0) ELSE ref0
    /\ UNCHANGED <<slotVars, ref1, foundI, gotEos, ppc, ptodo, task, procQ,
                   procDone, hcur, ctrlVars, outVars, histVars>>

\* A task with the eos flag is followed by a flush (mpp_dec_flush).
EndsStreamSlip(t) == t.kind = "frame"
EndsStream(t) == t.eos

\* The task leaves TASK_PROCESSING before its entries are marked, so the
\* parser may already go on while the hal thread makes these calls.
HwDone ==
    /\ hpc = "hw"
    /\ procQ' = Tail(procQ)
    /\ procDone' = IF FastMode THEN procDone ELSE procDone + 1
    /\ htodo' = HwDoneCalls(hal) \o If(EndsStream(hal), FlushCalls(ref0))
    /\ ref0' = IF EndsStream(hal) THEN Flushed(ref0) ELSE ref0
    /\ decoded' = decoded \cup {pic[hal.out]}
    /\ hpc' = "push"
    /\ UNCHANGED <<slotVars, ref1, foundI, gotEos, ppc, ptodo, task, hal,
                   hcur, ctrlVars, outVars, pic, coded, shown, dropped,
                   eosSent, resets>>

\* With no task left and a reset posted: reset_hal_thread.
HalIdle == hpc = "top" /\ procQ = << >>
HalReset ==
    /\ HalIdle /\ halReset = "posted"
    /\ hal' = HalTask("reset", NoSlot, NoRefer, FALSE)
    /\ htodo' = FlushCalls(ref0)
    /\ ref0' = Flushed(ref0)
    /\ hpc' = "push"
    /\ UNCHANGED <<slotVars, ref1, foundI, gotEos, ppc, ptodo, task, procQ,
                   procDone, hcur, ctrlVars, outVars, histVars>>

HalCall ==
    /\ htodo # << >>
    /\ Call(Head(htodo))
    /\ htodo' = Tail(htodo)
    /\ UNCHANGED <<parserVars, procQ, procDone, hpc, hal, hcur, ctrlVars,
                   outVars, histVars>>

\* mpp_dec_push_display, and the same loop in reset_hal_thread.
HalDequeue(i) ==
    /\ hpc = "push" /\ htodo = << >>
    /\ Dequeue(i, "DISPLAY")
    /\ hcur' = i
    /\ hpc' = "put"
    /\ UNCHANGED <<parserVars, procQ, procDone, htodo, hal, ctrlVars, outVars,
                   histVars>>

\* mpp_dec_put_frame: the frame takes the extra reference of its buffer; it
\* carries the eos flag when it is the last one of a task with that flag.
LastOfEosSlip == hal.kind = "eos" /\ queue["DISPLAY"] = << >>
LastOfEos == hal.eos /\ queue["DISPLAY"] = << >>
HalPut ==
    /\ hpc = "put"
    /\ frames' = Append(frames, Frame(pic[hcur], slot[hcur].frameBuf, LastOfEos))
    /\ shown' = Append(shown, pic[hcur])
    /\ eosSent' = IF LastOfEos THEN eosSent + 1 ELSE eosSent
    /\ htodo' = << <<"clr", hcur, "QUEUE_USE">> >>
    /\ hcur' = NoSlot
    /\ hpc' = "push"
    /\ UNCHANGED <<slotVars, parserVars, procQ, procDone, hal, ctrlVars, held,
                   pic, coded, decoded, dropped, resets>>

\* Nothing more to display: what ends the handling of each kind of task.
HalEnd ==
    /\ hpc = "push" /\ htodo = << >> /\ ~CanDequeue("DISPLAY")
    /\ procQ' = IF hal.kind \in {"info", "eos"} THEN Tail(procQ) ELSE procQ
    /\ frames' = CASE hal.kind = "info" -> Append(frames, InfoFrame)
                   [] hal.kind = "eos" -> Append(frames, EosFrame)
                   [] OTHER -> frames
    /\ eosSent' = IF hal.kind = "eos" THEN eosSent + 1 ELSE eosSent
    /\ procDone' = IF hal.kind = "reset" THEN 0 ELSE procDone
    /\ halReset' = IF hal.kind = "reset" THEN "done" ELSE halReset
    /\ hal' = NoHal
    /\ hpc' = "top"
    /\ UNCHANGED <<slotVars, parserVars, htodo, hcur, resetFlag, flushDue,
                   readyCmd, held, pic, coded, decoded, shown, dropped,
                   resets>>

-----------------------------------------------------------------------------
(* Application. *)

\* Mpp::get_frame.  A geometry change is answered with the ready command.
TakeFrame ==
    /\ frames # << >>
    /\ frames' = Tail(frames)
    /\ held' = IF Head(frames).buf = NoBuf THEN held
               ELSE held \cup {Head(frames).buf}
    /\ readyCmd' = (readyCmd \/ Head(frames) = InfoFrame)
    /\ UNCHANGED <<slotVars, parserVars, halVars, resetFlag, halReset,
                   flushDue, histVars>>

\* mpp_frame_deinit of a frame the application holds.
ReleaseFrame(b) ==
    /\ b \in held
    /\ held' = held \ {b}
    /\ bufRef' = RefAdd(bufRef, b, -1)
    /\ UNCHANGED <<slot, queue, usedCount, info, infoSet, infoChanged,
                   slotError, parserVars, halVars, ctrlVars, frames, histVars>>

\* Mpp::reset: ask the parser thread, wait for it, flush mFrames.
UserReset ==
    /\ ~resetFlag /\ ~flushDue /\ resets < MaxResets
    /\ resetFlag' = TRUE
    /\ flushDue' = TRUE
    /\ resets' = resets + 1
    /\ UNCHANGED <<slotVars, parserVars, halVars, halReset, readyCmd, outVars,
                   pic, coded, decoded, shown, dropped, eosSent>>

FlushedRefs == [b \in Buffers |->
    bufRef[b] - Cardinality({k \in DOMAIN frames : frames[k].buf = b})]
UserFlush ==
    /\ flushDue /\ ~resetFlag
    /\ flushDue' = FALSE
    /\ frames' = << >>
    /\ bufRef' = FlushedRefs
    /\ coded' = << >> /\ decoded' = {} /\ shown' = << >> /\ dropped' = {}
    /\ eosSent' = 0
    /\ pic' = [i \in Slots |-> 0]
    /\ UNCHANGED <<slot, queue, usedCount, info, infoSet, infoChanged,
                   slotError, parserVars, halVars, resetFlag, halReset,
                   readyCmd, held, resets>>

-----------------------------------------------------------------------------
ParserNext ==
    \/ PrevDone
    \/ \E type \in {"I", "P", "B"}, size \in Infos, eos \in BOOLEAN :
           Parse(type, size, eos)
    \/ \E eos \in BOOLEAN : ParseSkipped(eos)
    \/ PrepareEos \/ SubmitEos
    \/ SendInfoChange \/ WaitInfoChange \/ NoBuffer
    \/ \E b \in Buffers : GetBuffer(b)
    \/ Submit
    \/ ProcControl
    \/ ResetPost \/ ResetParser \/ ResetDone
    \/ \E i \in Slots : ResetDrain(i)
    \/ ParserCall

HalNext ==
    \/ HalTake \/ HwDone \/ HalReset \/ HalCall
    \/ \E i \in Slots : HalDequeue(i)
    \/ HalPut \/ HalEnd

UserNext ==
    \/ TakeFrame \/ UserFlush \/ UserReset
    \/ \E b \in Buffers : ReleaseFrame(b)

Next == ParserNext \/ HalNext \/ UserNext

Spec == Init /\ [][Next]_vars

\* The two threads run whenever their code does not send them to sleep.  While
\* it is not inside Mpp::reset the application fetches frames and gives them
\* back; it need not feed another packet.
FairSpec ==
    /\ Spec
    /\ WF_vars(PrevDone) /\ WF_vars(SubmitEos)
    /\ WF_vars(SendInfoChange \/ WaitInfoChange \/ NoBuffer)
    /\ WF_vars(\E b \in Buffers : GetBuffer(b))
    /\ WF_vars(Submit) /\ WF_vars(ProcControl)
    /\ WF_vars(ResetPost) /\ WF_vars(ResetParser) /\ WF_vars(ResetDone)
    /\ WF_vars(\E i \in Slots : ResetDrain(i)) /\ WF_vars(ParserCall)
    /\ WF_vars(HalNext)
    /\ WF_vars(UserFlush) /\ WF_vars(~flushDue /\ TakeFrame)
    /\ \A b \in Buffers : WF_vars(~flushDue /\ ReleaseFrame(b))

-----------------------------------------------------------------------------
(* Properties. *)

\* Type invariant of the slots, the two threads and the application.
TypeOK ==
    /\ SlotsTypeOK
    /\ \A r \in {ref0, ref1} :
           /\ r.slot \in Slots \cup {NoSlot} /\ r.enqueued \in BOOLEAN
           /\ r.size \in Infos \cup {0}
    /\ {foundI, gotEos, resetFlag, flushDue, readyCmd} \subseteq BOOLEAN
    /\ ppc \in {"top", "check", "submit", "eos", "waithal", "drain"}
    /\ hpc \in {"top", "hw", "push", "put"}
    /\ halReset \in {"none", "posted", "done"}
    /\ Len(procQ) + procDone <= HalTasks /\ procDone \in Nat
    /\ {task.out, hal.out, hcur} \subseteq Slots \cup {NoSlot}
    /\ held \subseteq Buffers
    /\ Len(coded) <= MaxPics /\ resets \in 0 .. MaxResets

\* The pictures on their way: sent to the hal thread, or parsed and waiting
\* for a buffer or for the application to accept a geometry.
Sent == {procQ[k] : k \in {k \in DOMAIN procQ : procQ[k].kind = "frame"}}
Waiting ==
    IF task.parsed /\ ppc # "drain"
    THEN {HalTask("frame", task.out, task.refer, task.eos)} ELSE {}
InFlight == Sent \cup Waiting

Uses(i) ==
    [hal_use |->
        Cardinality({t \in InFlight : t.refer[1] = i})
        + Cardinality({t \in InFlight : t.refer[2] = i}),
     hal_output |-> \E t \in InFlight : t.out = i,
     codec_use |-> i \in {ref0.slot, ref1.slot},
     queue_use |-> IF \E k \in DOMAIN queue["DISPLAY"] :
                          queue["DISPLAY"][k] = i THEN 2
                   ELSE IF hcur = i THEN 1 ELSE 0]

AtRest == ptodo = << >> /\ htodo = << >>

\* Whenever neither thread is in the middle of its slot calls, the flags and
\* counters of every entry are exactly those of its present users (hal tasks,
\* the parser's two references, the display queue), it is unready exactly
\* while the hardware still has to write it, and it is on use exactly when it
\* has a user.  About the set/clr pairs of mpp_dec.cpp and mpg4d_parser.c,
\* which sit in different threads and functions.
EntryMatchesUsers ==
    AtRest => \A i \in Slots :
        LET s == slot[i]  u == Uses(i)
        IN  /\ s.hal_use = u.hal_use /\ s.hal_output = u.hal_output
            /\ s.codec_use = u.codec_use /\ s.queue_use = u.queue_use
            /\ s.not_ready = u.hal_output
            /\ s.on_used = (u.hal_use > 0 \/ u.hal_output \/ u.codec_use
                                \/ u.queue_use > 0)

\* No slot call takes away a use that is not there: the "can not clr" error
\* of slot_ops_with_log never happens outside mpp_buf_slot_reset.
NoUnmatchedClear == ~slotError

\* Whenever the gate before parsing (step 7.3, by used_count) lets the parser
\* through, mpp_buf_slot_get_unused finds an entry.
GateFindsSlot == UnusedCount # 0 => FreeSlots # {}

\* The table of slots is exact: types, users, no clear without a use, and a
\* count that the gate may rely on.
SlotsExact == TypeOK /\ EntryMatchesUsers /\ NoUnmatchedClear /\ GateFindsSlot

\* Every reference on a hardware buffer has an owner that will drop it: an
\* entry, the frame in the entry, a frame in mFrames or with the application,
\* or the extra reference of a picture neither shown nor dropped.
Owners(b) ==
    Cardinality({i \in Slots : slot[i].buffer = b})
    + Cardinality({i \in Slots : slot[i].frameBuf = b})
    + Cardinality({i \in Slots : /\ slot[i].buffer = b
                                 /\ pic[i] \notin dropped
                                 /\ \A k \in DOMAIN shown : shown[k] # pic[i]})
    + Cardinality({k \in DOMAIN frames : frames[k].buf = b})
    + (IF b \in held THEN 1 ELSE 0)
BufferRefsExact == AtRest => \A b \in Buffers : bufRef[b] = Owners(b)

\* Two pictures on their way never share an output entry, none of them reads
\* the entry it writes, and the buffer of a picture sent to the hardware is
\* in no other entry, in no frame of mFrames and not with the application.
OutputsExclusive ==
    /\ \A t1, t2 \in InFlight : t1.out = t2.out => t1 = t2
    /\ \A t \in InFlight : t.out \notin {t.refer[1], t.refer[2]}
    /\ \A t \in Sent : LET b == slot[t.out].buffer
                       IN  /\ b # NoBuf /\ b \notin held
                           /\ \A k \in DOMAIN frames : frames[k].buf # b
                           /\ \A i \in Slots \ {t.out} : slot[i].buffer # b

\* A picture a task still refers to keeps its entry and its buffer, whatever
\* the parser and the display did with it since.
ReferencesStay ==
    \A t \in Sent : \A n \in 1 .. 2 :
        t.refer[n] # NoSlot =>
            slot[t.refer[n]].on_used /\ slot[t.refer[n]].buffer # NoBuf

\* The hardware writes no picture that is read, shown or referred to, and what
\* it reads is still there, while mpp_dec.cpp's threads set and clear in turn.
PicturesIntact == OutputsExclusive /\ ReferencesStay

\* The position at which a picture is due: a B picture where it is coded, a
\* reference where the next reference is coded.
NextReference(n) ==
    LET later == {m \in n + 1 .. Len(coded) : coded[m] \in {"I", "P"}}
    IN  IF later = {} THEN Len(coded) + 1
        ELSE CHOOSE m \in later : \A k \in later : m <= k
Due(n) == IF coded[n] = "B" THEN n ELSE NextReference(n)

\* Pictures are put into mFrames in display order, each at most once and only
\* when the hardware has finished it.
ShownInOrder ==
    /\ \A k \in DOMAIN shown : shown[k] \in decoded
    /\ \A k \in 1 .. Len(shown) - 1 : Due(shown[k]) < Due(shown[k + 1])

\* When a frame with the eos flag is in mFrames, every picture of the stream
\* has been put there before it (or was thrown away by a reset).
EosAfterAllFrames ==
    eosSent > 0 =>
        \A n \in DOMAIN coded : coded[n] = "N" \/ n \in dropped
                               \/ \E k \in DOMAIN shown : shown[k] = n

\* The hal thread runs the parser's flush (mpp_dec_flush) without a lock: it
\* does so only while the parser thread has no parsing in hand.
FlushWhileParserRests ==
    [][ref0' # ref0 /\ ppc' = ppc => ptodo = << >> /\ ppc \in {"top", "waithal"}]_vars

\* An end of stream reaches the application, unless it calls reset.
EosComesOut == gotEos ~> (eosSent > 0 \/ resetFlag)

\* Mpp::reset returns, without the application's help, even when the parser
\* thread waits for a buffer or for an answer to a geometry change.
ResetReturns == flushDue ~> ~flushDue
=============================================================================
