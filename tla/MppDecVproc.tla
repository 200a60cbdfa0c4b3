----------------------------- MODULE MppDecVproc -----------------------------
(***************************************************************************)
(* The decoder's post-processing: the thread of mpp_dec_vproc.cpp that     *)
(* deinterlaces pictures between the hal thread and mFrames, with those    *)
(* calls of mpp_dec.cpp that feed it, share the frame buffers with it and  *)
(* reset it.  It is the first version of the hardware (com_ctx->ver is 1,  *)
(* as on rk3399), which makes one frame from the first picture and two     *)
(* from each pair of pictures after it.                                    *)
(*                                                                         *)
(* Pictures are numbered and come to display in the order of the stream,   *)
(* one per task, and no picture is a reference: what the slots are for     *)
(* otherwise is the subject of MppDecFlow.  A time stamp counts half       *)
(* pictures, so that 2p is the time of picture p.                          *)
(***************************************************************************)
EXTENDS Integers, Sequences, FiniteSets, SequencesExt

CONSTANTS
    Slots,         \* the entries of the frame slots, searched from the first
    BufferCount,   \* the limit of the frame buffer group
    HalTasks,      \* the hal thread's task handles, 3 in fast parser mode
    VprocTasks,    \* the handles of vproc_tasks, 4 in the code
    DisplayLimit,  \* how many frames mFrames may hold before parsing, 4 in the code
    EosKinds,      \* how the stream ends: with a "picture", or "empty"
    OutputThread,  \* frames are taken by another thread than the one that resets
    MaxPics, MaxChanges, MaxResets    \* bounds: what happens how often

ASSUME VprocAssumption ==
    /\ Slots \in Nat /\ EosKinds \subseteq {"picture", "empty"} /\ OutputThread \in BOOLEAN
    /\ {BufferCount, HalTasks, VprocTasks} \subseteq Nat \ {0}
    /\ {DisplayLimit, MaxPics, MaxChanges, MaxResets} \subseteq Nat

VARIABLES
    ppc, cur,             \* the parser thread, and the task it has parsed
    ended,                \* the end of the stream is parsed
    pics, changes,        \* how many pictures and geometry changes there were
    slot, extra,          \* the slots, and the pictures whose buffer has the
                          \* reference that mpp_buffer_get has given it
    jobs, hpc, job,       \* the hal thread: its tasks, where it is, with what
    vpc, prev, got,       \* the thread: where it is, prev_idx0, new buffers
    vtasks, vreset,       \* its tasks in processing, and ctx->reset
    frames, held, shown,  \* mFrames, the frame the application has, the time
                          \* of the last one it took
    resetFlag, apc, resets

parserVars == <<ppc, cur, ended, pics, changes>>
slotVars == <<slot, extra>>
halVars == <<jobs, hpc, job>>
vprocVars == <<vpc, prev, got>>
taskVars == <<vtasks, vreset>>
userVars == <<held, shown, apc, resets>>
vars == <<parserVars, slotVars, halVars, vprocVars, taskVars, frames, userVars, resetFlag>>

\* A slot holds a picture, whether it has a buffer, and its QUEUE_USE count.
Free == [pic |-> 0, buf |-> FALSE, use |-> 0]
NoTask == [kind |-> "none", slot |-> 0]
IsPicture(t) == t.kind \in {"pic", "last"}

\* A frame in mFrames: its time, whether it says end of stream, and its buffer,
\* which is that of the picture with this number, a new one, or none.
FrameOf(pts, eos, buf) == [pts |-> pts, eos |-> eos, buf |-> buf]
NoBuf == 0
NewBuf == -1

Init ==
    /\ ppc = "parse" /\ cur = NoTask /\ ended = FALSE /\ pics = 0 /\ changes = 0
    /\ slot = [i \in 1..Slots |-> Free] /\ extra = {}
    /\ jobs = << >> /\ hpc = "rest" /\ job = NoTask
    /\ vpc = "off" /\ prev = 0 /\ got = 0
    /\ vtasks = << >> /\ vreset = FALSE
    /\ frames = << >> /\ held = << >> /\ shown = 0
    /\ resetFlag = FALSE /\ apc = "run" /\ resets = 0

\* dec->vproc is there.
On == vpc # "off"

BuffersOf(fs) == {fs[k].buf : k \in DOMAIN fs}
NewOf(fs) == Cardinality({k \in DOMAIN fs : fs[k].buf = NewBuf})

\* The buffers that nobody has a reference on.
UnusedBuffers ==
    BufferCount - got - NewOf(frames) - NewOf(held)
      - Cardinality(extra \cup {slot[i].pic : i \in {j \in 1..Slots : slot[j].buf}})

\* mpp_buf_slot_clr_flag(i, SLOT_QUEUE_USE): the last use releases the slot.
ClrUse(s, i) ==
    IF s[i].use > 1 THEN [s EXCEPT ![i].use = @ - 1] ELSE [s EXCEPT ![i] = Free]

-----------------------------------------------------------------------------
(* The parser thread, in fast mode *)

\* The hal thread gives the handle of a picture back before it outputs it, that
\* of another task after.
HandleFree ==
    Len(jobs) + (IF hpc = "rest" \/ IsPicture(job) THEN 0 ELSE 1) < HalTasks
FreeSlots == {i \in 1..Slots : slot[i] = Free}
MayParse == HandleFree /\ Len(frames) <= DisplayLimit /\ FreeSlots # {}

\* A picture is parsed into the first free slot and queued for display; with a
\* new geometry the application is asked first.  Packets come only while the
\* application does not reset.
Parse ==
    \E last, change \in BOOLEAN :
      LET i == Min(FreeSlots)
      IN  /\ ppc = "parse" /\ ~ended /\ apc = "run" /\ MayParse /\ pics < MaxPics
          /\ last => "picture" \in EosKinds
          /\ change => changes < MaxChanges
          /\ pics' = pics + 1
          /\ slot' = [slot EXCEPT ![i] = [pic |-> pics', buf |-> FALSE, use |-> 1]]
          /\ cur' = [kind |-> IF last THEN "last" ELSE "pic", slot |-> i]
          /\ changes' = changes + (IF change THEN 1 ELSE 0)
          /\ jobs' = IF change THEN Append(jobs, [kind |-> "change", slot |-> i]) ELSE jobs
          /\ ppc' = IF change THEN "change" ELSE "gate"
          /\ UNCHANGED <<ended, extra, hpc, job, vprocVars, taskVars, frames,
                         userVars, resetFlag>>

\* An empty packet with the end of the stream.
ParseEos ==
    /\ ppc = "parse" /\ ~ended /\ apc = "run" /\ HandleFree /\ "empty" \in EosKinds
    /\ ended' = TRUE
    /\ jobs' = Append(jobs, [kind |-> "eos", slot |-> 0])
    /\ UNCHANGED <<ppc, cur, pics, changes, slotVars, hpc, job, vprocVars, taskVars,
                   frames, userVars, resetFlag>>

\* With post-processing two buffers are reserved for it.
ReserveSlip == 1
Reserve == IF On THEN 3 ELSE 1

\* A pass that finds too few buffers is repeated from the start, with the tests
\* made before parsing.
Gate ==
    /\ \/ ppc = "gate"
       \/ ppc = "retry" /\ ~resetFlag /\ MayParse /\ UnusedBuffers >= Reserve
    /\ ppc' = IF UnusedBuffers >= Reserve THEN "get" ELSE "retry"
    /\ UNCHANGED <<cur, ended, pics, changes, slotVars, halVars, vprocVars, taskVars,
                   frames, userVars, resetFlag>>

\* The buffer is taken after the test, and the task goes to the hal thread.
Get ==
    /\ ppc = "get"
    /\ IF UnusedBuffers > 0
       THEN /\ slot' = [slot EXCEPT ![cur.slot].buf = TRUE]
            /\ extra' = extra \cup {slot[cur.slot].pic}
            /\ jobs' = Append(jobs, cur)
            /\ ended' = (cur.kind = "last")
            /\ cur' = NoTask /\ ppc' = "parse"
       ELSE ppc' = "retry" /\ UNCHANGED <<slot, extra, jobs, ended, cur>>
    /\ UNCHANGED <<pics, changes, hpc, job, vprocVars, taskVars, frames,
                   userVars, resetFlag>>

\* reset_parser_thread: first the hal thread, then the post-processing, then
\* what was parsed and not sent.
ResetHal ==
    /\ resetFlag /\ ppc \in {"parse", "retry", "change"}
    /\ ppc' = "hal"
    /\ UNCHANGED <<cur, ended, pics, changes, slotVars, halVars, vprocVars, taskVars,
                   frames, userVars, resetFlag>>

ResetVproc ==
    /\ ppc = "hal" /\ jobs = << >> /\ hpc = "rest"
    /\ ppc' = IF On THEN "vproc" ELSE "done"
    /\ vreset' = On
    /\ vpc' = IF vpc = "asleep" THEN "test" ELSE vpc
    /\ UNCHANGED <<cur, ended, pics, changes, slotVars, halVars, prev, got, vtasks,
                   frames, userVars, resetFlag>>

\* The picture that was not sent has no buffer yet.
ResetDone ==
    /\ ppc = "done"
    /\ slot' = IF cur = NoTask THEN slot ELSE ClrUse(slot, cur.slot)
    /\ cur' = NoTask /\ ppc' = "parse" /\ ended' = FALSE
    /\ resetFlag' = FALSE
    /\ apc' = "flush"
    /\ UNCHANGED <<pics, changes, extra, halVars, vprocVars, taskVars, frames,
                   held, shown, resets>>

-----------------------------------------------------------------------------
(* The hal thread *)

HalTake ==
    /\ hpc = "rest" /\ jobs # << >>
    /\ job' = Head(jobs) /\ jobs' = Tail(jobs)
    /\ hpc' = "put"
    /\ UNCHANGED <<parserVars, slotVars, vprocVars, taskVars, frames, userVars, resetFlag>>

\* A geometry change and an end of stream without a picture go out as a frame
\* without a buffer.
SignOf(t) ==
    IF t.kind = "eos" THEN FrameOf(2 * pics + 1, TRUE, NoBuf)
    ELSE FrameOf(2 * slot[t.slot].pic - 1, FALSE, NoBuf)

\* Without post-processing the frame goes to mFrames with the buffer's reference.
HalDirect ==
    LET p == slot[job.slot].pic
    IN  /\ hpc = "put" /\ ~On
        /\ frames' = Append(frames, IF IsPicture(job)
                                    THEN FrameOf(2 * p, job.kind = "last", p)
                                    ELSE SignOf(job))
        /\ hpc' = IF IsPicture(job) THEN "clr" ELSE "rest"
        /\ UNCHANGED <<parserVars, slotVars, jobs, job, vprocVars, taskVars,
                       userVars, resetFlag>>

\* The first interlaced picture, or its geometry change, starts the thread.
HalStart ==
    /\ hpc = "put" /\ ~On /\ job.kind # "eos"
    /\ vpc' = "test"
    /\ UNCHANGED <<parserVars, slotVars, halVars, prev, got, taskVars, frames,
                   userVars, resetFlag>>

\* mpp_dec_put_frame waits for a handle, gives the slot a second use and sends
\* the task.
QueuedSlip(s, i) == s
Queued(s, i) == [s EXCEPT ![i].use = @ + 1]

HalPut ==
    /\ hpc = "put" /\ On /\ job.kind # "eos" /\ Len(vtasks) < VprocTasks
    /\ slot' = IF IsPicture(job) THEN Queued(slot, job.slot) ELSE slot
    /\ vtasks' = Append(vtasks, job)
    /\ hpc' = "signal"
    /\ UNCHANGED <<parserVars, extra, jobs, job, vprocVars, vreset, frames,
                   userVars, resetFlag>>

\* For the end of the stream it does not wait: without a handle nothing is sent.
HalPutEos ==
    /\ hpc = "put" /\ On /\ job.kind = "eos"
    /\ vtasks' = IF Len(vtasks) < VprocTasks THEN Append(vtasks, job) ELSE vtasks
    /\ hpc' = "signal"
    /\ UNCHANGED <<parserVars, slotVars, jobs, job, vprocVars, vreset, frames,
                   userVars, resetFlag>>

HalSignal ==
    /\ hpc = "signal"
    /\ vpc' = IF vpc = "asleep" THEN "test" ELSE vpc
    /\ hpc' = IF IsPicture(job) THEN "clr" ELSE "rest"
    /\ UNCHANGED <<parserVars, slotVars, jobs, job, prev, got, taskVars, frames,
                   userVars, resetFlag>>

\* mpp_dec_push_display gives back the use of the display queue.
HalClr ==
    /\ hpc = "clr"
    /\ slot' = ClrUse(slot, job.slot)
    /\ hpc' = "rest"
    /\ UNCHANGED <<parserVars, extra, jobs, job, vprocVars, taskVars, frames,
                   userVars, resetFlag>>

-----------------------------------------------------------------------------
(* The post-processing thread *)

\* dec_vproc_clr_prev0: the buffer of the slot's frame is put, and the slot
\* loses its use.
ClrPrev ==
    IF prev = 0 THEN UNCHANGED slotVars
    ELSE extra' = extra \ {slot[prev].pic} /\ slot' = ClrUse(slot, prev)

\* Under the thread's lock: tasks come first, then a reset, then sleep.
SleepsSlip == vtasks = << >>
Sleeps == vtasks = << >> /\ ~vreset

Work ==
    /\ vpc = "test" /\ vtasks # << >>
    /\ vpc' = "work"
    /\ UNCHANGED <<parserVars, slotVars, halVars, prev, got, taskVars, frames,
                   userVars, resetFlag>>

Sleep ==
    /\ vpc = "test" /\ Sleeps
    /\ vpc' = "asleep"
    /\ UNCHANGED <<parserVars, slotVars, halVars, prev, got, taskVars, frames,
                   userVars, resetFlag>>

Spurious ==
    /\ vpc = "asleep" /\ vpc' = "test"
    /\ UNCHANGED <<parserVars, slotVars, halVars, prev, got, taskVars, frames,
                   userVars, resetFlag>>

\* The window is emptied and the parser thread goes on.
VprocReset ==
    /\ vpc = "test" /\ vtasks = << >> /\ ~Sleeps
    /\ ClrPrev /\ prev' = 0
    /\ vreset' = FALSE
    /\ ppc' = "done"
    /\ UNCHANGED <<cur, ended, pics, changes, halVars, vpc, got, vtasks, frames,
                   userVars, resetFlag>>

\* An end of stream without a picture, or a geometry change, is passed on and
\* then the window is emptied.
PassOn ==
    /\ vpc = "work" /\ ~IsPicture(Head(vtasks))
    /\ frames' = Append(frames, SignOf(Head(vtasks)))
    /\ vpc' = "clear"
    /\ UNCHANGED <<parserVars, slotVars, halVars, prev, got, taskVars, userVars, resetFlag>>

\* A picture is dropped if a reset is under way.
TakePicture ==
    /\ vpc = "work" /\ IsPicture(Head(vtasks))
    /\ vpc' = IF resetFlag THEN "shift" ELSE "buffer"
    /\ UNCHANGED <<parserVars, slotVars, halVars, prev, got, taskVars, frames,
                   userVars, resetFlag>>

\* dec_vproc_get_buffer waits until the group has a buffer, whatever happens.
Needed == IF prev = 0 THEN 1 ELSE 2

GetBuffer ==
    /\ vpc = "buffer" /\ got < Needed /\ UnusedBuffers > 0
    /\ got' = got + 1
    /\ UNCHANGED <<parserVars, slotVars, halVars, vpc, prev, taskVars, frames,
                   userVars, resetFlag>>

\* dec_vproc_set_dei_v1, when the hardware is done: each new frame is a copy of
\* the current picture's frame, the first of two with the time between both.
Deinterlace ==
    LET t == Head(vtasks)
        p == slot[t.slot].pic
        half == got = 2
    IN  /\ \/ vpc = "buffer" /\ got = Needed
           \/ vpc = "second"
        /\ frames' = Append(frames, FrameOf(IF half THEN p + slot[prev].pic ELSE 2 * p,
                                            t.kind = "last", NewBuf))
        /\ got' = got - 1
        /\ vpc' = IF half THEN "second" ELSE "shift"
        /\ UNCHANGED <<parserVars, slotVars, halVars, prev, taskVars, userVars, resetFlag>>

\* The picture takes the place of the last one, and with the end of the stream
\* the window is emptied.
Shift ==
    LET t == Head(vtasks)
    IN  /\ vpc = "shift"
        /\ ClrPrev /\ prev' = t.slot
        /\ vpc' = IF t.kind = "last" THEN "clear" ELSE "idle"
        /\ UNCHANGED <<parserVars, halVars, got, taskVars, frames, userVars, resetFlag>>

EmptiedSlip == prev
Emptied == 0

Clear ==
    /\ vpc = "clear"
    /\ IF Emptied = 0 THEN ClrPrev ELSE UNCHANGED slotVars
    /\ prev' = Emptied
    /\ vpc' = "idle"
    /\ UNCHANGED <<parserVars, halVars, got, taskVars, frames, userVars, resetFlag>>

Idle ==
    /\ vpc = "idle"
    /\ vtasks' = Tail(vtasks)
    /\ vpc' = "test"
    /\ UNCHANGED <<parserVars, slotVars, halVars, prev, got, vreset, frames,
                   userVars, resetFlag>>

-----------------------------------------------------------------------------
(* The application *)

TakeFrame ==
    /\ frames # << >> /\ held = << >> /\ (apc = "run" \/ OutputThread)
    /\ held' = << Head(frames) >> /\ frames' = Tail(frames)
    /\ shown' = Head(frames).pts
    /\ UNCHANGED <<parserVars, slotVars, halVars, vprocVars, taskVars, apc, resets,
                   resetFlag>>

\* A frame that is given back gives its buffer back; a geometry change is
\* accepted.
ReleaseFrame ==
    /\ held # << >>
    /\ held' = << >>
    /\ extra' = extra \ BuffersOf(held)
    /\ ppc' = IF ppc = "change" /\ held[1] = FrameOf(2 * pics - 1, FALSE, NoBuf)
              THEN "retry" ELSE ppc
    /\ UNCHANGED <<cur, ended, pics, changes, slot, halVars, vprocVars, taskVars,
                   frames, shown, apc, resets, resetFlag>>

UserReset ==
    /\ apc = "run" /\ resets < MaxResets
    /\ resets' = resets + 1
    /\ resetFlag' = TRUE
    /\ apc' = "reset"
    /\ UNCHANGED <<parserVars, slotVars, halVars, vprocVars, taskVars, frames,
                   held, shown>>

\* Mpp::reset flushes mFrames when the decoder is done.
UserFlush ==
    /\ apc = "flush"
    /\ frames' = << >>
    /\ extra' = extra \ BuffersOf(frames)
    /\ shown' = 2 * pics
    /\ apc' = "run"
    /\ UNCHANGED <<parserVars, slot, halVars, vprocVars, taskVars, held, resets,
                   resetFlag>>

-----------------------------------------------------------------------------
ParserStep == Gate \/ Get \/ ResetHal \/ ResetVproc \/ ResetDone
HalStep == HalTake \/ HalDirect \/ HalStart \/ HalPut \/ HalPutEos \/ HalSignal \/ HalClr
VprocStep ==
    \/ Work \/ Sleep \/ VprocReset \/ PassOn \/ TakePicture \/ GetBuffer
    \/ Deinterlace \/ Shift \/ Clear \/ Idle

Next ==
    \/ Parse \/ ParseEos \/ ParserStep \/ HalStep \/ VprocStep \/ Spurious
    \/ TakeFrame \/ ReleaseFrame \/ UserReset \/ UserFlush

Spec == Init /\ [][Next]_vars

\* The library's threads run, and the application takes frames and gives them
\* back; it need not go on feeding the parser.
Fairness ==
    /\ WF_vars(ParserStep) /\ WF_vars(HalStep) /\ WF_vars(VprocStep)
    /\ WF_vars(TakeFrame) /\ WF_vars(ReleaseFrame) /\ WF_vars(UserFlush)

FairSpec == Spec /\ Fairness

-----------------------------------------------------------------------------
(* Properties *)

\* Who has a use of slot i: the decoder from parsing until push_display has
\* cleared it, a task of the thread until it is shifted, and the window.
Unsent(i) ==
    \/ cur.slot = i
    \/ \E k \in DOMAIN jobs : IsPicture(jobs[k]) /\ jobs[k].slot = i
    \/ hpc = "put" /\ IsPicture(job) /\ job.slot = i
Sent(i) == hpc \in {"signal", "clr"} /\ IsPicture(job) /\ job.slot = i
Waiting(i) ==
    \E k \in DOMAIN vtasks :
      /\ IsPicture(vtasks[k]) /\ vtasks[k].slot = i
      /\ k = 1 => vpc \notin {"clear", "idle"}
OwnsBuffer(i) == slot[i].buf /\ (Unsent(i) \/ Waiting(i) \/ prev = i)

\* The uses of a slot are those of the hal thread, of the tasks and of the
\* window, and the reference of mpp_buffer_get is with the slot until the
\* window lets it go, or with the frame the application gets: three threads
\* give them back, without a common lock.
UsesExact ==
    /\ \A i \in 1..Slots :
         /\ slot[i] = Free <=> slot[i].use = 0
         /\ slot[i].use = Cardinality({x \in {1, 2, 3} :
                            \/ x = 1 /\ (Unsent(i) \/ Sent(i))
                            \/ x = 2 /\ Waiting(i)
                            \/ x = 3 /\ prev = i})
    /\ extra = ((BuffersOf(frames) \cup BuffersOf(held)) \ {NoBuf, NewBuf})
                 \cup {slot[i].pic : i \in {j \in 1..Slots : OwnsBuffer(j)}}
    /\ UnusedBuffers >= 0

\* While no reset is under way the frames come in the order of their times with
\* none missing: no picture is lost, repeated or overtaken, none is mixed with
\* one from before a geometry change, an end of stream or a reset, and behind an
\* end of stream comes at most the second frame of its pair.
FramesInOrder ==
    apc = "run" =>
      LET times == << shown >> \o [k \in DOMAIN frames |-> frames[k].pts]
      IN  /\ \A k \in DOMAIN frames : times[k + 1] - times[k] \in {1, 2}
          /\ \A k \in 1..(Len(frames) - 1) :
               frames[k].eos => /\ frames[k + 1].eos /\ k + 1 = Len(frames)
                                /\ frames[k + 1].pts = frames[k].pts + 1

\* No task and no reset is left to a thread that sleeps, unless the signal is on
\* its way; and the reset that returns leaves no task, no window and no
\* buffer behind.
NothingLeftBehind ==
    /\ vpc = "asleep" /\ (vtasks # << >> \/ vreset) => hpc = "signal"
    /\ apc = "flush" => /\ cur = NoTask /\ jobs = << >> /\ hpc = "rest"
                        /\ vtasks = << >> /\ ~vreset /\ prev = 0 /\ got = 0

\* Each picture that is parsed comes out, or a reset that drops it ends: the
\* threads never wait for each other's buffers forever.  As MaxPics bounds the
\* stream and frames come in order, it is enough that again and again the last
\* picture is out.
PicturesComeOut == []<>(shown >= 2 * pics)

\* "push the eos frame to info that all frames have decoded" (mpp_dec.cpp:1243):
\* a stream that ends without a picture gives the application a frame that says
\* so, behind the last one, unless a reset starts it again.
EosComesOut == ended ~> ~ended \/ shown > 2 * pics
=============================================================================
