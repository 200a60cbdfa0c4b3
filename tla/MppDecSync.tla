----------------------------- MODULE MppDecSync -----------------------------
(***************************************************************************)
(* How the threads of the decoder sleep and wake: the parser thread and    *)
(* the hal thread of mpp/codec/mpp_dec.cpp, and application threads that   *)
(* put packets, get frames, give buffers back, accept geometry changes,    *)
(* reset and stop the decoder (mpp/mpp.cpp).                               *)
(*                                                                         *)
(* The parser thread tests one condition after another without a common    *)
(* lock, notes the first that fails in task->wait, and sleeps unless a     *)
(* notification for one of its wait bits has come in meanwhile.  What the  *)
(* pictures are is the subject of MppDecFlow; here they, and the slots of  *)
(* the frame table they take, are counted.                                 *)
(***************************************************************************)
EXTENDS Integers, Sequences, FiniteSets

CONSTANTS
    Callers,       \* application threads
    Jobs,          \* Jobs[c]: the calls thread c makes
    HalTasks,      \* status->hal_task_count
    FastMode,      \* parser_fast_mode
    WaitDone,      \* the hal may set flags.wait_done (VP9)
    BufferCount,   \* buffers of the frame group
    PortLimit,     \* packets the input port holds
    DisplayLimit,  \* frames in mFrames that stop the parser (4 in the code)
    SlotCount,     \* slots of the frame table
    References,    \* pictures decoded that may keep their slot
    MaxPuts, MaxInfos, MaxResets, MaxCommands
                   \* bounds: packets, geometry changes, resets, commands

JobKinds == {"put", "get", "release", "command", "reset", "stop"}

ASSUME SyncAssumption ==
    /\ IsFiniteSet(Callers) /\ "nobody" \notin Callers
    /\ Jobs \in [Callers -> SUBSET JobKinds]
    /\ {HalTasks, BufferCount, PortLimit, SlotCount} \subseteq Nat \ {0}
    /\ {DisplayLimit, References} \subseteq Nat
    /\ {MaxPuts, MaxInfos, MaxResets, MaxCommands} \subseteq Nat
    /\ {FastMode, WaitDone} \subseteq BOOLEAN

\* PaserTaskWait and the MPP_DEC_NOTIFY_ flags of the same values.
Bits ==
    {"dec_pkt_in", "dis_que_full", "info_change", "dec_pic_unusd",
     "dec_all_done", "task_hnd", "prev_task", "dec_pic_match", "dec_slot_idx"}
Control == "control"           \* MPP_DEC_CONTROL
AllFlags == Bits \cup {Control} \* MPP_DEC_RESET, 0xFFFFFFFF

VARIABLES
    ppc,          \* parser thread: place in its loop
    st,           \* parser thread: task->hnd and task->status
    wait,         \* parser thread: task->wait
    notifyFlag,   \* parser_notify_flag
    waitFlag,     \* parser_wait_flag
    hpc,          \* hal thread: place in its loop
    hal,          \* hal thread: the task it works on
    procQ,        \* hal tasks in TASK_PROCESSING, oldest first
    procDone,     \* number of hal tasks in TASK_PROC_DONE
    resetFlag,    \* reset_flag
    halPost,      \* hal_reset_post - hal_reset_done
    sems,         \* the semaphores
    cmd, cmdSend, cmdRecv,   \* cmd ("ready", "command"), cmd_send, cmd_recv
    infoChanged,  \* the frame slots wait for a geometry to be accepted
    packets,      \* packets in the input port
    unused,       \* buffers of the frame group nobody uses
    frames,       \* mFrames
    held,         \* frames with the application
    slots,        \* slots of decoded pictures: kept by the parser, or lost
    call,         \* call[c]: the call thread c is in, and its next step
    cmdLock,      \* the thread that holds cmd_lock, or nobody
    stopped,      \* MPP_THREAD_STOPPING was set for the threads
    left          \* bound: what may still come

parserVars == <<ppc, st, wait>>
flagVars == <<notifyFlag, waitFlag>>
halVars == <<hpc, hal, procQ, procDone>>
ctrlVars == <<resetFlag, halPost, sems, cmd, cmdSend, cmdRecv, infoChanged>>
dataVars == <<packets, unused, frames, held, slots>>
callVars == <<call, cmdLock, stopped, left>>
vars == <<parserVars, flagVars, halVars, ctrlVars, dataVars, callVars>>

NoTask ==
    [hnd |-> FALSE, curr |-> FALSE, parsed |-> FALSE, prevRdy |-> TRUE,
     infoGen |-> FALSE]
Nobody == "nobody"
Semaphores == {"hal_reset", "parser_reset", "cmd_start", "cmd_done"}
Idle == [job |-> "none", step |-> 0]

Init ==
    /\ ppc = "check" /\ st = NoTask /\ wait = {}
    /\ notifyFlag = {} /\ waitFlag = {}
    /\ hpc = "loop" /\ hal = "none" /\ procQ = << >> /\ procDone = 0
    /\ resetFlag = FALSE /\ halPost = 0
    /\ sems = [s \in Semaphores |-> 0]
    /\ cmd = "none" /\ cmdSend = 0 /\ cmdRecv = 0 /\ infoChanged = FALSE
    /\ packets = 0 /\ unused = BufferCount /\ frames = << >> /\ held = 0
    /\ slots = [kept |-> 0, lost |-> 0]
    /\ call = [c \in Callers |-> Idle] /\ cmdLock = Nobody
    /\ stopped = {}
    /\ left = [puts |-> MaxPuts, infos |-> MaxInfos,
                resets |-> MaxResets, commands |-> MaxCommands]

Pictures(fs) == Cardinality({i \in DOMAIN fs : fs[i] = "frame"})

Post(s) == sems' = [sems EXCEPT ![s] = @ + 1]
Take(s) == sems[s] > 0 /\ sems' = [sems EXCEPT ![s] = @ - 1]

-----------------------------------------------------------------------------
(* Notifications. *)

\* mpp_dec_notify: the flags are added, and the parser thread is signalled
\* when one of them is new and it waits for one of them.
ToldSlip(flags) == notifyFlag \cap waitFlag # {}
Told(flags) ==
    \/ flags = {Control}
    \/ /\ ~(flags \subseteq notifyFlag)
       /\ (notifyFlag \cup flags) \cap waitFlag # {}

Notify(flags) ==
    /\ notifyFlag' = notifyFlag \cup flags
    /\ ppc' = IF ppc = "asleep" /\ Told(flags) THEN "cmd" ELSE ppc
    /\ UNCHANGED <<st, wait, waitFlag>>

\* Mpp::notify(MppBufferGroup), which the group calls for each buffer it
\* gets back.
BufferBack == {"dec_pic_unusd", "dec_pic_match"}

-----------------------------------------------------------------------------
(* Parser thread. *)

GoTo(pc) == ppc' = pc
Passed(bit) == wait' = wait \ {bit}
Blocked(bit) == wait' = wait \cup {bit} /\ GoTo("check")

\* check_task_wait, and the test of the thread's status before it.
StaysUpSlip == resetFlag \/ Control \in notifyFlag \/ wait = {}
StaysUp ==
    \/ resetFlag \/ Control \in notifyFlag
    \/ wait = {} \/ wait \cap notifyFlag # {}
CheckWait ==
    /\ ppc = "check"
    /\ waitFlag' = wait /\ notifyFlag' = {}
    /\ GoTo(IF "parser" \in stopped THEN "exit"
            ELSE IF StaysUp THEN "cmd" ELSE "asleep")
    /\ UNCHANGED <<st, wait, halVars, ctrlVars, dataVars, callVars>>

\* pthread_cond_wait may return without a signal.
ParserSpurious ==
    /\ ppc = "asleep"
    /\ GoTo("cmd")
    /\ UNCHANGED <<st, wait, flagVars, halVars, ctrlVars, dataVars, callVars>>

\* A control command, if there is one.  MPP_DEC_SET_INFO_CHANGE_READY accepts
\* a geometry change, the others do not change how the threads go on.
ProcControl ==
    /\ ppc = "cmd" /\ cmdSend # cmdRecv
    /\ sems["cmd_start"] > 0
    /\ sems' = [sems EXCEPT !["cmd_start"] = @ - 1, !["cmd_done"] = @ + 1]
    /\ infoChanged' = (infoChanged /\ cmd # "ready")
    /\ cmd' = "none" /\ cmdRecv' = cmdRecv + 1
    /\ GoTo("check")
    /\ UNCHANGED <<st, wait, flagVars, halVars, resetFlag, halPost, cmdSend,
                   dataVars, callVars>>

NoControl ==
    /\ ppc = "cmd" /\ cmdSend = cmdRecv
    /\ GoTo(IF resetFlag THEN "reset" ELSE "hnd")
    /\ UNCHANGED <<st, wait, flagVars, halVars, ctrlVars, dataVars, callVars>>

\* reset_parser_thread: the port is emptied, the hal thread is asked.
HalWoken == IF hpc = "asleep" THEN "loop" ELSE hpc
ResetPost ==
    /\ ppc = "reset"
    /\ packets' = 0
    /\ halPost' = halPost + 1
    /\ hpc' = HalWoken
    /\ GoTo("waithal")
    /\ UNCHANGED <<st, wait, flagVars, hal, procQ, procDone, resetFlag, sems,
                   cmd, cmdSend, cmdRecv, infoChanged, unused, frames, held,
                   slots, callVars>>

\* The parser gives up its references and its picture; the slot of a picture
\* whose geometry was waited for is cleared without being counted as unused.
ResetParser ==
    /\ ppc = "waithal" /\ Take("hal_reset")
    /\ slots' = [kept |-> 0,
                 lost |-> slots.lost + (IF "info_change" \in wait THEN 1 ELSE 0)]
    /\ st' = NoTask /\ wait' = {} /\ waitFlag' = {}
    /\ GoTo("resetdone")
    /\ UNCHANGED <<notifyFlag, halVars, resetFlag, halPost, cmd, cmdSend,
                   cmdRecv, infoChanged, packets, unused, frames, held,
                   callVars>>

\* Under THREAD_CONTROL, which Mpp::reset holds from setting the flag to the
\* end of its notification.
ResetDone ==
    /\ ppc = "resetdone"
    /\ \A c \in Callers : call[c] # [job |-> "reset", step |-> 1]
    /\ resetFlag' = FALSE /\ Post("parser_reset")
    /\ GoTo("check")
    /\ UNCHANGED <<st, wait, flagVars, halVars, halPost, cmd, cmdSend, cmdRecv,
                   infoChanged, dataVars, callVars>>

\* try_proc_dec_task, one test after the other; a test that is skipped, or
\* that only reads what the parser thread alone changes, is no step.
AfterPrev == IF "dec_all_done" \in wait THEN "all" ELSE "full"
AfterPacket == IF FastMode \/ st.prevRdy THEN AfterPrev ELSE "prev"
AfterHnd == IF st.curr THEN AfterPacket ELSE "pkt"

IdleTasks == HalTasks - Len(procQ) - procDone

GetHnd ==
    /\ ppc = "hnd"
    /\ \/ /\ st.hnd \/ IdleTasks > 0
          /\ st' = [st EXCEPT !.hnd = TRUE]
          /\ Passed("task_hnd") /\ GoTo(AfterHnd)
       \/ ~st.hnd /\ IdleTasks = 0 /\ Blocked("task_hnd") /\ UNCHANGED st
    /\ UNCHANGED <<flagVars, halVars, ctrlVars, dataVars, callVars>>

GetPacket ==
    /\ ppc = "pkt"
    /\ \/ /\ packets > 0
          /\ packets' = packets - 1
          /\ st' = [st EXCEPT !.curr = TRUE]
          /\ Passed("dec_pkt_in") /\ GoTo(AfterPacket)
       \/ packets = 0 /\ Blocked("dec_pkt_in") /\ UNCHANGED <<st, packets>>
    /\ UNCHANGED <<flagVars, halVars, ctrlVars, unused, frames, held, slots,
                   callVars>>

\* 7.1 without fast mode the previous task has to be processed; it is made
\* idle.
CheckPrev ==
    /\ ppc = "prev"
    /\ \/ /\ procDone > 0
          /\ procDone' = procDone - 1
          /\ st' = [st EXCEPT !.prevRdy = TRUE]
          /\ Passed("prev_task") /\ GoTo(AfterPrev)
       \/ procDone = 0 /\ Blocked("prev_task") /\ UNCHANGED <<st, procDone>>
    /\ UNCHANGED <<flagVars, hpc, hal, procQ, ctrlVars, dataVars, callVars>>

\* A task with wait_done lets no other one start before all are processed.
CheckAllDone ==
    /\ ppc = "all"
    /\ IF procQ # << >> THEN Blocked("dec_all_done")
       ELSE Passed("dec_all_done") /\ GoTo("full")
    /\ UNCHANGED <<st, flagVars, halVars, ctrlVars, dataVars, callVars>>

\* 7.2 mFrames is not too long.
CheckFrames ==
    /\ ppc = "full"
    /\ IF Len(frames) > DisplayLimit THEN Blocked("dis_que_full")
       ELSE Passed("dis_que_full") /\ GoTo("slot")
    /\ UNCHANGED <<st, flagVars, halVars, ctrlVars, dataVars, callVars>>

\* used_count of the frame slots: a slot for each picture between the parser
\* and mFrames, and for those the parser keeps for reference or later display.
InFlight ==
    Pictures(procQ) + (IF hpc = "output" /\ hal = "frame" THEN 1 ELSE 0)
                    + (IF st.parsed THEN 1 ELSE 0)
UsedSlots == InFlight + slots.kept + slots.lost

\* 7.3 a slot is unused, tested also when the picture has its slot already.
CheckSlots ==
    /\ ppc = "slot"
    /\ IF UsedSlots >= SlotCount THEN Blocked("dec_slot_idx")
       ELSE /\ Passed("dec_slot_idx")
            /\ GoTo(IF st.parsed THEN "info" ELSE "parse")
    /\ UNCHANGED <<st, flagVars, halVars, ctrlVars, dataVars, callVars>>

\* Slots kept before, and n more, may be given up.
Keep(n) == \E k \in 0 .. References :
    k <= slots.kept + n /\ slots' = [slots EXCEPT !.kept = k]

\* 8 the packet holds a picture, which may have a new geometry.
ParsePicture ==
    /\ ppc = "parse"
    /\ \/ UNCHANGED <<infoChanged, left>>
       \/ /\ left.infos > 0
          /\ infoChanged' = TRUE
          /\ left' = [left EXCEPT !.infos = @ - 1]
    /\ st' = [st EXCEPT !.parsed = TRUE]
    /\ Keep(0)
    /\ GoTo(IF infoChanged' THEN "info" ELSE "buffer")
    /\ UNCHANGED <<wait, flagVars, halVars, resetFlag, halPost, sems, cmd,
                   cmdSend, cmdRecv, packets, unused, frames, held, call,
                   cmdLock, stopped>>

\* mpp_dec_put_task, under the hal thread's lock.
PutTask(kind) ==
    /\ procQ' = Append(procQ, kind)
    /\ hpc' = HalWoken
    /\ UNCHANGED <<hal, procDone>>

\* A packet without a picture gives its task back, or sends it on with the
\* end of stream.
ParseNothing ==
    /\ ppc = "parse"
    /\ PutTask("eos") \/ UNCHANGED halVars
    /\ st' = [st EXCEPT !.hnd = FALSE, !.curr = FALSE]
    /\ Keep(0)
    /\ GoTo("check")
    /\ UNCHANGED <<wait, flagVars, ctrlVars, packets, unused, frames, held,
                   callVars>>

\* 9 a geometry change goes to the application once, and is then waited for.
CheckInfo ==
    /\ ppc = "info"
    /\ \/ /\ infoChanged /\ ~st.infoGen
          /\ PutTask("info")
          /\ st' = [st EXCEPT !.infoGen = TRUE, !.hnd = FALSE]
          /\ GoTo("check") /\ UNCHANGED wait
       \/ infoChanged /\ st.infoGen /\ Blocked("info_change")
          /\ UNCHANGED <<st, halVars>>
       \/ /\ ~infoChanged
          /\ st' = [st EXCEPT !.infoGen = FALSE]
          /\ Passed("info_change") /\ GoTo("buffer") /\ UNCHANGED halVars
    /\ UNCHANGED <<flagVars, ctrlVars, dataVars, callVars>>

\* 10 and 11 a buffer for the picture.
GetBuffer ==
    /\ ppc = "buffer"
    /\ IF unused = 0 THEN Blocked("dec_pic_unusd") /\ UNCHANGED unused
       ELSE Passed("dec_pic_unusd") /\ GoTo("submit") /\ unused' = unused - 1
    /\ UNCHANGED <<st, flagVars, halVars, ctrlVars, packets, frames, held,
                   slots, callVars>>

\* 12 the task goes to the hal thread.
Submit ==
    /\ ppc = "submit"
    /\ PutTask("frame")
    /\ st' = [NoTask EXCEPT !.prevRdy = FALSE]
    /\ \/ FastMode /\ WaitDone /\ wait' = wait \cup {"dec_all_done"}
       \/ wait' = wait \ {"dec_all_done"}
    /\ GoTo("check")
    /\ UNCHANGED <<flagVars, ctrlVars, dataVars, callVars>>

-----------------------------------------------------------------------------
(* Hal thread. *)

\* The top of its loop, under its lock: it stops, takes a task, does a reset
\* that was asked for, or says that all tasks are done and sleeps.
HalExit ==
    /\ hpc = "loop" /\ "hal" \in stopped
    /\ hpc' = "exit"
    /\ UNCHANGED <<parserVars, flagVars, hal, procQ, procDone, ctrlVars,
                   dataVars, callVars>>

HalTake ==
    /\ hpc = "loop" /\ "hal" \notin stopped /\ procQ # << >>
    /\ hal' = Head(procQ)
    /\ hpc' = IF Head(procQ) = "frame" THEN "status" ELSE "output"
    /\ UNCHANGED <<parserVars, flagVars, procQ, procDone, ctrlVars, dataVars,
                   callVars>>

ResetTurnSlip == halPost > 0
ResetTurn == procQ = << >> /\ halPost > 0
HalReset ==
    /\ hpc = "loop" /\ "hal" \notin stopped /\ ResetTurn
    /\ procDone' = 0
    /\ halPost' = halPost - 1 /\ Post("hal_reset")
    /\ UNCHANGED <<parserVars, flagVars, hpc, hal, procQ, resetFlag, cmd,
                   cmdSend, cmdRecv, infoChanged, dataVars, callVars>>

HalSleep ==
    /\ hpc = "loop" /\ "hal" \notin stopped /\ procQ = << >> /\ halPost = 0
    /\ Notify({"dec_all_done"})
    /\ hpc' = "asleep"
    /\ UNCHANGED <<hal, procQ, procDone, ctrlVars, dataVars, callVars>>

HalSpurious ==
    /\ hpc = "asleep"
    /\ hpc' = "loop"
    /\ UNCHANGED <<parserVars, flagVars, hal, procQ, procDone, ctrlVars,
                   dataVars, callVars>>

\* The hardware is done: the task leaves TASK_PROCESSING, then its frame is
\* put into mFrames; without a picture it is the other way round.
SetStatus ==
    /\ procQ' = Tail(procQ)
    /\ procDone' = IF hal = "frame" /\ ~FastMode THEN procDone + 1 ELSE procDone

HalStatus ==
    /\ hpc = "status"
    /\ SetStatus
    /\ hpc' = IF hal = "frame" THEN "output" ELSE "notify"
    /\ UNCHANGED <<parserVars, flagVars, hal, ctrlVars, dataVars, callVars>>

\* mFrames is locked while an application thread is in get_frame, and while
\* the buffers of the flushed frames go back to their group.
FramesFree ==
    \A c \in Callers :
        /\ call[c].job \notin {"get", "getinfo"}
        /\ call[c] # [job |-> "reset", step |-> 4]
\* A picture gives its slot back, unless it is a reference or shown later.
HalOutput ==
    /\ hpc = "output" /\ FramesFree
    /\ frames' = Append(frames, hal)
    /\ Keep(IF hal = "frame" THEN 1 ELSE 0)
    /\ hpc' = IF hal = "frame" THEN "notify" ELSE "status"
    /\ UNCHANGED <<parserVars, flagVars, hal, procQ, procDone, ctrlVars,
                   packets, unused, held, callVars>>

HalFlags == IF hal = "frame" /\ ~FastMode THEN {"task_hnd", "prev_task"}
            ELSE {"task_hnd"}
HalNotify ==
    /\ hpc = "notify"
    /\ Notify(HalFlags)
    /\ hal' = "none"
    /\ hpc' = "loop"
    /\ UNCHANGED <<procQ, procDone, ctrlVars, dataVars, callVars>>

-----------------------------------------------------------------------------
(* Application threads: step 0 begins a call, the others follow in order. *)

Begin(c, job) == call[c] = Idle /\ job \in Jobs[c] /\ stopped = {}
At(c, job, n) == call[c] = [job |-> job, step |-> n]
Step(c, job, n) == call' = [call EXCEPT ![c] = [job |-> job, step |-> n]]
Return(c) == call' = [call EXCEPT ![c] = Idle]

\* Mpp::put_packet.
Put(c) ==
    /\ Begin(c, "put") /\ packets < PortLimit /\ left.puts > 0
    /\ packets' = packets + 1
    /\ left' = [left EXCEPT !.puts = @ - 1]
    /\ Step(c, "put", 1)
    /\ UNCHANGED <<parserVars, flagVars, halVars, ctrlVars, unused, frames,
                   held, slots, cmdLock, stopped>>

PutNotify(c) ==
    /\ At(c, "put", 1)
    /\ Notify({"dec_pkt_in"})
    /\ Return(c)
    /\ UNCHANGED <<halVars, ctrlVars, dataVars, cmdLock, stopped, left>>

\* Mpp::get_frame that finds a frame, under the lock of mFrames.
Get(c) ==
    /\ Begin(c, "get") /\ frames # << >> /\ FramesFree
    /\ frames' = Tail(frames)
    /\ \/ Head(frames) = "frame" /\ held' = held + 1 /\ Step(c, "get", 1)
       \/ Head(frames) = "eos" /\ UNCHANGED held /\ Step(c, "get", 1)
       \/ Head(frames) = "info" /\ UNCHANGED held /\ Step(c, "getinfo", 1)
    /\ UNCHANGED <<parserVars, flagVars, halVars, ctrlVars, packets, unused,
                   slots, cmdLock, stopped, left>>

\* A geometry change is answered by the thread that got it.
GetNotify(c) ==
    /\ At(c, "get", 1) \/ At(c, "getinfo", 1)
    /\ Notify({"dis_que_full"})
    /\ IF At(c, "getinfo", 1) THEN Step(c, "ready", 0) ELSE Return(c)
    /\ UNCHANGED <<halVars, ctrlVars, dataVars, cmdLock, stopped, left>>

\* mpp_frame_deinit, which gives the buffer back to its group.
Release(c) ==
    /\ Begin(c, "release") /\ held > 0
    /\ held' = held - 1 /\ unused' = unused + 1
    /\ Step(c, "release", 1)
    /\ UNCHANGED <<parserVars, flagVars, halVars, ctrlVars, packets, frames,
                   slots, cmdLock, stopped, left>>

ReleaseNotify(c) ==
    /\ At(c, "release", 1)
    /\ Notify(BufferBack)
    /\ Return(c)
    /\ UNCHANGED <<halVars, ctrlVars, dataVars, cmdLock, stopped, left>>

\* mpp_dec_control, with MPP_DEC_SET_INFO_CHANGE_READY after a geometry
\* change, or with any other command.
LockFreeSlip == TRUE
LockFree == cmdLock = Nobody
Send(c, job) ==
    /\ LockFree
    /\ cmdLock' = c
    /\ cmd' = job /\ cmdSend' = cmdSend + 1
    /\ Step(c, job, 1)
    /\ UNCHANGED <<parserVars, flagVars, halVars, resetFlag, halPost, sems,
                   cmdRecv, infoChanged, dataVars, stopped>>

ReadySend(c) == At(c, "ready", 0) /\ Send(c, "ready") /\ UNCHANGED left
CommandSend(c) ==
    /\ Begin(c, "command") /\ left.commands > 0
    /\ left' = [left EXCEPT !.commands = @ - 1]
    /\ Send(c, "command")

InControl(c, n) == At(c, "ready", n) \/ At(c, "command", n)
ControlNotify(c) ==
    /\ InControl(c, 1)
    /\ Notify({Control})
    /\ Step(c, call[c].job, 2)
    /\ UNCHANGED <<halVars, ctrlVars, dataVars, cmdLock, stopped, left>>

ControlStart(c) ==
    /\ InControl(c, 2)
    /\ Post("cmd_start")
    /\ Step(c, call[c].job, 3)
    /\ UNCHANGED <<parserVars, flagVars, halVars, resetFlag, halPost, cmd,
                   cmdSend, cmdRecv, infoChanged, dataVars, cmdLock, stopped,
                   left>>

ControlDone(c) ==
    /\ InControl(c, 3) /\ Take("cmd_done")
    /\ cmdLock' = Nobody
    /\ IF At(c, "ready", 3) THEN Step(c, "ready", 4) ELSE Return(c)
    /\ UNCHANGED <<parserVars, flagVars, halVars, resetFlag, halPost, cmd,
                   cmdSend, cmdRecv, infoChanged, dataVars, stopped, left>>

\* Mpp::control_dec, after MPP_DEC_SET_INFO_CHANGE_READY.
ReadyNotify(c) ==
    /\ At(c, "ready", 4)
    /\ Notify({"info_change", "dec_pic_match"})
    /\ Return(c)
    /\ UNCHANGED <<halVars, ctrlVars, dataVars, cmdLock, stopped, left>>

\* Mpp::reset through mpp_dec_reset, then the flush of mFrames, whose frames
\* give their buffers back.
Reset(c) ==
    /\ Begin(c, "reset") /\ left.resets > 0
    /\ \A d \in Callers : call[d].job # "reset"
    /\ resetFlag' = TRUE
    /\ left' = [left EXCEPT !.resets = @ - 1]
    /\ Step(c, "reset", 1)
    /\ UNCHANGED <<parserVars, flagVars, halVars, halPost, sems, cmd, cmdSend,
                   cmdRecv, infoChanged, dataVars, cmdLock, stopped>>

ResetNotify(c) ==
    /\ At(c, "reset", 1)
    /\ Notify(AllFlags)
    /\ Step(c, "reset", 2)
    /\ UNCHANGED <<halVars, ctrlVars, dataVars, cmdLock, stopped, left>>

ResetWait(c) ==
    /\ At(c, "reset", 2) /\ Take("parser_reset")
    /\ Step(c, "reset", 3)
    /\ UNCHANGED <<parserVars, flagVars, halVars, resetFlag, halPost, cmd,
                   cmdSend, cmdRecv, infoChanged, dataVars, cmdLock, stopped,
                   left>>

FlushFrames(c) ==
    /\ At(c, "reset", 3) /\ FramesFree
    /\ frames' = << >>
    /\ unused' = unused + Pictures(frames)
    /\ IF Pictures(frames) > 0 THEN Step(c, "reset", 4) ELSE Return(c)
    /\ UNCHANGED <<parserVars, flagVars, halVars, ctrlVars, packets, held,
                   slots, cmdLock, stopped, left>>

FlushNotify(c) ==
    /\ At(c, "reset", 4)
    /\ Notify(BufferBack)
    /\ Return(c)
    /\ UNCHANGED <<halVars, ctrlVars, dataVars, cmdLock, stopped, left>>

\* mpp_dec_stop, once every other call has returned: the parser thread is
\* stopped and joined, then the hal thread.
Stop(c) ==
    /\ Begin(c, "stop") /\ \A d \in Callers : call[d] = Idle
    /\ stopped' = {"parser"}
    /\ ppc' = IF ppc = "asleep" THEN "cmd" ELSE ppc
    /\ Step(c, "stop", 1)
    /\ UNCHANGED <<st, wait, flagVars, halVars, ctrlVars, dataVars, cmdLock,
                   left>>

StopHal(c) ==
    /\ At(c, "stop", 1) /\ ppc = "exit"
    /\ stopped' = {"parser", "hal"}
    /\ hpc' = HalWoken
    /\ Step(c, "stop", 2)
    /\ UNCHANGED <<parserVars, flagVars, hal, procQ, procDone, ctrlVars,
                   dataVars, cmdLock, left>>

StopDone(c) ==
    /\ At(c, "stop", 2) /\ hpc = "exit"
    /\ Step(c, "stop", 3)
    /\ UNCHANGED <<parserVars, flagVars, halVars, ctrlVars, dataVars, cmdLock,
                   stopped, left>>

-----------------------------------------------------------------------------
ParserWork ==
    \/ CheckWait \/ ProcControl \/ NoControl
    \/ ResetPost \/ ResetParser \/ ResetDone
    \/ GetHnd \/ GetPacket \/ CheckPrev \/ CheckAllDone \/ CheckFrames
    \/ CheckSlots
    \/ ParsePicture \/ ParseNothing \/ CheckInfo \/ GetBuffer \/ Submit

HalWork ==
    \/ HalExit \/ HalTake \/ HalReset \/ HalSleep \/ HalStatus \/ HalOutput
    \/ HalNotify

\* The steps of a call that has begun, and the calls that serve the decoder.
InCall(c) ==
    \/ PutNotify(c) \/ GetNotify(c) \/ ReleaseNotify(c)
    \/ ReadySend(c) \/ ControlNotify(c) \/ ControlStart(c)
    \/ ControlDone(c) \/ ReadyNotify(c)
    \/ ResetNotify(c) \/ ResetWait(c) \/ FlushFrames(c) \/ FlushNotify(c)
    \/ StopHal(c) \/ StopDone(c)

Next ==
    \/ ParserWork \/ ParserSpurious \/ HalWork \/ HalSpurious
    \/ \E c \in Callers :
           \/ InCall(c)
           \/ Put(c) \/ Get(c) \/ Release(c) \/ CommandSend(c) \/ Reset(c)
           \/ Stop(c)

Spec == Init /\ [][Next]_vars

\* The threads are scheduled, a call that has begun goes on, and the threads
\* whose job it is keep getting frames and giving buffers back.
FairSpec ==
    /\ Spec
    /\ WF_vars(ParserWork) /\ WF_vars(HalWork)
    /\ \A c \in Callers :
           WF_vars(InCall(c)) /\ WF_vars(Get(c)) /\ WF_vars(Release(c))

-----------------------------------------------------------------------------
(* Properties. *)

\* Type invariant of the threads, their flags and the calls.
TypeOK ==
    /\ wait \subseteq Bits /\ waitFlag \subseteq Bits
    /\ notifyFlag \subseteq AllFlags
    /\ Len(procQ) + procDone <= HalTasks /\ procDone \in Nat
    /\ packets \in 0 .. PortLimit /\ held \in Nat
    /\ unused + held + Pictures(frames) \in 0 .. BufferCount
    /\ slots \in [kept : 0 .. References, lost : Nat]
    /\ cmdLock \in Callers \cup {Nobody}
    /\ {resetFlag, infoChanged} \subseteq BOOLEAN

\* A pass of the parser thread through try_proc_dec_task would fail one of
\* its tests.
Stuck ==
    \/ ~st.hnd /\ IdleTasks = 0
    \/ ~st.curr /\ packets = 0
    \/ ~FastMode /\ ~st.prevRdy /\ procDone = 0
    \/ "dec_all_done" \in wait /\ procQ # << >>
    \/ Len(frames) > DisplayLimit
    \/ UsedSlots >= SlotCount
    \/ st.parsed /\ infoChanged /\ st.infoGen
    \/ st.parsed /\ unused = 0

\* Nobody is about to notify: each call has returned or waits for the parser
\* thread, and the hal thread sleeps.
Quiet ==
    /\ \A c \in Callers :
           \/ call[c] = Idle
           \/ At(c, "reset", 2) /\ sems["parser_reset"] = 0
           \/ InControl(c, 3) /\ sems["cmd_done"] = 0
    /\ hpc = "asleep"

\* The parser thread never sleeps through its work: when it is asleep and no
\* notification is on its way, waking it would only send it back to sleep.
\* About check_task_wait, which clears parser_notify_flag on every pass, and
\* the tests before it, which are made without the lock.
NoLostWakeup ==
    ppc = "asleep" /\ Quiet => Stuck

\* The same as long as no command was sent, and except for a slot of the frame
\* table, which nobody announces: the other events of the work itself
\* (packets, frames, buffers, tasks, resets) are never missed.
NoLostWakeupByWork ==
    cmdSend = 0 /\ "dec_slot_idx" \notin wait => NoLostWakeup

\* Whoever waits for the parser thread has woken it: a sleeping parser thread
\* has neither a reset nor a command to answer.
CallersHeard == ppc = "asleep" /\ Quiet => ~resetFlag /\ cmdSend = cmdRecv

\* The hal thread never sleeps while a task or a reset waits for it.
HalNoLostWakeup == hpc = "asleep" => procQ = << >> /\ halPost = 0

\* Neither thread of mpp_dec.cpp sleeps through a reset or a command, nor
\* through work it was told of.
NobodyOversleeps == NoLostWakeupByWork /\ CallersHeard /\ HalNoLostWakeup

\* The handshakes stay matched.  A post on a semaphore finds the thread that
\* waits for it, and none is left over for the next reset or command; the
\* parser thread is at most one command behind, and that is the command of the
\* thread that holds cmd_lock and waits for the answer: dec->cmd, param and
\* cmd_ret are shared by all senders.
HandshakesMatch ==
    /\ sems["parser_reset"] > 0 =>
           \E c \in Callers : At(c, "reset", 1) \/ At(c, "reset", 2)
    /\ sems["hal_reset"] > 0 => ppc = "waithal"
    /\ sems["cmd_done"] > 0 => \E c \in Callers : InControl(c, 3)
    /\ \A s \in DOMAIN sems : sems[s] <= 1
    /\ cmdSend - cmdRecv \in {0, 1}
    /\ cmdSend # cmdRecv =>
           \E c \in Callers : cmdLock = c /\ call[c].job = cmd

\* Types, and the handshakes of mpp_dec_control and mpp_dec_reset.
CallsMatch == TypeOK /\ HandshakesMatch

\* When reset_parser_thread is done, none of the tasks sent before is on its
\* way any more: the hal thread has answered after the last of them.
ResetLeavesNothing ==
    ppc = "resetdone" => procQ = << >> /\ procDone = 0 /\ hal = "none"

\* Packets do not stay in the input port, as long as no command makes the
\* parser thread forget a notification and it does not sleep for a slot.
WaitsForSlot == ppc = "asleep" /\ "dec_slot_idx" \in wait

\* A reset and a stop come back, whatever the threads were doing.
CallsReturn ==
    \A c \in {d \in Callers : Jobs[d] \cap {"reset", "stop"} # {}} :
        (call[c].job = "reset" \/ At(c, "stop", 1))
            ~> (call[c] = Idle \/ At(c, "stop", 3))
=============================================================================
