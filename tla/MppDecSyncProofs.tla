--------------------------- MODULE MppDecSyncProofs ---------------------------
(***************************************************************************)
(* Theorems about MppDecSync, for any application threads, tasks, buffers, *)
(* packets, resets and commands: no thread sleeps through what it waits    *)
(* for, posts and waits pair up, and a reset leaves no task behind.        *)
(***************************************************************************)
EXTENDS MppDecSync, FiniteSetTheorems, TLAPS

Kinds == {"frame", "eos", "info"}
Tests ==
  {"hnd", "pkt", "prev", "all", "full", "slot", "parse", "info", "buffer", "submit"}
Resetting == {"reset", "waithal", "resetdone"}

\* The steps of each call.
StepsOf(job) ==
    CASE job = "none" -> {0}
      [] job \in {"put", "get", "getinfo", "release"} -> {1}
      [] job = "ready" -> 0 .. 4
      [] job \in {"command", "stop"} -> 1 .. 3
      [] job = "reset" -> 1 .. 4

Calls == {k \in [job : {"none", "put", "get", "getinfo", "release", "ready",
                        "command", "stop", "reset"}, step : 0 .. 4] :
            k.step \in StepsOf(k.job)}

TaskTypes ==
    /\ hpc \in {"loop", "asleep", "status", "output", "notify", "exit"}
    /\ hal \in Kinds \cup {"none"}
    /\ hal = "none" <=> hpc \in {"loop", "asleep", "exit"}
    /\ (hpc = "status" \/ (hpc = "output" /\ hal # "frame")) =>
         procQ # << >> /\ Head(procQ) = hal
    /\ st \in [hnd : BOOLEAN, curr : BOOLEAN, parsed : BOOLEAN, prevRdy : BOOLEAN,
               infoGen : BOOLEAN]
    /\ procQ \in Seq(Kinds) /\ frames \in Seq(Kinds) /\ procDone \in Nat
    /\ packets \in 0 .. PortLimit /\ unused \in Nat /\ held \in Nat

FlagTypes ==
    /\ ppc \in {"check", "asleep", "cmd", "exit"} \cup Tests \cup Resetting
    /\ wait \subseteq Bits /\ waitFlag \subseteq Bits /\ notifyFlag \subseteq AllFlags

CallTypes ==
    /\ sems \in [Semaphores -> Nat] /\ halPost \in Nat
    /\ cmdSend \in Nat /\ cmdRecv \in Nat
    /\ resetFlag \in BOOLEAN /\ infoChanged \in BOOLEAN
    /\ call \in [Callers -> Calls] /\ cmdLock \in Callers \cup {Nobody}

Types == TaskTypes /\ FlagTypes /\ CallTypes

\* Between a stop and its return nobody else calls.
StopInv ==
    /\ stopped # {} => \A c \in Callers : call[c].job \in {"none", "stop"}
    /\ "hal" \in stopped => ppc = "exit"
    /\ hpc = "exit" => "hal" \in stopped
    /\ ppc = "exit" => "parser" \in stopped

\* A command walks from its sender to the parser thread and back: the sender
\* has cmd_lock, and each semaphore is posted once.
Sending(c) == call[c].job \in {"ready", "command"} /\ call[c].step \in 1 .. 3

CommandInv ==
    /\ \A c \in Callers : Sending(c) <=> cmdLock = c
    /\ cmdLock = Nobody => cmdSend = cmdRecv /\ sems["cmd_start"] = 0 /\ sems["cmd_done"] = 0
    /\ \A c \in Callers : cmdLock = c =>
         \/ /\ cmdSend = cmdRecv + 1 /\ cmd = call[c].job
            /\ sems["cmd_start"] = (IF call[c].step = 3 THEN 1 ELSE 0)
            /\ sems["cmd_done"] = 0
         \/ /\ cmdSend = cmdRecv /\ call[c].step = 3
            /\ sems["cmd_start"] = 0 /\ sems["cmd_done"] = 1

\* A reset walks from its caller to the parser thread, to the hal thread and
\* back.
ResetInv ==
    /\ \A c, d \in Callers : call[c].job = "reset" /\ call[d].job = "reset" => c = d
    /\ resetFlag => /\ \E c \in Callers : At(c, "reset", 1) \/ At(c, "reset", 2)
                    /\ sems["parser_reset"] = 0
    /\ ppc \in Resetting => resetFlag
    /\ \A c \in Callers : At(c, "reset", 1) => resetFlag
    /\ \A c \in Callers : At(c, "reset", 2) => resetFlag \/ sems["parser_reset"] = 1
    /\ sems["parser_reset"] # 0 => /\ \E c \in Callers : At(c, "reset", 2)
                                   /\ sems["parser_reset"] = 1
    /\ ppc # "waithal" => halPost = 0 /\ sems["hal_reset"] = 0
    /\ ppc = "waithal" => halPost + sems["hal_reset"] = 1
    /\ (ppc = "resetdone" \/ sems["hal_reset"] = 1) =>
         procQ = << >> /\ procDone = 0 /\ hal = "none"

\* Every buffer is unused, shown or on its way, and no more tasks are out than
\* there are handles.
One(b) == IF b THEN 1 ELSE 0

BufferInv ==
    unused + held + Pictures(frames) + Pictures(procQ) + One(ppc = "submit")
      + One(hpc = "output" /\ hal = "frame") = BufferCount

HandleInv ==
    /\ One(st.hnd) + Len(procQ) + procDone <= HalTasks
    /\ ppc \in Tests \ {"hnd"} => st.hnd

\* A thread that sleeps was told nothing it waits for.
SleepInv ==
    /\ hpc = "asleep" => procQ = << >> /\ halPost = 0
    /\ ppc = "asleep" => /\ waitFlag = wait /\ wait # {}
                         /\ notifyFlag \cap waitFlag = {} /\ Control \notin notifyFlag
    /\ \A c \in Callers : At(c, "reset", 2) /\ resetFlag => ppc # "asleep"
    /\ \A c \in Callers :
         (InControl(c, 2) \/ InControl(c, 3)) =>
           cmdSend = cmdRecv \/ ppc = "cmd" \/ (Control \in notifyFlag /\ ppc # "asleep")

\* Slots are kept for References pictures at most, and a reset loses one.
Losing == resetFlag /\ ppc # "resetdone"

SlotInv ==
    /\ slots \in [kept : 0 .. References, lost : Nat]
    /\ left \in [puts : Nat, infos : Nat, resets : Nat, commands : Nat]
    /\ slots.lost + left.resets + One(Losing) <= MaxResets

-----------------------------------------------------------------------------
\* A wait bit is gone once its test was passed, and stays with what failed.
WaitInv ==
    /\ "dec_pic_match" \notin wait
    /\ "task_hnd" \in wait => ppc \notin Tests \ {"hnd"}
    /\ "dec_pkt_in" \in wait => ~st.curr /\ ppc \notin Tests \ {"hnd", "pkt"}
    /\ "prev_task" \in wait =>
         /\ ~FastMode /\ ~st.prevRdy
         /\ ppc \notin Tests \ {"hnd", "pkt", "prev"}
    /\ "dec_all_done" \in wait => ppc \notin Tests \ {"hnd", "pkt", "prev", "all"}
    /\ "dis_que_full" \in wait => ppc \notin {"slot", "parse", "info", "buffer", "submit"}
    /\ "dec_slot_idx" \in wait => ppc \notin {"parse", "info", "buffer", "submit"}
    /\ "info_change" \in wait => st.parsed /\ st.infoGen /\ ppc \notin {"buffer", "submit"}
    /\ "dec_pic_unusd" \in wait => st.parsed /\ ~infoChanged /\ ppc # "submit"
    /\ ppc = "resetdone" => ~st.curr /\ wait = {}
    /\ ppc = "pkt" => ~st.curr
    /\ ppc = "prev" => ~FastMode /\ ~st.prevRdy
    /\ ppc = "parse" => ~st.parsed
    /\ ppc \in {"info", "buffer", "submit"} => st.parsed
    /\ ppc \in {"buffer", "submit"} => ~infoChanged
    /\ ppc \in {"prev", "all", "full", "slot", "parse"} => st.curr

\* Packets are put by the threads that reset, if any does: nothing comes while
\* Mpp::reset empties mFrames.
FeedersReset ==
    \A c, d \in Callers : "put" \in Jobs[c] /\ "reset" \in Jobs[d] => c = d

DrainInv ==
    /\ \A c \in Callers : call[c].job = "reset" => "reset" \in Jobs[c]
    /\ \A c \in Callers : call[c].job = "reset" =>
         /\ (ppc \in {"waithal", "resetdone"} \/ ~resetFlag) => packets = 0
         /\ ~resetFlag => /\ ppc \in {"check", "asleep", "cmd", "hnd", "pkt"}
                          /\ ~st.curr /\ wait \subseteq {"task_hnd", "dec_pkt_in"}

\* Why the parser thread may sleep: a test fails, or was mended and the one
\* who did it is about to say so; nobody speaks of the slots.
AnyAt(job, n) == \E c \in Callers : At(c, job, n)

Reason ==
    \/ "dec_slot_idx" \in wait
    \/ "task_hnd" \in wait /\ (\/ ~st.hnd /\ IdleTasks = 0
                              \/ hpc = "notify" \/ (hpc = "output" /\ hal = "frame"))
    \/ "dec_pkt_in" \in wait /\ (packets = 0 \/ AnyAt("put", 1))
    \/ "prev_task" \in wait /\ (procDone = 0 \/ (hpc \in {"output", "notify"} /\ hal = "frame"))
    \/ "dec_all_done" \in wait /\ (procQ # << >> \/ hpc # "asleep")
    \/ "dis_que_full" \in wait /\
         (Len(frames) > DisplayLimit \/ AnyAt("get", 1) \/ AnyAt("getinfo", 1))
    \/ "info_change" \in wait /\ infoChanged
    \/ "dec_pic_unusd" \in wait /\
         (unused = 0 \/ AnyAt("release", 1) \/ AnyAt("reset", 4))

ReasonInv ==
    cmdSend = 0 /\ ppc \in {"check", "asleep"} =>
      wait = {} \/ wait \cap notifyFlag # {} \/ Reason

\* What holds whatever the threads do, and what needs packets to come from
\* those who reset.
CallInv == /\ Types /\ StopInv /\ CommandInv /\ ResetInv /\ BufferInv /\ HandleInv
           /\ SleepInv /\ WaitInv /\ SlotInv
WorkInv == CallInv /\ DrainInv /\ ReasonInv

\* The steps of each thread.
ParserStep == ParserWork \/ ParserSpurious
HalStep == HalWork \/ HalSpurious
CallStep(c) ==
    InCall(c) \/ Put(c) \/ Get(c) \/ Release(c) \/ CommandSend(c) \/ Reset(c) \/ Stop(c)

-----------------------------------------------------------------------------
\* Appending to a queue of tasks, and taking its head.
LEMMA QueueTyped ==
  ASSUME NEW q \in Seq(Kinds)
  PROVE  /\ \A k \in Kinds : /\ Append(q, k) \in Seq(Kinds) /\ Append(q, k) # << >>
                             /\ q # << >> => Head(Append(q, k)) = Head(q)
                             /\ Len(Append(q, k)) = Len(q) + 1
         /\ q # << >> => /\ Head(q) \in Kinds /\ Tail(q) \in Seq(Kinds)
                        /\ Len(Tail(q)) = Len(q) - 1
  OBVIOUS

\* The pictures of a queue are counted by a natural number.
LEMMA PicturesTyped ==
  ASSUME NEW q \in Seq(Kinds)
  PROVE  /\ Pictures(q) \in Nat
         /\ IsFiniteSet({i \in DOMAIN q : q[i] = "frame"})
<1>1. {i \in DOMAIN q : q[i] = "frame"} \subseteq 1 .. Len(q)
  OBVIOUS
<1>2. IsFiniteSet(1 .. Len(q))
  BY FS_Interval
<1> QED
  BY <1>1, <1>2, FS_Subset, FS_CardinalityType DEF Pictures

\* An empty queue has none.
LEMMA PicturesEmpty == Pictures(<< >>) = 0
<1>1. {i \in DOMAIN << >> : << >>[i] = "frame"} = {}
  OBVIOUS
<1> QED
  BY <1>1, FS_EmptySet DEF Pictures

\* One more at the end counts if it is a picture, ...
LEMMA PicturesAppend ==
  ASSUME NEW q \in Seq(Kinds), NEW k \in Kinds
  PROVE  Pictures(Append(q, k)) = Pictures(q) + One(k = "frame")
<1> DEFINE P(s) == {i \in DOMAIN s : s[i] = "frame"}
           n == Len(q) + 1
<1>1. IsFiniteSet(P(q)) /\ Cardinality(P(q)) \in Nat /\ n \notin P(q)
  BY PicturesTyped DEF Pictures
<1>2. CASE k = "frame"
  <2>1. P(Append(q, k)) = P(q) \cup {n}
    BY <1>2
  <2> QED
    BY <1>1, <1>2, <2>1, FS_AddElement DEF Pictures, One
<1>3. CASE k # "frame"
  <2>1. P(Append(q, k)) = P(q)
    BY <1>3
  <2> QED
    <3>1. Pictures(q) = Cardinality(P(q)) /\ Pictures(Append(q, k)) = Cardinality(P(Append(q, k)))
      BY DEF Pictures
    <3> HIDE DEF P
    <3> QED
      BY <1>1, <1>3, <2>1, <3>1 DEF One
<1> QED
  BY <1>2, <1>3

\* ... and one less in front does not count any more.
LEMMA PicturesTail ==
  ASSUME NEW q \in Seq(Kinds), q # << >>
  PROVE  Pictures(q) = Pictures(Tail(q)) + One(Head(q) = "frame")
<1> DEFINE P(s) == {i \in DOMAIN s : s[i] = "frame"}
           R == P(q) \ {1}
           f == [i \in P(Tail(q)) |-> i + 1]
<1>1. Tail(q) \in Seq(Kinds)
  BY QueueTyped
<1>2. IsFiniteSet(P(q)) /\ IsFiniteSet(P(Tail(q)))
  BY <1>1, PicturesTyped
<1>3. f \in Bijection(P(Tail(q)), R)
  <2>1. ASSUME NEW i \in P(Tail(q))
        PROVE  i \in 1 .. (Len(q) - 1) /\ i + 1 \in R
    BY <2>1
  <2>2. ASSUME NEW j \in R
        PROVE  j - 1 \in P(Tail(q)) /\ f[j - 1] = j
    BY <2>2
  <2>3. f \in [P(Tail(q)) -> R]
    BY <2>1
  <2>4. \A i, j \in P(Tail(q)) : f[i] = f[j] => i = j
    BY <2>1
  <2> QED
    <3>1. \A j \in R : \E i \in P(Tail(q)) : f[i] = j
      BY <2>2
    <3> HIDE DEF P, R, f
    <3>2. f \in Injection(P(Tail(q)), R)
      BY <2>3, <2>4 DEF Injection, IsInjective
    <3>3. f \in Surjection(P(Tail(q)), R)
      BY <2>3, <3>1 DEF Surjection
    <3> QED
      BY <3>2, <3>3 DEF Bijection
<1>4. Cardinality(R) = Cardinality(P(Tail(q))) /\ Cardinality(R) \in Nat
  <2> HIDE DEF P, R, f
  <2>1. ExistsBijection(P(Tail(q)), R)
    BY <1>3 DEF ExistsBijection
  <2>2. IsFiniteSet(R) /\ Cardinality(R) = Cardinality(P(Tail(q)))
    BY <1>2, <2>1, FS_Bijection
  <2> QED
    BY <2>2, FS_CardinalityType
<1>5. CASE Head(q) = "frame"
  <2>1. 1 \in P(q)
    BY <1>5
  <2> QED
    <3>1. Cardinality(R) = Cardinality(P(q)) - 1 /\ Cardinality(P(q)) \in Nat
      BY <1>2, <2>1, FS_RemoveElement, FS_CardinalityType
    <3>2. Pictures(q) = Cardinality(P(q)) /\ Pictures(Tail(q)) = Cardinality(P(Tail(q)))
      BY DEF Pictures
    <3> HIDE DEF P, R, f
    <3> QED
      BY <1>4, <1>5, <3>1, <3>2 DEF One
<1>6. CASE Head(q) # "frame"
  <2>1. R = P(q)
    BY <1>6
  <2> QED
    <3>1. Pictures(q) = Cardinality(P(q)) /\ Pictures(Tail(q)) = Cardinality(P(Tail(q)))
      BY DEF Pictures
    <3> HIDE DEF P, R, f
    <3> QED
      BY <1>4, <1>6, <2>1, <3>1 DEF One
<1> QED
  BY <1>5, <1>6

\* The queues of the state, counted.
LEMMA QueuesCounted ==
  ASSUME Types
  PROVE  /\ {Pictures(frames), Pictures(procQ), unused, held, BufferCount} \subseteq Nat
         /\ \A k \in Kinds : Pictures(Append(procQ, k)) = Pictures(procQ) + One(k = "frame")
         /\ \A k \in Kinds : Pictures(Append(frames, k)) = Pictures(frames) + One(k = "frame")
         /\ procQ # << >> =>
              /\ Pictures(Tail(procQ)) \in Nat
              /\ Pictures(procQ) = Pictures(Tail(procQ)) + One(Head(procQ) = "frame")
         /\ frames # << >> =>
              /\ Pictures(Tail(frames)) \in Nat
              /\ Pictures(frames) = Pictures(Tail(frames)) + One(Head(frames) = "frame")
<1>1. /\ procQ \in Seq(Kinds) /\ frames \in Seq(Kinds)
      /\ {unused, held, BufferCount} \subseteq Nat
  BY SyncAssumption DEF Types, TaskTypes
<1>2. /\ procQ # << >> => Tail(procQ) \in Seq(Kinds)
      /\ frames # << >> => Tail(frames) \in Seq(Kinds)
  BY <1>1, QueueTyped
<1>3. Pictures(frames) \in Nat /\ Pictures(procQ) \in Nat
  BY <1>1, PicturesTyped
<1>4. /\ procQ # << >> => Pictures(Tail(procQ)) \in Nat
      /\ frames # << >> => Pictures(Tail(frames)) \in Nat
  BY <1>2, PicturesTyped
<1>5. \A k \in Kinds : Pictures(Append(procQ, k)) = Pictures(procQ) + One(k = "frame")
  BY <1>1, PicturesAppend
<1>6. \A k \in Kinds : Pictures(Append(frames, k)) = Pictures(frames) + One(k = "frame")
  BY <1>1, PicturesAppend
<1>7. procQ # << >> => Pictures(procQ) = Pictures(Tail(procQ)) + One(Head(procQ) = "frame")
  BY <1>1, PicturesTail
<1>8. frames # << >> => Pictures(frames) = Pictures(Tail(frames)) + One(Head(frames) = "frame")
  BY <1>1, PicturesTail
<1> QED
  BY <1>1, <1>3, <1>4, <1>5, <1>6, <1>7, <1>8

-----------------------------------------------------------------------------
\* Each thread keeps the types.
LEMMA TypesByParser ==
  ASSUME Types, ParserStep
  PROVE  Types'
<1> USE DEF parserVars, flagVars, halVars, ctrlVars, dataVars, callVars, GoTo,
      Passed, Blocked
<1>1. CASE CheckWait
  BY <1>1 DEF Types, TaskTypes, FlagTypes, CallTypes, Kinds, Bits, AllFlags,
       Control, Tests, Resetting, Semaphores, CheckWait, StaysUp
<1>2. CASE ProcControl
  BY <1>2 DEF Types, TaskTypes, FlagTypes, CallTypes, Kinds, Bits, AllFlags,
       Control, Tests, Resetting, Semaphores, ProcControl
<1>3. CASE NoControl
  BY <1>3 DEF Types, TaskTypes, FlagTypes, CallTypes, Kinds, Bits, AllFlags,
       Control, Tests, Resetting, Semaphores, NoControl
<1>4. CASE ResetPost
  <2>1. TaskTypes'
    BY <1>4, SyncAssumption DEF Types, TaskTypes, Kinds, ResetPost, HalWoken
  <2>2. FlagTypes'
    BY <1>4, SyncAssumption DEF Types, FlagTypes, Bits, AllFlags, Control, Tests,
         Resetting, ResetPost, HalWoken
  <2>3. CallTypes'
    BY <1>4, SyncAssumption DEF Types, CallTypes, Semaphores, ResetPost, HalWoken
  <2> QED
    BY <2>1, <2>2, <2>3 DEF Types
<1>5. CASE ResetParser
  BY <1>5 DEF Types, TaskTypes, FlagTypes, CallTypes, Kinds, Bits, AllFlags,
       Control, Tests, Resetting, Semaphores, ResetParser, NoTask, Take
<1>6. CASE ResetDone
  <2>1. TaskTypes'
    BY <1>6 DEF Types, TaskTypes, Kinds, ResetDone, Post
  <2>2. FlagTypes'
    BY <1>6 DEF Types, FlagTypes, Bits, AllFlags, Control, Tests, Resetting,
         ResetDone, Post
  <2>3. CallTypes'
    <3>1. /\ sems' = [sems EXCEPT !["parser_reset"] = @ + 1] /\ resetFlag' = FALSE
          /\ UNCHANGED <<halPost, cmd, cmdSend, cmdRecv, infoChanged, call, cmdLock>>
      BY <1>6 DEF ResetDone, Post
    <3>2. sems' \in [Semaphores -> Nat]
      BY <3>1 DEF Types, CallTypes, Semaphores
    <3> QED
      <4>1. resetFlag' \in BOOLEAN
        BY <3>1
      <4>2. infoChanged' \in BOOLEAN
        BY <3>1 DEF Types, CallTypes
      <4>3. halPost' \in Nat /\ cmdSend' \in Nat /\ cmdRecv' \in Nat
        BY <3>1 DEF Types, CallTypes
      <4>4. call' \in [Callers -> Calls] /\ cmdLock' \in Callers \cup {Nobody}
        BY <3>1 DEF Types, CallTypes
      <4> QED
        BY <3>2, <4>1, <4>2, <4>3, <4>4 DEF CallTypes
  <2> QED
    BY <2>1, <2>2, <2>3 DEF Types
<1>7. CASE GetHnd
  BY <1>7 DEF Types, TaskTypes, FlagTypes, CallTypes, Kinds, Bits, AllFlags,
       Control, Tests, Resetting, Semaphores, GetHnd, IdleTasks, AfterHnd,
       AfterPacket, AfterPrev
<1>8. CASE GetPacket
  <2>1. TaskTypes'
    <3>1. /\ st' = st \/ st' = [st EXCEPT !.curr = TRUE]
          /\ packets' = packets \/ (packets > 0 /\ packets' = packets - 1)
          /\ UNCHANGED <<halVars, unused, frames, held>>
      BY <1>8 DEF GetPacket
    <3>2. st' \in [hnd : BOOLEAN, curr : BOOLEAN, parsed : BOOLEAN,
                    prevRdy : BOOLEAN, infoGen : BOOLEAN]
      BY <3>1 DEF Types, TaskTypes
    <3>3. packets' \in 0 .. PortLimit
      BY <3>1, SyncAssumption DEF Types, TaskTypes
    <3> QED
      BY <3>1, <3>2, <3>3 DEF Types, TaskTypes
  <2>2. FlagTypes'
    BY <1>8, SyncAssumption DEF Types, FlagTypes, Bits, AllFlags, Control, Tests,
         Resetting, GetPacket, AfterPacket, AfterPrev
  <2>3. CallTypes'
    BY <1>8, SyncAssumption DEF Types, CallTypes, Semaphores, GetPacket,
         AfterPacket, AfterPrev
  <2> QED
    BY <2>1, <2>2, <2>3 DEF Types
<1>9. CASE CheckPrev
  <2>1. TaskTypes'
    <3>1. /\ st' = st \/ st' = [st EXCEPT !.prevRdy = TRUE]
          /\ procDone' = procDone \/ (procDone > 0 /\ procDone' = procDone - 1)
          /\ UNCHANGED <<hpc, hal, procQ, dataVars>>
      BY <1>9 DEF CheckPrev
    <3>2. st' \in [hnd : BOOLEAN, curr : BOOLEAN, parsed : BOOLEAN,
                    prevRdy : BOOLEAN, infoGen : BOOLEAN]
      BY <3>1 DEF Types, TaskTypes
    <3>3. procDone' \in Nat
      BY <3>1 DEF Types, TaskTypes
    <3> QED
      BY <3>1, <3>2, <3>3 DEF Types, TaskTypes
  <2>2. FlagTypes'
    BY <1>9 DEF Types, FlagTypes, Bits, AllFlags, Control, Tests, Resetting,
         CheckPrev, AfterPrev
  <2>3. CallTypes'
    BY <1>9 DEF Types, CallTypes, Semaphores, CheckPrev, AfterPrev
  <2> QED
    BY <2>1, <2>2, <2>3 DEF Types
<1>10. CASE CheckAllDone
  <2>1. TaskTypes'
    BY <1>10 DEF Types, TaskTypes, Kinds, CheckAllDone
  <2>2. FlagTypes'
    BY <1>10 DEF Types, FlagTypes, Bits, AllFlags, Control, Tests, Resetting,
         CheckAllDone
  <2>3. CallTypes'
    BY <1>10 DEF Types, CallTypes, Semaphores, CheckAllDone
  <2> QED
    BY <2>1, <2>2, <2>3 DEF Types
<1>11. CASE CheckFrames
  <2>1. TaskTypes'
    BY <1>11 DEF Types, TaskTypes, Kinds, CheckFrames
  <2>2. FlagTypes'
    BY <1>11 DEF Types, FlagTypes, Bits, AllFlags, Control, Tests, Resetting,
         CheckFrames
  <2>3. CallTypes'
    BY <1>11 DEF Types, CallTypes, Semaphores, CheckFrames
  <2> QED
    BY <2>1, <2>2, <2>3 DEF Types
<1>12. CASE ParsePicture
  BY <1>12 DEF Types, TaskTypes, FlagTypes, CallTypes, Kinds, Bits, AllFlags,
       Control, Tests, Resetting, Semaphores, ParsePicture
<1>13. CASE ParseNothing
  <2>1. TaskTypes'
    BY <1>13, QueueTyped DEF Types, TaskTypes, Kinds, ParseNothing, PutTask,
         HalWoken
  <2>2. FlagTypes'
    BY <1>13 DEF Types, FlagTypes, Bits, AllFlags, Control, Tests, Resetting,
         ParseNothing, PutTask, HalWoken
  <2>3. CallTypes'
    BY <1>13 DEF Types, CallTypes, Semaphores, ParseNothing, PutTask, HalWoken
  <2> QED
    BY <2>1, <2>2, <2>3 DEF Types
<1>14. CASE CheckInfo
  <2>1. TaskTypes'
    BY <1>14, QueueTyped DEF Types, TaskTypes, Kinds, CheckInfo, PutTask, HalWoken
  <2>2. FlagTypes'
    BY <1>14 DEF Types, FlagTypes, Bits, AllFlags, Control, Tests, Resetting,
         CheckInfo, PutTask, HalWoken
  <2>3. CallTypes'
    BY <1>14 DEF Types, CallTypes, Semaphores, CheckInfo, PutTask, HalWoken
  <2> QED
    BY <2>1, <2>2, <2>3 DEF Types
<1>15. CASE GetBuffer
  <2>1. TaskTypes'
    BY <1>15 DEF Types, TaskTypes, Kinds, GetBuffer
  <2>2. FlagTypes'
    BY <1>15 DEF Types, FlagTypes, Bits, AllFlags, Control, Tests, Resetting,
         GetBuffer
  <2>3. CallTypes'
    BY <1>15 DEF Types, CallTypes, Semaphores, GetBuffer
  <2> QED
    BY <2>1, <2>2, <2>3 DEF Types
<1>16. CASE Submit
  <2>1. TaskTypes'
    BY <1>16, QueueTyped DEF Types, TaskTypes, Kinds, Submit, NoTask, PutTask,
         HalWoken
  <2>2. FlagTypes'
    BY <1>16 DEF Types, FlagTypes, Bits, AllFlags, Control, Tests, Resetting,
         Submit, NoTask, PutTask, HalWoken
  <2>3. CallTypes'
    BY <1>16 DEF Types, CallTypes, Semaphores, Submit, NoTask, PutTask, HalWoken
  <2> QED
    BY <2>1, <2>2, <2>3 DEF Types
<1>17. CASE ParserSpurious
  BY <1>17 DEF Types, TaskTypes, FlagTypes, CallTypes, Kinds, Bits, AllFlags,
       Control, Tests, Resetting, Semaphores, ParserSpurious
<1>18. CASE CheckSlots
  <2>1. TaskTypes'
    BY <1>18 DEF Types, TaskTypes, Kinds, CheckSlots
  <2>2. FlagTypes'
    BY <1>18 DEF Types, FlagTypes, Bits, AllFlags, Control, Tests, Resetting,
         CheckSlots
  <2>3. CallTypes'
    BY <1>18 DEF Types, CallTypes, Semaphores, CheckSlots
  <2> QED
    BY <2>1, <2>2, <2>3 DEF Types
<1> QED
  BY <1>1, <1>2, <1>3, <1>4, <1>5, <1>6, <1>7, <1>8, <1>9, <1>10, <1>11, <1>12,
     <1>13, <1>14, <1>15, <1>16, <1>17, <1>18 DEF ParserStep, ParserWork

\* The same of the hal thread.
LEMMA TypesByHal ==
  ASSUME Types, HalStep
  PROVE  Types'
<1> USE DEF parserVars, flagVars, halVars, ctrlVars, dataVars, callVars, Notify,
      Told, Control
<1>1. CASE HalExit
  BY <1>1 DEF Types, TaskTypes, FlagTypes, CallTypes, Kinds, Bits, AllFlags,
       Control, Tests, Resetting, Semaphores, HalExit
<1>2. CASE HalTake
  <2>1. TaskTypes'
    BY <1>2 DEF Types, TaskTypes, Kinds, HalTake
  <2>2. FlagTypes'
    BY <1>2 DEF Types, FlagTypes, Bits, AllFlags, Control, Tests, Resetting, HalTake
  <2>3. CallTypes'
    BY <1>2 DEF Types, CallTypes, Semaphores, HalTake
  <2> QED
    BY <2>1, <2>2, <2>3 DEF Types
<1>3. CASE HalReset
  BY <1>3 DEF Types, TaskTypes, FlagTypes, CallTypes, Kinds, Bits, AllFlags,
       Control, Tests, Resetting, Semaphores, HalReset, Post, ResetTurn
<1>4. CASE HalSleep
  BY <1>4 DEF Types, TaskTypes, FlagTypes, CallTypes, Kinds, Bits, AllFlags,
       Control, Tests, Resetting, Semaphores, HalSleep
<1>5. CASE HalStatus
  <2>1. TaskTypes'
    BY <1>5, QueueTyped DEF Types, TaskTypes, Kinds, HalStatus, SetStatus
  <2>2. FlagTypes'
    BY <1>5 DEF Types, FlagTypes, Bits, AllFlags, Control, Tests, Resetting,
         HalStatus, SetStatus
  <2>3. CallTypes'
    BY <1>5 DEF Types, CallTypes, Semaphores, HalStatus, SetStatus
  <2> QED
    BY <2>1, <2>2, <2>3 DEF Types
<1>6. CASE HalOutput
  <2>1. TaskTypes'
    BY <1>6, QueueTyped DEF Types, TaskTypes, Kinds, HalOutput, FramesFree
  <2>2. FlagTypes'
    BY <1>6 DEF Types, FlagTypes, Bits, AllFlags, Control, Tests, Resetting,
         HalOutput, FramesFree
  <2>3. CallTypes'
    BY <1>6 DEF Types, CallTypes, Semaphores, HalOutput, FramesFree
  <2> QED
    BY <2>1, <2>2, <2>3 DEF Types
<1>7. CASE HalNotify
  BY <1>7 DEF Types, TaskTypes, FlagTypes, CallTypes, Kinds, Bits, AllFlags,
       Control, Tests, Resetting, Semaphores, HalNotify, HalFlags
<1>8. CASE HalSpurious
  BY <1>8 DEF Types, TaskTypes, FlagTypes, CallTypes, Kinds, Bits, AllFlags,
       Control, Tests, Resetting, Semaphores, HalSpurious
<1> QED
  BY <1>1, <1>2, <1>3, <1>4, <1>5, <1>6, <1>7, <1>8 DEF HalStep, HalWork

\* The same of the application threads.
LEMMA TypesByCall ==
  ASSUME Types, NEW c \in Callers, CallStep(c)
  PROVE  Types'
<1> USE DEF parserVars, flagVars, halVars, ctrlVars, dataVars, callVars, At, Step,
      Return, Idle, Begin, InControl, Notify, Told, Control
<1>1. CASE PutNotify(c)
  BY <1>1 DEF Types, TaskTypes, FlagTypes, CallTypes, Kinds, Bits, AllFlags,
       Control, Tests, Resetting, Semaphores, Calls, StepsOf, Nobody, PutNotify
<1>2. CASE GetNotify(c)
  <2>1. TaskTypes'
    BY <1>2 DEF Types, TaskTypes, Kinds, GetNotify
  <2>2. FlagTypes'
    BY <1>2 DEF Types, FlagTypes, Bits, AllFlags, Control, Tests, Resetting,
         GetNotify
  <2>3. CallTypes'
    BY <1>2 DEF Types, CallTypes, Semaphores, Calls, StepsOf, Nobody, GetNotify
  <2> QED
    BY <2>1, <2>2, <2>3 DEF Types
<1>3. CASE ReleaseNotify(c)
  BY <1>3 DEF Types, TaskTypes, FlagTypes, CallTypes, Kinds, Bits, AllFlags,
       Control, Tests, Resetting, Semaphores, Calls, StepsOf, Nobody, ReleaseNotify,
       BufferBack
<1>4. CASE ReadySend(c)
  BY <1>4 DEF Types, TaskTypes, FlagTypes, CallTypes, Kinds, Bits, AllFlags,
       Control, Tests, Resetting, Semaphores, Calls, StepsOf, Nobody, ReadySend,
       Send, LockFree
<1>5. CASE ControlNotify(c)
  BY <1>5 DEF Types, TaskTypes, FlagTypes, CallTypes, Kinds, Bits, AllFlags,
       Control, Tests, Resetting, Semaphores, Calls, StepsOf, Nobody, ControlNotify
<1>6. CASE ControlStart(c)
  <2>1. TaskTypes'
    BY <1>6 DEF Types, TaskTypes, Kinds, ControlStart, Post
  <2>2. FlagTypes'
    BY <1>6 DEF Types, FlagTypes, Bits, AllFlags, Control, Tests, Resetting,
         ControlStart, Post
  <2>3. CallTypes'
    BY <1>6 DEF Types, CallTypes, Semaphores, Calls, StepsOf, Nobody, ControlStart,
         Post
  <2> QED
    BY <2>1, <2>2, <2>3 DEF Types
<1>7. CASE ControlDone(c)
  <2>1. TaskTypes'
    BY <1>7 DEF Types, TaskTypes, Kinds, ControlDone, Nobody, Take
  <2>2. FlagTypes'
    BY <1>7 DEF Types, FlagTypes, Bits, AllFlags, Control, Tests, Resetting,
         ControlDone, Nobody, Take
  <2>3. CallTypes'
    BY <1>7 DEF Types, CallTypes, Semaphores, Calls, StepsOf, Nobody, ControlDone,
         Take
  <2> QED
    BY <2>1, <2>2, <2>3 DEF Types
<1>8. CASE ReadyNotify(c)
  BY <1>8 DEF Types, TaskTypes, FlagTypes, CallTypes, Kinds, Bits, AllFlags,
       Control, Tests, Resetting, Semaphores, Calls, StepsOf, Nobody, ReadyNotify
<1>9. CASE ResetNotify(c)
  BY <1>9 DEF Types, TaskTypes, FlagTypes, CallTypes, Kinds, Bits, AllFlags,
       Control, Tests, Resetting, Semaphores, Calls, StepsOf, Nobody, ResetNotify
<1>10. CASE ResetWait(c)
  <2>1. TaskTypes'
    BY <1>10 DEF Types, TaskTypes, Kinds, ResetWait, Take
  <2>2. FlagTypes'
    BY <1>10 DEF Types, FlagTypes, Bits, AllFlags, Control, Tests, Resetting,
         ResetWait, Take
  <2>3. CallTypes'
    BY <1>10 DEF Types, CallTypes, Semaphores, Calls, StepsOf, Nobody, ResetWait,
         Take
  <2> QED
    BY <2>1, <2>2, <2>3 DEF Types
<1>11. CASE FlushFrames(c)
  <2>1. TaskTypes'
    BY <1>11, PicturesTyped DEF Types, TaskTypes, Kinds, FlushFrames, Pictures,
         FramesFree
  <2>2. FlagTypes'
    BY <1>11 DEF Types, FlagTypes, Bits, AllFlags, Control, Tests, Resetting,
         FlushFrames, Pictures, FramesFree
  <2>3. CallTypes'
    BY <1>11 DEF Types, CallTypes, Semaphores, Calls, StepsOf, Nobody, FlushFrames,
         Pictures, FramesFree
  <2> QED
    BY <2>1, <2>2, <2>3 DEF Types
<1>12. CASE FlushNotify(c)
  BY <1>12 DEF Types, TaskTypes, FlagTypes, CallTypes, Kinds, Bits, AllFlags,
       Control, Tests, Resetting, Semaphores, Calls, StepsOf, Nobody, FlushNotify,
       BufferBack
<1>13. CASE StopHal(c)
  BY <1>13 DEF Types, TaskTypes, FlagTypes, CallTypes, Kinds, Bits, AllFlags,
       Control, Tests, Resetting, Semaphores, Calls, StepsOf, Nobody, StopHal,
       HalWoken
<1>14. CASE StopDone(c)
  BY <1>14 DEF Types, TaskTypes, FlagTypes, CallTypes, Kinds, Bits, AllFlags,
       Control, Tests, Resetting, Semaphores, Calls, StepsOf, Nobody, StopDone
<1>15. CASE Put(c)
  <2>1. TaskTypes'
    BY <1>15, SyncAssumption DEF Types, TaskTypes, Kinds, Put
  <2>2. FlagTypes'
    BY <1>15, SyncAssumption DEF Types, FlagTypes, Bits, AllFlags, Control, Tests,
         Resetting, Put
  <2>3. CallTypes'
    BY <1>15, SyncAssumption DEF Types, CallTypes, Semaphores, Calls, StepsOf,
         Nobody, Put
  <2> QED
    BY <2>1, <2>2, <2>3 DEF Types
<1>16. CASE Get(c)
  <2>1. TaskTypes'
    BY <1>16 DEF Types, TaskTypes, Kinds, Get, FramesFree
  <2>2. FlagTypes'
    BY <1>16 DEF Types, FlagTypes, Bits, AllFlags, Control, Tests, Resetting, Get,
         FramesFree
  <2>3. CallTypes'
    <3>1. \/ call' = [call EXCEPT ![c] = [job |-> "get", step |-> 1]]
          \/ call' = [call EXCEPT ![c] = [job |-> "getinfo", step |-> 1]]
      BY <1>16 DEF Get
    <3>2. call' \in [Callers -> Calls]
      BY <3>1 DEF Types, CallTypes, Calls, StepsOf
    <3> QED
      BY <1>16, <3>2 DEF Types, CallTypes, Semaphores, Get
  <2> QED
    BY <2>1, <2>2, <2>3 DEF Types
<1>17. CASE Release(c)
  <2>1. TaskTypes'
    BY <1>17 DEF Types, TaskTypes, Kinds, Release
  <2>2. FlagTypes'
    BY <1>17 DEF Types, FlagTypes, Bits, AllFlags, Control, Tests, Resetting,
         Release
  <2>3. CallTypes'
    BY <1>17 DEF Types, CallTypes, Semaphores, Calls, StepsOf, Nobody, Release
  <2> QED
    BY <2>1, <2>2, <2>3 DEF Types
<1>18. CASE CommandSend(c)
  BY <1>18 DEF Types, TaskTypes, FlagTypes, CallTypes, Kinds, Bits, AllFlags,
       Control, Tests, Resetting, Semaphores, Calls, StepsOf, Nobody, CommandSend,
       Send, LockFree
<1>19. CASE Reset(c)
  BY <1>19 DEF Types, TaskTypes, FlagTypes, CallTypes, Kinds, Bits, AllFlags,
       Control, Tests, Resetting, Semaphores, Calls, StepsOf, Nobody, Reset
<1>20. CASE Stop(c)
  BY <1>20 DEF Types, TaskTypes, FlagTypes, CallTypes, Kinds, Bits, AllFlags,
       Control, Tests, Resetting, Semaphores, Calls, StepsOf, Nobody, Stop
<1> QED
  BY <1>1, <1>2, <1>3, <1>4, <1>5, <1>6, <1>7, <1>8, <1>9, <1>10, <1>11, <1>12,
     <1>13, <1>14, <1>15, <1>16, <1>17, <1>18, <1>19, <1>20 DEF CallStep, InCall

-----------------------------------------------------------------------------
\* Each thread keeps to a stop: the parser thread ends only when it was told to,
\* the hal thread after it.
LEMMA StopByParser ==
  ASSUME StopInv, Types, ParserStep
  PROVE  StopInv'
<1> USE DEF parserVars, flagVars, halVars, ctrlVars, dataVars, callVars, GoTo,
      Passed, Blocked
<1>1. CASE CheckWait
  BY <1>1 DEF StopInv, Types, TaskTypes, FlagTypes, CallTypes, Tests, Resetting,
       CheckWait, StaysUp, Control
<1>2. CASE ProcControl
  BY <1>2 DEF StopInv, Types, TaskTypes, FlagTypes, CallTypes, Tests, Resetting,
       ProcControl
<1>3. CASE NoControl
  BY <1>3 DEF StopInv, Types, TaskTypes, FlagTypes, CallTypes, Tests, Resetting,
       NoControl
<1>4. CASE ResetPost
  BY <1>4 DEF StopInv, Types, TaskTypes, FlagTypes, CallTypes, Tests, Resetting,
       ResetPost, HalWoken
<1>5. CASE ResetParser
  BY <1>5 DEF StopInv, Types, TaskTypes, FlagTypes, CallTypes, Tests, Resetting,
       ResetParser, NoTask, Take
<1>6. CASE ResetDone
  BY <1>6 DEF StopInv, Types, TaskTypes, FlagTypes, CallTypes, Tests, Resetting,
       ResetDone, Post
<1>7. CASE GetHnd
  BY <1>7 DEF StopInv, Types, TaskTypes, FlagTypes, CallTypes, Tests, Resetting,
       GetHnd, IdleTasks, AfterHnd, AfterPacket, AfterPrev
<1>8. CASE GetPacket
  BY <1>8 DEF StopInv, Types, TaskTypes, FlagTypes, CallTypes, Tests, Resetting,
       GetPacket, AfterPacket, AfterPrev
<1>9. CASE CheckPrev
  BY <1>9 DEF StopInv, Types, TaskTypes, FlagTypes, CallTypes, Tests, Resetting,
       CheckPrev, AfterPrev
<1>10. CASE CheckAllDone
  BY <1>10 DEF StopInv, Types, TaskTypes, FlagTypes, CallTypes, Tests, Resetting,
       CheckAllDone
<1>11. CASE CheckFrames
  BY <1>11 DEF StopInv, Types, TaskTypes, FlagTypes, CallTypes, Tests, Resetting,
       CheckFrames
<1>12. CASE ParsePicture
  BY <1>12 DEF StopInv, Types, TaskTypes, FlagTypes, CallTypes, Tests, Resetting,
       ParsePicture
<1>13. CASE ParseNothing
  BY <1>13 DEF StopInv, Types, TaskTypes, FlagTypes, CallTypes, Tests, Resetting,
       ParseNothing, PutTask, HalWoken
<1>14. CASE CheckInfo
  BY <1>14 DEF StopInv, Types, TaskTypes, FlagTypes, CallTypes, Tests, Resetting,
       CheckInfo, PutTask, HalWoken
<1>15. CASE GetBuffer
  BY <1>15 DEF StopInv, Types, TaskTypes, FlagTypes, CallTypes, Tests, Resetting,
       GetBuffer
<1>16. CASE Submit
  BY <1>16 DEF StopInv, Types, TaskTypes, FlagTypes, CallTypes, Tests, Resetting,
       Submit, NoTask, PutTask, HalWoken
<1>17. CASE ParserSpurious
  BY <1>17 DEF StopInv, Types, TaskTypes, FlagTypes, CallTypes, Tests, Resetting,
       ParserSpurious
<1>18. CASE CheckSlots
  BY <1>18 DEF StopInv, Types, TaskTypes, FlagTypes, CallTypes, Tests, Resetting,
       CheckSlots
<1> QED
  BY <1>1, <1>2, <1>3, <1>4, <1>5, <1>6, <1>7, <1>8, <1>9, <1>10, <1>11, <1>12,
     <1>13, <1>14, <1>15, <1>16, <1>17, <1>18 DEF ParserStep, ParserWork

\* The same of the hal thread.
LEMMA StopByHal ==
  ASSUME StopInv, Types, HalStep
  PROVE  StopInv'
<1> USE DEF parserVars, flagVars, halVars, ctrlVars, dataVars, callVars, Notify,
      Told, Control
<1>1. CASE HalExit
  BY <1>1 DEF StopInv, Types, TaskTypes, FlagTypes, CallTypes, Tests, Resetting,
       HalExit
<1>2. CASE HalTake
  BY <1>2 DEF StopInv, Types, TaskTypes, FlagTypes, CallTypes, Tests, Resetting,
       HalTake
<1>3. CASE HalReset
  BY <1>3 DEF StopInv, Types, TaskTypes, FlagTypes, CallTypes, Tests, Resetting,
       HalReset, Post, ResetTurn
<1>4. CASE HalSleep
  BY <1>4 DEF StopInv, Types, TaskTypes, FlagTypes, CallTypes, Tests, Resetting,
       HalSleep
<1>5. CASE HalStatus
  BY <1>5 DEF StopInv, Types, TaskTypes, FlagTypes, CallTypes, Tests, Resetting,
       HalStatus, SetStatus
<1>6. CASE HalOutput
  BY <1>6 DEF StopInv, Types, TaskTypes, FlagTypes, CallTypes, Tests, Resetting,
       HalOutput
<1>7. CASE HalNotify
  BY <1>7 DEF StopInv, Types, TaskTypes, FlagTypes, CallTypes, Tests, Resetting,
       HalNotify, HalFlags
<1>8. CASE HalSpurious
  BY <1>8 DEF StopInv, Types, TaskTypes, FlagTypes, CallTypes, Tests, Resetting,
       HalSpurious
<1> QED
  BY <1>1, <1>2, <1>3, <1>4, <1>5, <1>6, <1>7, <1>8 DEF HalStep, HalWork

\* The same of the application threads.
LEMMA StopByCall ==
  ASSUME StopInv, Types, NEW c \in Callers, CallStep(c)
  PROVE  StopInv'
<1> USE DEF parserVars, flagVars, halVars, ctrlVars, dataVars, callVars, At, Step,
      Return, Idle, Begin, InControl, Notify, Told, Control
<1>1. CASE PutNotify(c)
  BY <1>1 DEF StopInv, Types, CallTypes, PutNotify
<1>2. CASE GetNotify(c)
  <2>1. /\ At(c, "get", 1) \/ At(c, "getinfo", 1)
        /\ Notify({"dis_que_full"})
        /\ UNCHANGED <<halVars, ctrlVars, dataVars, cmdLock, stopped, left>>
    BY <1>2 DEF GetNotify
  <2>2. CASE /\ call' = [call EXCEPT ![c] = [job |-> "none", step |-> 0]]
             /\ At(c, "get", 1)
    BY <2>1, <2>2 DEF StopInv, Types, CallTypes
  <2>3. CASE /\ call' = [call EXCEPT ![c] = [job |-> "ready", step |-> 0]]
             /\ At(c, "getinfo", 1)
    BY <2>1, <2>3 DEF StopInv, Types, CallTypes
  <2> QED
    BY <1>2, <2>2, <2>3 DEF GetNotify
<1>3. CASE ReleaseNotify(c)
  BY <1>3 DEF StopInv, Types, CallTypes, ReleaseNotify, BufferBack
<1>4. CASE ReadySend(c)
  BY <1>4 DEF StopInv, Types, CallTypes, ReadySend, Send, LockFree, Nobody
<1>5. CASE ControlNotify(c)
  BY <1>5 DEF StopInv, Types, CallTypes, ControlNotify
<1>6. CASE ControlStart(c)
  BY <1>6 DEF StopInv, Types, CallTypes, ControlStart, Post
<1>7. CASE ControlDone(c)
  <2>1. /\ sems["cmd_done"] > 0
        /\ sems' = [sems EXCEPT !["cmd_done"] = @ - 1]
        /\ cmdLock' = Nobody
        /\ UNCHANGED <<parserVars, flagVars, halVars, resetFlag, halPost, cmd, cmdSend,
                     cmdRecv, infoChanged, dataVars, stopped, left>>
    BY <1>7 DEF ControlDone, Take
  <2>2. CASE /\ call' = [call EXCEPT ![c] = [job |-> "ready", step |-> 4]]
             /\ At(c, "ready", 3)
    BY <2>1, <2>2 DEF StopInv, Types, CallTypes
  <2>3. CASE /\ call' = [call EXCEPT ![c] = [job |-> "none", step |-> 0]]
             /\ At(c, "command", 3)
    BY <2>1, <2>3 DEF StopInv, Types, CallTypes
  <2> QED
    BY <1>7, <2>2, <2>3 DEF ControlDone
<1>8. CASE ReadyNotify(c)
  BY <1>8 DEF StopInv, Types, CallTypes, ReadyNotify
<1>9. CASE ResetNotify(c)
  BY <1>9 DEF StopInv, Types, CallTypes, ResetNotify, AllFlags, Bits
<1>10. CASE ResetWait(c)
  BY <1>10 DEF StopInv, Types, CallTypes, ResetWait, Take
<1>11. CASE FlushFrames(c)
  <2>1. /\ At(c, "reset", 3)
        /\ frames' = << >> /\ unused' = unused + Pictures(frames)
        /\ UNCHANGED <<parserVars, flagVars, halVars, ctrlVars, packets, held,
                     cmdLock, stopped, left>>
    BY <1>11 DEF FlushFrames
  <2>2. CASE /\ call' = [call EXCEPT ![c] = [job |-> "reset", step |-> 4]]
             /\ Pictures(frames) > 0
    BY <2>1, <2>2 DEF StopInv, Types, CallTypes
  <2>3. CASE /\ call' = [call EXCEPT ![c] = [job |-> "none", step |-> 0]]
             /\ ~(Pictures(frames) > 0)
    BY <2>1, <2>3 DEF StopInv, Types, CallTypes
  <2> QED
    BY <1>11, <2>2, <2>3 DEF FlushFrames
<1>12. CASE FlushNotify(c)
  BY <1>12 DEF StopInv, Types, CallTypes, FlushNotify, BufferBack
<1>13. CASE StopHal(c)
  BY <1>13 DEF StopInv, Types, CallTypes, StopHal, HalWoken
<1>14. CASE StopDone(c)
  BY <1>14 DEF StopInv, Types, CallTypes, StopDone
<1>15. CASE Put(c)
  BY <1>15 DEF StopInv, Types, CallTypes, Put
<1>16. CASE Get(c)
  <2>1. /\ call[c] = Idle /\ frames # << >> /\ frames' = Tail(frames)
        /\ UNCHANGED <<parserVars, flagVars, halVars, ctrlVars, packets, unused,
                     cmdLock, stopped, left>>
    BY <1>16 DEF Get
  <2>2. CASE /\ call' = [call EXCEPT ![c] = [job |-> "get", step |-> 1]]
             /\ held' = (IF Head(frames) = "frame" THEN held + 1 ELSE held)
             /\ stopped = {} /\ "get" \in Jobs[c]
    BY <2>1, <2>2 DEF StopInv, Types, CallTypes
  <2>3. CASE /\ call' = [call EXCEPT ![c] = [job |-> "getinfo", step |-> 1]]
             /\ held' = held /\ Head(frames) = "info"
             /\ stopped = {} /\ "get" \in Jobs[c]
    BY <2>1, <2>3 DEF StopInv, Types, CallTypes
  <2> QED
    BY <1>16, <2>2, <2>3 DEF Get
<1>17. CASE Release(c)
  BY <1>17 DEF StopInv, Types, CallTypes, Release
<1>18. CASE CommandSend(c)
  BY <1>18 DEF StopInv, Types, CallTypes, CommandSend, Send, LockFree, Nobody
<1>19. CASE Reset(c)
  BY <1>19 DEF StopInv, Types, CallTypes, Reset
<1>20. CASE Stop(c)
  BY <1>20 DEF StopInv, Types, CallTypes, Stop
<1> QED
  BY <1>1, <1>2, <1>3, <1>4, <1>5, <1>6, <1>7, <1>8, <1>9, <1>10, <1>11, <1>12,
     <1>13, <1>14, <1>15, <1>16, <1>17, <1>18, <1>19, <1>20 DEF CallStep, InCall

-----------------------------------------------------------------------------
\* Each thread keeps a command with the thread that has cmd_lock.
LEMMA CommandByParser ==
  ASSUME CommandInv, Types, StopInv, ParserStep
  PROVE  CommandInv'
<1> USE DEF parserVars, flagVars, halVars, ctrlVars, dataVars, callVars, GoTo,
      Passed, Blocked
<1>1. CASE CheckWait
  BY <1>1, SyncAssumption DEF CommandInv, Types, CallTypes, Semaphores, Sending,
       CheckWait, StaysUp, Control
<1>2. CASE ProcControl
  BY <1>2, SyncAssumption DEF CommandInv, Types, CallTypes, Semaphores, Sending,
       ProcControl
<1>3. CASE NoControl
  BY <1>3, SyncAssumption DEF CommandInv, Types, CallTypes, Semaphores, Sending,
       NoControl
<1>4. CASE ResetPost
  BY <1>4, SyncAssumption DEF CommandInv, Types, CallTypes, Semaphores, Sending,
       ResetPost, HalWoken
<1>5. CASE ResetParser
  BY <1>5, SyncAssumption DEF CommandInv, Types, CallTypes, Semaphores, Sending,
       ResetParser, NoTask, Take
<1>6. CASE ResetDone
  BY <1>6, SyncAssumption DEF CommandInv, Types, CallTypes, Semaphores, Sending,
       ResetDone, Post
<1>7. CASE GetHnd
  BY <1>7, SyncAssumption DEF CommandInv, Types, CallTypes, Semaphores, Sending,
       GetHnd, IdleTasks, AfterHnd, AfterPacket, AfterPrev
<1>8. CASE GetPacket
  BY <1>8, SyncAssumption DEF CommandInv, Types, CallTypes, Semaphores, Sending,
       GetPacket, AfterPacket, AfterPrev
<1>9. CASE CheckPrev
  BY <1>9, SyncAssumption DEF CommandInv, Types, CallTypes, Semaphores, Sending,
       CheckPrev, AfterPrev
<1>10. CASE CheckAllDone
  BY <1>10, SyncAssumption DEF CommandInv, Types, CallTypes, Semaphores, Sending,
       CheckAllDone
<1>11. CASE CheckFrames
  BY <1>11, SyncAssumption DEF CommandInv, Types, CallTypes, Semaphores, Sending,
       CheckFrames
<1>12. CASE ParsePicture
  BY <1>12, SyncAssumption DEF CommandInv, Types, CallTypes, Semaphores, Sending,
       ParsePicture
<1>13. CASE ParseNothing
  BY <1>13, SyncAssumption DEF CommandInv, Types, CallTypes, Semaphores, Sending,
       ParseNothing, PutTask, HalWoken
<1>14. CASE CheckInfo
  BY <1>14, SyncAssumption DEF CommandInv, Types, CallTypes, Semaphores, Sending,
       CheckInfo, PutTask, HalWoken
<1>15. CASE GetBuffer
  BY <1>15, SyncAssumption DEF CommandInv, Types, CallTypes, Semaphores, Sending,
       GetBuffer
<1>16. CASE Submit
  BY <1>16, SyncAssumption DEF CommandInv, Types, CallTypes, Semaphores, Sending,
       Submit, NoTask, PutTask, HalWoken
<1>17. CASE ParserSpurious
  BY <1>17, SyncAssumption DEF CommandInv, Types, CallTypes, Semaphores, Sending,
       ParserSpurious
<1>18. CASE CheckSlots
  BY <1>18, SyncAssumption DEF CommandInv, Types, CallTypes, Semaphores, Sending,
       CheckSlots
<1> QED
  BY <1>1, <1>2, <1>3, <1>4, <1>5, <1>6, <1>7, <1>8, <1>9, <1>10, <1>11, <1>12,
     <1>13, <1>14, <1>15, <1>16, <1>17, <1>18 DEF ParserStep, ParserWork

\* The same of the hal thread.
LEMMA CommandByHal ==
  ASSUME CommandInv, Types, StopInv, HalStep
  PROVE  CommandInv'
<1> USE DEF parserVars, flagVars, halVars, ctrlVars, dataVars, callVars, Notify,
      Told, Control
<1>1. CASE HalExit
  BY <1>1, SyncAssumption DEF CommandInv, Types, CallTypes, Semaphores, Sending,
       HalExit
<1>2. CASE HalTake
  BY <1>2, SyncAssumption DEF CommandInv, Types, CallTypes, Semaphores, Sending,
       HalTake
<1>3. CASE HalReset
  BY <1>3, SyncAssumption DEF CommandInv, Types, CallTypes, Semaphores, Sending,
       HalReset, Post, ResetTurn
<1>4. CASE HalSleep
  BY <1>4, SyncAssumption DEF CommandInv, Types, CallTypes, Semaphores, Sending,
       HalSleep
<1>5. CASE HalStatus
  BY <1>5, SyncAssumption DEF CommandInv, Types, CallTypes, Semaphores, Sending,
       HalStatus, SetStatus
<1>6. CASE HalOutput
  BY <1>6, SyncAssumption DEF CommandInv, Types, CallTypes, Semaphores, Sending,
       HalOutput
<1>7. CASE HalNotify
  BY <1>7, SyncAssumption DEF CommandInv, Types, CallTypes, Semaphores, Sending,
       HalNotify, HalFlags
<1>8. CASE HalSpurious
  BY <1>8, SyncAssumption DEF CommandInv, Types, CallTypes, Semaphores, Sending,
       HalSpurious
<1> QED
  BY <1>1, <1>2, <1>3, <1>4, <1>5, <1>6, <1>7, <1>8 DEF HalStep, HalWork

\* The same of the application threads.
LEMMA CommandByCall ==
  ASSUME CommandInv, Types, StopInv, NEW c \in Callers, CallStep(c)
  PROVE  CommandInv'
<1> USE DEF parserVars, flagVars, halVars, ctrlVars, dataVars, callVars, At, Step,
      Return, Idle, Begin, InControl, Notify, Told, Control
<1>1. CASE PutNotify(c)
  BY <1>1, SyncAssumption DEF CommandInv, Types, CallTypes, Semaphores, Sending,
       Nobody, PutNotify
<1>2. CASE GetNotify(c)
  <2>1. /\ At(c, "get", 1) \/ At(c, "getinfo", 1)
        /\ Notify({"dis_que_full"})
        /\ UNCHANGED <<halVars, ctrlVars, dataVars, cmdLock, stopped, left>>
    BY <1>2 DEF GetNotify
  <2>2. CASE /\ call' = [call EXCEPT ![c] = [job |-> "none", step |-> 0]]
             /\ At(c, "get", 1)
    BY <2>1, <2>2, SyncAssumption DEF CommandInv, Types, CallTypes, Semaphores,
         Sending, Nobody
  <2>3. CASE /\ call' = [call EXCEPT ![c] = [job |-> "ready", step |-> 0]]
             /\ At(c, "getinfo", 1)
    BY <2>1, <2>3, SyncAssumption DEF CommandInv, Types, CallTypes, Semaphores,
         Sending, Nobody
  <2> QED
    BY <1>2, <2>2, <2>3 DEF GetNotify
<1>3. CASE ReleaseNotify(c)
  BY <1>3, SyncAssumption DEF CommandInv, Types, CallTypes, Semaphores, Sending,
       Nobody, ReleaseNotify, BufferBack
<1>4. CASE ReadySend(c)
  BY <1>4, SyncAssumption DEF CommandInv, Types, CallTypes, Semaphores, Sending,
       Nobody, ReadySend, Send, LockFree
<1>5. CASE ControlNotify(c)
  BY <1>5, SyncAssumption DEF CommandInv, Types, CallTypes, Semaphores, Sending,
       Nobody, ControlNotify
<1>6. CASE ControlStart(c)
  BY <1>6, SyncAssumption DEF CommandInv, Types, CallTypes, Semaphores, Sending,
       Nobody, ControlStart, Post
<1>7. CASE ControlDone(c)
  <2>1. /\ sems["cmd_done"] > 0
        /\ sems' = [sems EXCEPT !["cmd_done"] = @ - 1]
        /\ cmdLock' = Nobody
        /\ UNCHANGED <<parserVars, flagVars, halVars, resetFlag, halPost, cmd, cmdSend,
                     cmdRecv, infoChanged, dataVars, stopped, left>>
    BY <1>7 DEF ControlDone, Take
  <2>2. CASE /\ call' = [call EXCEPT ![c] = [job |-> "ready", step |-> 4]]
             /\ At(c, "ready", 3)
    BY <2>1, <2>2, SyncAssumption DEF CommandInv, Types, CallTypes, Semaphores,
         Sending, Nobody
  <2>3. CASE /\ call' = [call EXCEPT ![c] = [job |-> "none", step |-> 0]]
             /\ At(c, "command", 3)
    BY <2>1, <2>3, SyncAssumption DEF CommandInv, Types, CallTypes, Semaphores,
         Sending, Nobody
  <2> QED
    BY <1>7, <2>2, <2>3 DEF ControlDone
<1>8. CASE ReadyNotify(c)
  BY <1>8, SyncAssumption DEF CommandInv, Types, CallTypes, Semaphores, Sending,
       Nobody, ReadyNotify
<1>9. CASE ResetNotify(c)
  BY <1>9, SyncAssumption DEF CommandInv, Types, CallTypes, Semaphores, Sending,
       Nobody, ResetNotify, AllFlags, Bits
<1>10. CASE ResetWait(c)
  BY <1>10, SyncAssumption DEF CommandInv, Types, CallTypes, Semaphores, Sending,
       Nobody, ResetWait, Take
<1>11. CASE FlushFrames(c)
  <2>1. /\ UNCHANGED <<cmdLock, cmdSend, cmdRecv, cmd, sems>>
        /\ \A d \in Callers \ {c} : call'[d] = call[d]
        /\ ~Sending(c) /\ ~Sending(c)'
    BY <1>11 DEF FlushFrames, Types, CallTypes, Sending
  <2>2. cmdLock # c
    BY <2>1 DEF CommandInv
  <2> QED
    BY <2>1, <2>2 DEF CommandInv, Sending
<1>12. CASE FlushNotify(c)
  BY <1>12, SyncAssumption DEF CommandInv, Types, CallTypes, Semaphores, Sending,
       Nobody, FlushNotify, BufferBack
<1>13. CASE StopHal(c)
  BY <1>13, SyncAssumption DEF CommandInv, Types, CallTypes, Semaphores, Sending,
       Nobody, StopHal, HalWoken
<1>14. CASE StopDone(c)
  BY <1>14, SyncAssumption DEF CommandInv, Types, CallTypes, Semaphores, Sending,
       Nobody, StopDone
<1>15. CASE Put(c)
  BY <1>15, SyncAssumption DEF CommandInv, Types, CallTypes, Semaphores, Sending,
       Nobody, Put
<1>16. CASE Get(c)
  <2>1. /\ UNCHANGED <<cmdLock, cmdSend, cmdRecv, cmd, sems>>
        /\ \A d \in Callers \ {c} : call'[d] = call[d]
        /\ ~Sending(c) /\ ~Sending(c)'
    BY <1>16 DEF Get, Types, CallTypes, Sending
  <2>2. cmdLock # c
    BY <2>1 DEF CommandInv
  <2> QED
    BY <2>1, <2>2 DEF CommandInv, Sending
<1>17. CASE Release(c)
  BY <1>17, SyncAssumption DEF CommandInv, Types, CallTypes, Semaphores, Sending,
       Nobody, Release
<1>18. CASE CommandSend(c)
  BY <1>18, SyncAssumption DEF CommandInv, Types, CallTypes, Semaphores, Sending,
       Nobody, CommandSend, Send, LockFree
<1>19. CASE Reset(c)
  BY <1>19, SyncAssumption DEF CommandInv, Types, CallTypes, Semaphores, Sending,
       Nobody, Reset
<1>20. CASE Stop(c)
  BY <1>20, SyncAssumption DEF CommandInv, Types, CallTypes, Semaphores, Sending,
       Nobody, Stop
<1> QED
  BY <1>1, <1>2, <1>3, <1>4, <1>5, <1>6, <1>7, <1>8, <1>9, <1>10, <1>11, <1>12,
     <1>13, <1>14, <1>15, <1>16, <1>17, <1>18, <1>19, <1>20 DEF CallStep, InCall

-----------------------------------------------------------------------------
\* Each thread hands a reset on once.
LEMMA ResetByParser ==
  ASSUME ResetInv, Types, StopInv, ParserStep
  PROVE  ResetInv'
<1> USE DEF parserVars, flagVars, halVars, ctrlVars, dataVars, callVars, GoTo,
      Passed, Blocked
<1>1. CASE CheckWait
  BY <1>1 DEF ResetInv, Types, TaskTypes, CallTypes, Semaphores, Resetting, Tests,
       At, CheckWait, StaysUp, Control
<1>2. CASE ProcControl
  BY <1>2 DEF ResetInv, Types, TaskTypes, CallTypes, Semaphores, Resetting, Tests,
       At, ProcControl
<1>3. CASE NoControl
  BY <1>3 DEF ResetInv, Types, TaskTypes, CallTypes, Semaphores, Resetting, Tests,
       At, NoControl
<1>4. CASE ResetPost
  BY <1>4 DEF ResetInv, Types, TaskTypes, CallTypes, Semaphores, Resetting, Tests,
       At, ResetPost, HalWoken
<1>5. CASE ResetParser
  BY <1>5 DEF ResetInv, Types, TaskTypes, CallTypes, Semaphores, Resetting, Tests,
       At, ResetParser, NoTask, Take
<1>6. CASE ResetDone
  BY <1>6 DEF ResetInv, Types, TaskTypes, CallTypes, Semaphores, Resetting, Tests,
       At, ResetDone, Post
<1>7. CASE GetHnd
  BY <1>7 DEF ResetInv, Types, TaskTypes, CallTypes, Semaphores, Resetting, Tests,
       At, GetHnd, IdleTasks, AfterHnd, AfterPacket, AfterPrev
<1>8. CASE GetPacket
  BY <1>8 DEF ResetInv, Types, TaskTypes, CallTypes, Semaphores, Resetting, Tests,
       At, GetPacket, AfterPacket, AfterPrev
<1>9. CASE CheckPrev
  BY <1>9 DEF ResetInv, Types, TaskTypes, CallTypes, Semaphores, Resetting, Tests,
       At, CheckPrev, AfterPrev
<1>10. CASE CheckAllDone
  BY <1>10 DEF ResetInv, Types, TaskTypes, CallTypes, Semaphores, Resetting, Tests,
       At, CheckAllDone
<1>11. CASE CheckFrames
  BY <1>11 DEF ResetInv, Types, TaskTypes, CallTypes, Semaphores, Resetting, Tests,
       At, CheckFrames
<1>12. CASE ParsePicture
  BY <1>12 DEF ResetInv, Types, TaskTypes, CallTypes, Semaphores, Resetting, Tests,
       At, ParsePicture
<1>13. CASE ParseNothing
  BY <1>13 DEF ResetInv, Types, TaskTypes, CallTypes, Semaphores, Resetting, Tests,
       At, ParseNothing, PutTask, HalWoken
<1>14. CASE CheckInfo
  BY <1>14 DEF ResetInv, Types, TaskTypes, CallTypes, Semaphores, Resetting, Tests,
       At, CheckInfo, PutTask, HalWoken
<1>15. CASE GetBuffer
  BY <1>15 DEF ResetInv, Types, TaskTypes, CallTypes, Semaphores, Resetting, Tests,
       At, GetBuffer
<1>16. CASE Submit
  BY <1>16 DEF ResetInv, Types, TaskTypes, CallTypes, Semaphores, Resetting, Tests,
       At, Submit, NoTask, PutTask, HalWoken
<1>17. CASE ParserSpurious
  BY <1>17 DEF ResetInv, Types, TaskTypes, CallTypes, Semaphores, Resetting, Tests,
       At, ParserSpurious
<1>18. CASE CheckSlots
  BY <1>18 DEF ResetInv, Types, TaskTypes, CallTypes, Semaphores, Resetting, Tests,
       At, CheckSlots
<1> QED
  BY <1>1, <1>2, <1>3, <1>4, <1>5, <1>6, <1>7, <1>8, <1>9, <1>10, <1>11, <1>12,
     <1>13, <1>14, <1>15, <1>16, <1>17, <1>18 DEF ParserStep, ParserWork

\* The same of the hal thread.
LEMMA ResetByHal ==
  ASSUME ResetInv, Types, StopInv, HalStep
  PROVE  ResetInv'
<1> USE DEF parserVars, flagVars, halVars, ctrlVars, dataVars, callVars, Notify,
      Told, Control
<1>1. CASE HalExit
  BY <1>1 DEF ResetInv, Types, TaskTypes, CallTypes, Semaphores, Resetting, Tests,
       At, HalExit
<1>2. CASE HalTake
  BY <1>2 DEF ResetInv, Types, TaskTypes, CallTypes, Semaphores, Resetting, Tests,
       At, HalTake
<1>3. CASE HalReset
  BY <1>3 DEF ResetInv, Types, TaskTypes, CallTypes, Semaphores, Resetting, Tests,
       At, HalReset, Post, ResetTurn
<1>4. CASE HalSleep
  BY <1>4 DEF ResetInv, Types, TaskTypes, CallTypes, Semaphores, Resetting, Tests,
       At, HalSleep
<1>5. CASE HalStatus
  BY <1>5 DEF ResetInv, Types, TaskTypes, CallTypes, Semaphores, Resetting, Tests,
       At, HalStatus, SetStatus
<1>6. CASE HalOutput
  BY <1>6 DEF ResetInv, Types, TaskTypes, CallTypes, Semaphores, Resetting, Tests,
       At, HalOutput
<1>7. CASE HalNotify
  BY <1>7 DEF ResetInv, Types, TaskTypes, CallTypes, Semaphores, Resetting, Tests,
       At, HalNotify, HalFlags
<1>8. CASE HalSpurious
  BY <1>8 DEF ResetInv, Types, TaskTypes, CallTypes, Semaphores, Resetting, Tests,
       At, HalSpurious
<1> QED
  BY <1>1, <1>2, <1>3, <1>4, <1>5, <1>6, <1>7, <1>8 DEF HalStep, HalWork

\* The same of the application threads.
LEMMA ResetByCall ==
  ASSUME ResetInv, Types, StopInv, NEW c \in Callers, CallStep(c)
  PROVE  ResetInv'
<1> USE DEF parserVars, flagVars, halVars, ctrlVars, dataVars, callVars, At, Step,
      Return, Idle, Begin, InControl, Notify, Told, Control
<1>1. CASE PutNotify(c)
  BY <1>1 DEF ResetInv, Types, CallTypes, Semaphores, Calls, StepsOf, Resetting,
       Tests, PutNotify
<1>2. CASE GetNotify(c)
  <2>1. /\ At(c, "get", 1) \/ At(c, "getinfo", 1)
        /\ Notify({"dis_que_full"})
        /\ UNCHANGED <<halVars, ctrlVars, dataVars, cmdLock, stopped, left>>
    BY <1>2 DEF GetNotify
  <2>2. CASE /\ call' = [call EXCEPT ![c] = [job |-> "none", step |-> 0]]
             /\ At(c, "get", 1)
    BY <2>1, <2>2 DEF ResetInv, Types, CallTypes, Semaphores, Calls, StepsOf,
         Resetting, Tests
  <2>3. CASE /\ call' = [call EXCEPT ![c] = [job |-> "ready", step |-> 0]]
             /\ At(c, "getinfo", 1)
    BY <2>1, <2>3 DEF ResetInv, Types, CallTypes, Semaphores, Calls, StepsOf,
         Resetting, Tests
  <2> QED
    BY <1>2, <2>2, <2>3 DEF GetNotify
<1>3. CASE ReleaseNotify(c)
  BY <1>3 DEF ResetInv, Types, CallTypes, Semaphores, Calls, StepsOf, Resetting,
       Tests, ReleaseNotify, BufferBack
<1>4. CASE ReadySend(c)
  BY <1>4 DEF ResetInv, Types, CallTypes, Semaphores, Calls, StepsOf, Resetting,
       Tests, ReadySend, Send, LockFree, Nobody
<1>5. CASE ControlNotify(c)
  BY <1>5 DEF ResetInv, Types, CallTypes, Semaphores, Calls, StepsOf, Resetting,
       Tests, ControlNotify
<1>6. CASE ControlStart(c)
  BY <1>6 DEF ResetInv, Types, CallTypes, Semaphores, Calls, StepsOf, Resetting,
       Tests, ControlStart, Post
<1>7. CASE ControlDone(c)
  <2>1. /\ sems["cmd_done"] > 0
        /\ sems' = [sems EXCEPT !["cmd_done"] = @ - 1]
        /\ cmdLock' = Nobody
        /\ UNCHANGED <<parserVars, flagVars, halVars, resetFlag, halPost, cmd, cmdSend,
                     cmdRecv, infoChanged, dataVars, stopped, left>>
    BY <1>7 DEF ControlDone, Take
  <2>2. CASE /\ call' = [call EXCEPT ![c] = [job |-> "ready", step |-> 4]]
             /\ At(c, "ready", 3)
    BY <2>1, <2>2 DEF ResetInv, Types, CallTypes, Semaphores, Calls, StepsOf,
         Resetting, Tests
  <2>3. CASE /\ call' = [call EXCEPT ![c] = [job |-> "none", step |-> 0]]
             /\ At(c, "command", 3)
    BY <2>1, <2>3 DEF ResetInv, Types, CallTypes, Semaphores, Calls, StepsOf,
         Resetting, Tests
  <2> QED
    BY <1>7, <2>2, <2>3 DEF ControlDone
<1>8. CASE ReadyNotify(c)
  BY <1>8 DEF ResetInv, Types, CallTypes, Semaphores, Calls, StepsOf, Resetting,
       Tests, ReadyNotify
<1>9. CASE ResetNotify(c)
  BY <1>9 DEF ResetInv, Types, CallTypes, Semaphores, Calls, StepsOf, Resetting,
       Tests, ResetNotify, AllFlags, Bits
<1>10. CASE ResetWait(c)
  BY <1>10 DEF ResetInv, Types, CallTypes, Semaphores, Calls, StepsOf, Resetting,
       Tests, ResetWait, Take
<1>11. CASE FlushFrames(c)
  <2>1. /\ At(c, "reset", 3)
        /\ frames' = << >> /\ unused' = unused + Pictures(frames)
        /\ UNCHANGED <<parserVars, flagVars, halVars, ctrlVars, packets, held,
                     cmdLock, stopped, left>>
    BY <1>11 DEF FlushFrames
  <2>2. CASE /\ call' = [call EXCEPT ![c] = [job |-> "reset", step |-> 4]]
             /\ Pictures(frames) > 0
    BY <2>1, <2>2 DEF ResetInv, Types, CallTypes, Semaphores, Calls, StepsOf,
         Resetting, Tests
  <2>3. CASE /\ call' = [call EXCEPT ![c] = [job |-> "none", step |-> 0]]
             /\ ~(Pictures(frames) > 0)
    BY <2>1, <2>3 DEF ResetInv, Types, CallTypes, Semaphores, Calls, StepsOf,
         Resetting, Tests
  <2> QED
    BY <1>11, <2>2, <2>3 DEF FlushFrames
<1>12. CASE FlushNotify(c)
  BY <1>12 DEF ResetInv, Types, CallTypes, Semaphores, Calls, StepsOf, Resetting,
       Tests, FlushNotify, BufferBack
<1>13. CASE StopHal(c)
  BY <1>13 DEF ResetInv, Types, CallTypes, Semaphores, Calls, StepsOf, Resetting,
       Tests, StopHal, HalWoken
<1>14. CASE StopDone(c)
  BY <1>14 DEF ResetInv, Types, CallTypes, Semaphores, Calls, StepsOf, Resetting,
       Tests, StopDone
<1>15. CASE Put(c)
  BY <1>15 DEF ResetInv, Types, CallTypes, Semaphores, Calls, StepsOf, Resetting,
       Tests, Put
<1>16. CASE Get(c)
  <2>1. /\ call[c] = Idle /\ frames # << >> /\ frames' = Tail(frames)
        /\ UNCHANGED <<parserVars, flagVars, halVars, ctrlVars, packets, unused,
                     cmdLock, stopped, left>>
    BY <1>16 DEF Get
  <2>2. CASE /\ call' = [call EXCEPT ![c] = [job |-> "get", step |-> 1]]
             /\ held' = (IF Head(frames) = "frame" THEN held + 1 ELSE held)
             /\ stopped = {} /\ "get" \in Jobs[c]
    BY <2>1, <2>2 DEF ResetInv, Types, CallTypes, Semaphores, Calls, StepsOf,
         Resetting, Tests
  <2>3. CASE /\ call' = [call EXCEPT ![c] = [job |-> "getinfo", step |-> 1]]
             /\ held' = held /\ Head(frames) = "info"
             /\ stopped = {} /\ "get" \in Jobs[c]
    BY <2>1, <2>3 DEF ResetInv, Types, CallTypes, Semaphores, Calls, StepsOf,
         Resetting, Tests
  <2> QED
    BY <1>16, <2>2, <2>3 DEF Get
<1>17. CASE Release(c)
  BY <1>17 DEF ResetInv, Types, CallTypes, Semaphores, Calls, StepsOf, Resetting,
       Tests, Release
<1>18. CASE CommandSend(c)
  BY <1>18 DEF ResetInv, Types, CallTypes, Semaphores, Calls, StepsOf, Resetting,
       Tests, CommandSend, Send, LockFree, Nobody
<1>19. CASE Reset(c)
  BY <1>19 DEF ResetInv, Types, CallTypes, Semaphores, Calls, StepsOf, Resetting,
       Tests, Reset
<1>20. CASE Stop(c)
  BY <1>20 DEF ResetInv, Types, CallTypes, Semaphores, Calls, StepsOf, Resetting,
       Tests, Stop
<1> QED
  BY <1>1, <1>2, <1>3, <1>4, <1>5, <1>6, <1>7, <1>8, <1>9, <1>10, <1>11, <1>12,
     <1>13, <1>14, <1>15, <1>16, <1>17, <1>18, <1>19, <1>20 DEF CallStep, InCall

-----------------------------------------------------------------------------
\* Each thread passes the buffers on, and loses none.
LEMMA BufferByParser ==
  ASSUME BufferInv, Types, ParserStep
  PROVE  BufferInv'
<1> USE DEF parserVars, flagVars, halVars, ctrlVars, dataVars, callVars, GoTo,
      Passed, Blocked
<1>1. CASE CheckWait
  BY <1>1 DEF BufferInv, Tests, Resetting, One, CheckWait, StaysUp, Control
<1>2. CASE ProcControl
  BY <1>2 DEF BufferInv, Tests, Resetting, One, ProcControl
<1>3. CASE NoControl
  BY <1>3 DEF BufferInv, Tests, Resetting, One, NoControl
<1>4. CASE ResetPost
  BY <1>4 DEF BufferInv, Tests, Resetting, One, ResetPost, HalWoken
<1>5. CASE ResetParser
  BY <1>5 DEF BufferInv, Tests, Resetting, One, ResetParser, NoTask, Take
<1>6. CASE ResetDone
  BY <1>6 DEF BufferInv, Tests, Resetting, One, ResetDone, Post
<1>7. CASE GetHnd
  BY <1>7 DEF BufferInv, Tests, Resetting, One, GetHnd, IdleTasks, AfterHnd,
       AfterPacket, AfterPrev
<1>8. CASE GetPacket
  BY <1>8 DEF BufferInv, Tests, Resetting, One, GetPacket, AfterPacket, AfterPrev
<1>9. CASE CheckPrev
  BY <1>9 DEF BufferInv, Tests, Resetting, One, CheckPrev, AfterPrev
<1>10. CASE CheckAllDone
  BY <1>10 DEF BufferInv, Tests, Resetting, One, CheckAllDone
<1>11. CASE CheckFrames
  BY <1>11 DEF BufferInv, Tests, Resetting, One, CheckFrames
<1>12. CASE ParsePicture
  BY <1>12 DEF BufferInv, Tests, Resetting, One, ParsePicture
<1>13. CASE ParseNothing
  <2>1. \/ UNCHANGED <<procQ, hpc>>
        \/ \E k \in {"eos", "info"} : /\ procQ' = Append(procQ, k)
                                     /\ hpc' = (IF hpc = "asleep" THEN "loop" ELSE hpc)
    BY <1>13 DEF ParseNothing, PutTask, HalWoken
  <2>2. Pictures(procQ') = Pictures(procQ)
    <3>1. CASE procQ' = procQ
      BY <3>1
    <3>2. ASSUME NEW k \in {"eos", "info"}, procQ' = Append(procQ, k)
          PROVE  Pictures(procQ') = Pictures(procQ)
      <4>1. Pictures(Append(procQ, k)) = Pictures(procQ) + One(k = "frame")
        BY QueuesCounted DEF Kinds
      <4>2. One(k = "frame") = 0 /\ Pictures(procQ) \in Nat
        BY QueuesCounted DEF One
      <4> QED
        BY <3>2, <4>1, <4>2
    <3> QED
      BY <2>1, <3>1, <3>2
  <2>3. /\ UNCHANGED <<unused, held, frames, hal>>
        /\ ppc # "submit" /\ ppc' # "submit"
        /\ hpc' = "output" <=> hpc = "output"
    BY <1>13, <2>1 DEF ParseNothing, PutTask
  <2> QED
    BY <2>2, <2>3 DEF BufferInv, One
<1>14. CASE CheckInfo
  <2>1. \/ UNCHANGED <<procQ, hpc>>
        \/ \E k \in {"eos", "info"} : /\ procQ' = Append(procQ, k)
                                     /\ hpc' = (IF hpc = "asleep" THEN "loop" ELSE hpc)
    BY <1>14 DEF CheckInfo, PutTask, HalWoken
  <2>2. Pictures(procQ') = Pictures(procQ)
    <3>1. CASE procQ' = procQ
      BY <3>1
    <3>2. ASSUME NEW k \in {"eos", "info"}, procQ' = Append(procQ, k)
          PROVE  Pictures(procQ') = Pictures(procQ)
      <4>1. Pictures(Append(procQ, k)) = Pictures(procQ) + One(k = "frame")
        BY QueuesCounted DEF Kinds
      <4>2. One(k = "frame") = 0 /\ Pictures(procQ) \in Nat
        BY QueuesCounted DEF One
      <4> QED
        BY <3>2, <4>1, <4>2
    <3> QED
      BY <2>1, <3>1, <3>2
  <2>3. /\ UNCHANGED <<unused, held, frames, hal>>
        /\ ppc # "submit" /\ ppc' # "submit"
        /\ hpc' = "output" <=> hpc = "output"
    BY <1>14, <2>1 DEF CheckInfo, PutTask
  <2> QED
    BY <2>2, <2>3 DEF BufferInv, One
<1>15. CASE GetBuffer
  <2>1. /\ UNCHANGED <<held, frames, procQ, hpc, hal>> /\ ppc = "buffer"
        /\ \/ ppc' = "check" /\ unused' = unused
           \/ ppc' = "submit" /\ unused # 0 /\ unused' = unused - 1
    BY <1>15 DEF GetBuffer
  <2> QED
    BY <2>1, QueuesCounted DEF BufferInv, One
<1>16. CASE Submit
  <2>1. /\ UNCHANGED <<unused, held, frames, hal>> /\ procQ' = Append(procQ, "frame")
        /\ ppc = "submit" /\ ppc' = "check"
        /\ hpc' = "output" <=> hpc = "output"
    BY <1>16 DEF Submit, PutTask, HalWoken
  <2>2. Pictures(procQ') = Pictures(procQ) + 1
    BY <2>1, QueuesCounted DEF Kinds, One
  <2> QED
    BY <2>1, <2>2, QueuesCounted DEF BufferInv, One
<1>17. CASE ParserSpurious
  BY <1>17 DEF BufferInv, Tests, Resetting, One, ParserSpurious
<1>18. CASE CheckSlots
  BY <1>18 DEF BufferInv, Tests, Resetting, One, CheckSlots
<1> QED
  BY <1>1, <1>2, <1>3, <1>4, <1>5, <1>6, <1>7, <1>8, <1>9, <1>10, <1>11, <1>12,
     <1>13, <1>14, <1>15, <1>16, <1>17, <1>18 DEF ParserStep, ParserWork

\* The same of the hal thread.
LEMMA BufferByHal ==
  ASSUME BufferInv, Types, HalStep
  PROVE  BufferInv'
<1> USE DEF parserVars, flagVars, halVars, ctrlVars, dataVars, callVars, Notify,
      Told, Control
<1>1. CASE HalExit
  BY <1>1 DEF BufferInv, Tests, Resetting, One, HalExit
<1>2. CASE HalTake
  BY <1>2 DEF BufferInv, Tests, Resetting, One, HalTake
<1>3. CASE HalReset
  BY <1>3 DEF BufferInv, Tests, Resetting, One, HalReset, Post, ResetTurn
<1>4. CASE HalSleep
  BY <1>4 DEF BufferInv, Tests, Resetting, One, HalSleep
<1>5. CASE HalStatus
  <2>1. /\ UNCHANGED <<unused, held, frames, ppc, hal>> /\ procQ' = Tail(procQ)
        /\ procQ # << >> /\ Head(procQ) = hal
        /\ hpc = "status" /\ hpc' = (IF hal = "frame" THEN "output" ELSE "notify")
    BY <1>5 DEF HalStatus, SetStatus, Types, TaskTypes
  <2>2. Pictures(procQ) = Pictures(procQ') + One(hal = "frame") /\ Pictures(procQ') \in Nat
    BY <2>1, QueuesCounted
  <2> QED
    BY <2>1, <2>2, QueuesCounted DEF BufferInv, One
<1>6. CASE HalOutput
  <2>1. /\ UNCHANGED <<unused, held, procQ, ppc, hal>> /\ frames' = Append(frames, hal)
        /\ hal \in Kinds
        /\ hpc = "output" /\ hpc' = (IF hal = "frame" THEN "notify" ELSE "status")
    BY <1>6 DEF HalOutput, Types, TaskTypes
  <2>2. Pictures(frames') = Pictures(frames) + One(hal = "frame")
    BY <2>1, QueuesCounted
  <2> QED
    BY <2>1, <2>2, QueuesCounted DEF BufferInv, One
<1>7. CASE HalNotify
  BY <1>7 DEF BufferInv, Tests, Resetting, One, HalNotify, HalFlags
<1>8. CASE HalSpurious
  BY <1>8 DEF BufferInv, Tests, Resetting, One, HalSpurious
<1> QED
  BY <1>1, <1>2, <1>3, <1>4, <1>5, <1>6, <1>7, <1>8 DEF HalStep, HalWork

\* The same of the application threads.
LEMMA BufferByCall ==
  ASSUME BufferInv, Types, NEW c \in Callers, CallStep(c)
  PROVE  BufferInv'
<1> USE DEF parserVars, flagVars, halVars, ctrlVars, dataVars, callVars, At, Step,
      Return, Idle, Begin, InControl, Notify, Told, Control
<1>1. CASE PutNotify(c)
  BY <1>1 DEF BufferInv, Tests, Resetting, One, PutNotify
<1>2. CASE GetNotify(c)
  <2>1. /\ At(c, "get", 1) \/ At(c, "getinfo", 1)
        /\ Notify({"dis_que_full"})
        /\ UNCHANGED <<halVars, ctrlVars, dataVars, cmdLock, stopped, left>>
    BY <1>2 DEF GetNotify
  <2>2. CASE /\ call' = [call EXCEPT ![c] = [job |-> "none", step |-> 0]]
             /\ At(c, "get", 1)
    BY <2>1, <2>2 DEF BufferInv, Tests, Resetting, One
  <2>3. CASE /\ call' = [call EXCEPT ![c] = [job |-> "ready", step |-> 0]]
             /\ At(c, "getinfo", 1)
    BY <2>1, <2>3 DEF BufferInv, Tests, Resetting, One
  <2> QED
    BY <1>2, <2>2, <2>3 DEF GetNotify
<1>3. CASE ReleaseNotify(c)
  BY <1>3 DEF BufferInv, Tests, Resetting, One, ReleaseNotify, BufferBack
<1>4. CASE ReadySend(c)
  BY <1>4 DEF BufferInv, Tests, Resetting, One, ReadySend, Send, LockFree, Nobody
<1>5. CASE ControlNotify(c)
  BY <1>5 DEF BufferInv, Tests, Resetting, One, ControlNotify
<1>6. CASE ControlStart(c)
  BY <1>6 DEF BufferInv, Tests, Resetting, One, ControlStart, Post
<1>7. CASE ControlDone(c)
  <2>1. /\ sems["cmd_done"] > 0
        /\ sems' = [sems EXCEPT !["cmd_done"] = @ - 1]
        /\ cmdLock' = Nobody
        /\ UNCHANGED <<parserVars, flagVars, halVars, resetFlag, halPost, cmd, cmdSend,
                     cmdRecv, infoChanged, dataVars, stopped, left>>
    BY <1>7 DEF ControlDone, Take
  <2>2. CASE /\ call' = [call EXCEPT ![c] = [job |-> "ready", step |-> 4]]
             /\ At(c, "ready", 3)
    BY <2>1, <2>2 DEF BufferInv, Tests, Resetting, One
  <2>3. CASE /\ call' = [call EXCEPT ![c] = [job |-> "none", step |-> 0]]
             /\ At(c, "command", 3)
    BY <2>1, <2>3 DEF BufferInv, Tests, Resetting, One
  <2> QED
    BY <1>7, <2>2, <2>3 DEF ControlDone
<1>8. CASE ReadyNotify(c)
  BY <1>8 DEF BufferInv, Tests, Resetting, One, ReadyNotify
<1>9. CASE ResetNotify(c)
  BY <1>9 DEF BufferInv, Tests, Resetting, One, ResetNotify, AllFlags, Bits
<1>10. CASE ResetWait(c)
  BY <1>10 DEF BufferInv, Tests, Resetting, One, ResetWait, Take
<1>11. CASE FlushFrames(c)
  <2>1. /\ UNCHANGED <<held, procQ, ppc, hpc, hal>>
        /\ frames' = << >> /\ unused' = unused + Pictures(frames)
    BY <1>11 DEF FlushFrames
  <2> QED
    BY <2>1, QueuesCounted, PicturesEmpty DEF BufferInv, One
<1>12. CASE FlushNotify(c)
  BY <1>12 DEF BufferInv, Tests, Resetting, One, FlushNotify, BufferBack
<1>13. CASE StopHal(c)
  BY <1>13 DEF BufferInv, Tests, Resetting, One, StopHal, HalWoken
<1>14. CASE StopDone(c)
  BY <1>14 DEF BufferInv, Tests, Resetting, One, StopDone
<1>15. CASE Put(c)
  BY <1>15 DEF BufferInv, Tests, Resetting, One, Put
<1>16. CASE Get(c)
  <2>1. /\ UNCHANGED <<unused, procQ, ppc, hpc, hal>>
        /\ frames # << >> /\ frames' = Tail(frames)
        /\ held' = held + One(Head(frames) = "frame")
    <3>1. held \in Nat
      BY QueuesCounted
    <3> QED
      BY <1>16, <3>1 DEF Get, One
  <2>2. Pictures(frames) = Pictures(frames') + One(Head(frames) = "frame")
        /\ Pictures(frames') \in Nat
    BY <2>1, QueuesCounted
  <2> QED
    BY <2>1, <2>2, QueuesCounted DEF BufferInv, One
<1>17. CASE Release(c)
  BY <1>17, QueuesCounted DEF BufferInv, Tests, Resetting, One, Release
<1>18. CASE CommandSend(c)
  BY <1>18 DEF BufferInv, Tests, Resetting, One, CommandSend, Send, LockFree, Nobody
<1>19. CASE Reset(c)
  BY <1>19 DEF BufferInv, Tests, Resetting, One, Reset
<1>20. CASE Stop(c)
  BY <1>20 DEF BufferInv, Tests, Resetting, One, Stop
<1> QED
  BY <1>1, <1>2, <1>3, <1>4, <1>5, <1>6, <1>7, <1>8, <1>9, <1>10, <1>11, <1>12,
     <1>13, <1>14, <1>15, <1>16, <1>17, <1>18, <1>19, <1>20 DEF CallStep, InCall

-----------------------------------------------------------------------------
\* Each thread keeps to the handles of the hal task group.
LEMMA HandleByParser ==
  ASSUME HandleInv, Types, ParserStep
  PROVE  HandleInv'
<1> USE DEF parserVars, flagVars, halVars, ctrlVars, dataVars, callVars, GoTo,
      Passed, Blocked
<1>1. CASE CheckWait
  BY <1>1, SyncAssumption DEF HandleInv, Types, TaskTypes, Tests, Resetting, One,
       CheckWait, StaysUp, Control
<1>2. CASE ProcControl
  BY <1>2, SyncAssumption DEF HandleInv, Types, TaskTypes, Tests, Resetting, One,
       ProcControl
<1>3. CASE NoControl
  BY <1>3, SyncAssumption DEF HandleInv, Types, TaskTypes, Tests, Resetting, One,
       NoControl
<1>4. CASE ResetPost
  BY <1>4, SyncAssumption DEF HandleInv, Types, TaskTypes, Tests, Resetting, One,
       ResetPost, HalWoken
<1>5. CASE ResetParser
  BY <1>5, SyncAssumption DEF HandleInv, Types, TaskTypes, Tests, Resetting, One,
       ResetParser, NoTask, Take
<1>6. CASE ResetDone
  BY <1>6, SyncAssumption DEF HandleInv, Types, TaskTypes, Tests, Resetting, One,
       ResetDone, Post
<1>7. CASE GetHnd
  <2>1. st \in [hnd : BOOLEAN, curr : BOOLEAN, parsed : BOOLEAN, prevRdy : BOOLEAN,
                infoGen : BOOLEAN]
    BY DEF Types, TaskTypes
  <2>2. UNCHANGED <<procQ, procDone>>
    BY <1>7 DEF GetHnd
  <2>3. CASE st.hnd \/ IdleTasks > 0
    <3>1. One(st'.hnd) + Len(procQ) + procDone <= HalTasks
      <4>1. procDone \in Nat /\ Len(procQ) \in Nat /\ HalTasks \in Nat
        BY SyncAssumption DEF Types, TaskTypes
      <4> QED
        BY <2>3, <4>1 DEF HandleInv, IdleTasks, One
    <3>2. ppc' \in Tests \ {"hnd"} => st'.hnd
      BY <1>7, <2>1, <2>3 DEF GetHnd, AfterHnd, AfterPacket, AfterPrev, Tests
    <3> QED
      BY <2>2, <3>1, <3>2 DEF HandleInv
  <2>4. CASE ~(st.hnd \/ IdleTasks > 0)
    BY <1>7, <2>2, <2>4 DEF GetHnd, HandleInv, Tests
  <2> QED
    BY <2>3, <2>4
<1>8. CASE GetPacket
  BY <1>8, SyncAssumption DEF HandleInv, Types, TaskTypes, Tests, Resetting, One,
       GetPacket, AfterPacket, AfterPrev
<1>9. CASE CheckPrev
  <2>1. /\ UNCHANGED procQ /\ st'.hnd = st.hnd /\ ppc = "prev"
        /\ procDone' = procDone \/ procDone' = procDone - 1
    BY <1>9 DEF CheckPrev, Types, TaskTypes
  <2>2. procDone \in Nat /\ Len(procQ) \in Nat /\ HalTasks \in Nat
    BY SyncAssumption DEF Types, TaskTypes
  <2> QED
    BY <2>1, <2>2 DEF HandleInv, One, Tests
<1>10. CASE CheckAllDone
  BY <1>10, SyncAssumption DEF HandleInv, Types, TaskTypes, Tests, Resetting, One,
       CheckAllDone
<1>11. CASE CheckFrames
  BY <1>11, SyncAssumption DEF HandleInv, Types, TaskTypes, Tests, Resetting, One,
       CheckFrames
<1>12. CASE ParsePicture
  BY <1>12, SyncAssumption DEF HandleInv, Types, TaskTypes, Tests, Resetting, One,
       ParsePicture
<1>13. CASE ParseNothing
  <2>1. /\ ppc = "parse" /\ ppc' = "check" /\ procDone' = procDone /\ st'.hnd = FALSE
        /\ procQ' = procQ \/ procQ' = Append(procQ, "eos")
    BY <1>13 DEF ParseNothing, PutTask, Types, TaskTypes
  <2>2. /\ procDone \in Nat /\ Len(procQ) \in Nat /\ HalTasks \in Nat
        /\ Len(procQ') <= Len(procQ) + 1
    BY <2>1, SyncAssumption DEF Types, TaskTypes
  <2> QED
    BY <2>1, <2>2 DEF HandleInv, One, Tests
<1>14. CASE CheckInfo
  <2>1. CASE infoChanged /\ ~st.infoGen
    <3>1. /\ st'.hnd = FALSE /\ procDone' = procDone /\ ppc = "info" /\ ppc' = "check"
          /\ procQ' = Append(procQ, "info")
      BY <1>14, <2>1 DEF CheckInfo, PutTask, Types, TaskTypes
    <3>2. /\ procDone \in Nat /\ Len(procQ) \in Nat /\ HalTasks \in Nat
          /\ Len(procQ') = Len(procQ) + 1
      BY <3>1, SyncAssumption DEF Types, TaskTypes
    <3> QED
      BY <3>1, <3>2 DEF HandleInv, One, Tests
  <2>2. CASE ~(infoChanged /\ ~st.infoGen)
    <3>1. UNCHANGED <<procQ, procDone>> /\ st'.hnd = st.hnd /\ ppc = "info"
      BY <1>14, <2>2 DEF CheckInfo, PutTask, Types, TaskTypes
    <3> QED
      BY <3>1 DEF HandleInv, One, Tests
  <2> QED
    BY <2>1, <2>2
<1>15. CASE GetBuffer
  BY <1>15, SyncAssumption DEF HandleInv, Types, TaskTypes, Tests, Resetting, One,
       GetBuffer
<1>16. CASE Submit
  BY <1>16, SyncAssumption DEF HandleInv, Types, TaskTypes, Tests, Resetting, One,
       Submit, NoTask, PutTask, HalWoken
<1>17. CASE ParserSpurious
  BY <1>17, SyncAssumption DEF HandleInv, Types, TaskTypes, Tests, Resetting, One,
       ParserSpurious
<1>18. CASE CheckSlots
  BY <1>18, SyncAssumption DEF HandleInv, Types, TaskTypes, Tests, Resetting, One,
       CheckSlots
<1> QED
  BY <1>1, <1>2, <1>3, <1>4, <1>5, <1>6, <1>7, <1>8, <1>9, <1>10, <1>11, <1>12,
     <1>13, <1>14, <1>15, <1>16, <1>17, <1>18 DEF ParserStep, ParserWork

\* The same of the hal thread.
LEMMA HandleByHal ==
  ASSUME HandleInv, Types, HalStep
  PROVE  HandleInv'
<1> USE DEF parserVars, flagVars, halVars, ctrlVars, dataVars, callVars, Notify,
      Told, Control
<1>1. CASE HalExit
  BY <1>1, SyncAssumption DEF HandleInv, Types, TaskTypes, Tests, Resetting, One,
       HalExit
<1>2. CASE HalTake
  BY <1>2, SyncAssumption DEF HandleInv, Types, TaskTypes, Tests, Resetting, One,
       HalTake
<1>3. CASE HalReset
  BY <1>3, SyncAssumption DEF HandleInv, Types, TaskTypes, Tests, Resetting, One,
       HalReset, Post, ResetTurn
<1>4. CASE HalSleep
  BY <1>4, SyncAssumption DEF HandleInv, Types, TaskTypes, Tests, Resetting, One,
       HalSleep
<1>5. CASE HalStatus
  <2>1. /\ UNCHANGED <<st, ppc>> /\ procQ # << >> /\ procQ' = Tail(procQ)
        /\ procDone' = procDone \/ procDone' = procDone + 1
    BY <1>5 DEF HalStatus, SetStatus, Types, TaskTypes
  <2>2. /\ procDone \in Nat /\ Len(procQ) \in Nat /\ HalTasks \in Nat
        /\ Len(procQ') = Len(procQ) - 1
    BY <2>1, QueueTyped, SyncAssumption DEF Types, TaskTypes
  <2> QED
    BY <2>1, <2>2 DEF HandleInv, One
<1>6. CASE HalOutput
  BY <1>6, SyncAssumption DEF HandleInv, Types, TaskTypes, Tests, Resetting, One,
       HalOutput
<1>7. CASE HalNotify
  BY <1>7, SyncAssumption DEF HandleInv, Types, TaskTypes, Tests, Resetting, One,
       HalNotify, HalFlags
<1>8. CASE HalSpurious
  BY <1>8, SyncAssumption DEF HandleInv, Types, TaskTypes, Tests, Resetting, One,
       HalSpurious
<1> QED
  BY <1>1, <1>2, <1>3, <1>4, <1>5, <1>6, <1>7, <1>8 DEF HalStep, HalWork

\* The same of the application threads.
LEMMA HandleByCall ==
  ASSUME HandleInv, Types, NEW c \in Callers, CallStep(c)
  PROVE  HandleInv'
<1> USE DEF parserVars, flagVars, halVars, ctrlVars, dataVars, callVars, At, Step,
      Return, Idle, Begin, InControl, Notify, Told, Control
<1>1. CASE PutNotify(c)
  BY <1>1, SyncAssumption DEF HandleInv, Types, TaskTypes, Tests, Resetting, One,
       PutNotify
<1>2. CASE GetNotify(c)
  <2>1. /\ At(c, "get", 1) \/ At(c, "getinfo", 1)
        /\ Notify({"dis_que_full"})
        /\ UNCHANGED <<halVars, ctrlVars, dataVars, cmdLock, stopped, left>>
    BY <1>2 DEF GetNotify
  <2>2. CASE /\ call' = [call EXCEPT ![c] = [job |-> "none", step |-> 0]]
             /\ At(c, "get", 1)
    BY <2>1, <2>2, SyncAssumption DEF HandleInv, Types, TaskTypes, Tests, Resetting,
         One
  <2>3. CASE /\ call' = [call EXCEPT ![c] = [job |-> "ready", step |-> 0]]
             /\ At(c, "getinfo", 1)
    BY <2>1, <2>3, SyncAssumption DEF HandleInv, Types, TaskTypes, Tests, Resetting,
         One
  <2> QED
    BY <1>2, <2>2, <2>3 DEF GetNotify
<1>3. CASE ReleaseNotify(c)
  BY <1>3, SyncAssumption DEF HandleInv, Types, TaskTypes, Tests, Resetting, One,
       ReleaseNotify, BufferBack
<1>4. CASE ReadySend(c)
  BY <1>4, SyncAssumption DEF HandleInv, Types, TaskTypes, Tests, Resetting, One,
       ReadySend, Send, LockFree, Nobody
<1>5. CASE ControlNotify(c)
  BY <1>5, SyncAssumption DEF HandleInv, Types, TaskTypes, Tests, Resetting, One,
       ControlNotify
<1>6. CASE ControlStart(c)
  BY <1>6, SyncAssumption DEF HandleInv, Types, TaskTypes, Tests, Resetting, One,
       ControlStart, Post
<1>7. CASE ControlDone(c)
  <2>1. /\ sems["cmd_done"] > 0
        /\ sems' = [sems EXCEPT !["cmd_done"] = @ - 1]
        /\ cmdLock' = Nobody
        /\ UNCHANGED <<parserVars, flagVars, halVars, resetFlag, halPost, cmd, cmdSend,
                     cmdRecv, infoChanged, dataVars, stopped, left>>
    BY <1>7 DEF ControlDone, Take
  <2>2. CASE /\ call' = [call EXCEPT ![c] = [job |-> "ready", step |-> 4]]
             /\ At(c, "ready", 3)
    BY <2>1, <2>2, SyncAssumption DEF HandleInv, Types, TaskTypes, Tests, Resetting,
         One
  <2>3. CASE /\ call' = [call EXCEPT ![c] = [job |-> "none", step |-> 0]]
             /\ At(c, "command", 3)
    BY <2>1, <2>3, SyncAssumption DEF HandleInv, Types, TaskTypes, Tests, Resetting,
         One
  <2> QED
    BY <1>7, <2>2, <2>3 DEF ControlDone
<1>8. CASE ReadyNotify(c)
  BY <1>8, SyncAssumption DEF HandleInv, Types, TaskTypes, Tests, Resetting, One,
       ReadyNotify
<1>9. CASE ResetNotify(c)
  BY <1>9, SyncAssumption DEF HandleInv, Types, TaskTypes, Tests, Resetting, One,
       ResetNotify, AllFlags, Bits
<1>10. CASE ResetWait(c)
  BY <1>10, SyncAssumption DEF HandleInv, Types, TaskTypes, Tests, Resetting, One,
       ResetWait, Take
<1>11. CASE FlushFrames(c)
  <2>1. /\ At(c, "reset", 3)
        /\ frames' = << >> /\ unused' = unused + Pictures(frames)
        /\ UNCHANGED <<parserVars, flagVars, halVars, ctrlVars, packets, held,
                     cmdLock, stopped, left>>
    BY <1>11 DEF FlushFrames
  <2>2. CASE /\ call' = [call EXCEPT ![c] = [job |-> "reset", step |-> 4]]
             /\ Pictures(frames) > 0
    BY <2>1, <2>2, SyncAssumption DEF HandleInv, Types, TaskTypes, Tests, Resetting,
         One
  <2>3. CASE /\ call' = [call EXCEPT ![c] = [job |-> "none", step |-> 0]]
             /\ ~(Pictures(frames) > 0)
    BY <2>1, <2>3, SyncAssumption DEF HandleInv, Types, TaskTypes, Tests, Resetting,
         One
  <2> QED
    BY <1>11, <2>2, <2>3 DEF FlushFrames
<1>12. CASE FlushNotify(c)
  BY <1>12, SyncAssumption DEF HandleInv, Types, TaskTypes, Tests, Resetting, One,
       FlushNotify, BufferBack
<1>13. CASE StopHal(c)
  BY <1>13, SyncAssumption DEF HandleInv, Types, TaskTypes, Tests, Resetting, One,
       StopHal, HalWoken
<1>14. CASE StopDone(c)
  BY <1>14, SyncAssumption DEF HandleInv, Types, TaskTypes, Tests, Resetting, One,
       StopDone
<1>15. CASE Put(c)
  BY <1>15, SyncAssumption DEF HandleInv, Types, TaskTypes, Tests, Resetting, One,
       Put
<1>16. CASE Get(c)
  <2>1. /\ call[c] = Idle /\ frames # << >> /\ frames' = Tail(frames)
        /\ UNCHANGED <<parserVars, flagVars, halVars, ctrlVars, packets, unused,
                     cmdLock, stopped, left>>
    BY <1>16 DEF Get
  <2>2. CASE /\ call' = [call EXCEPT ![c] = [job |-> "get", step |-> 1]]
             /\ held' = (IF Head(frames) = "frame" THEN held + 1 ELSE held)
             /\ stopped = {} /\ "get" \in Jobs[c]
    BY <2>1, <2>2, SyncAssumption DEF HandleInv, Types, TaskTypes, Tests, Resetting,
         One
  <2>3. CASE /\ call' = [call EXCEPT ![c] = [job |-> "getinfo", step |-> 1]]
             /\ held' = held /\ Head(frames) = "info"
             /\ stopped = {} /\ "get" \in Jobs[c]
    BY <2>1, <2>3, SyncAssumption DEF HandleInv, Types, TaskTypes, Tests, Resetting,
         One
  <2> QED
    BY <1>16, <2>2, <2>3 DEF Get
<1>17. CASE Release(c)
  BY <1>17, SyncAssumption DEF HandleInv, Types, TaskTypes, Tests, Resetting, One,
       Release
<1>18. CASE CommandSend(c)
  BY <1>18, SyncAssumption DEF HandleInv, Types, TaskTypes, Tests, Resetting, One,
       CommandSend, Send, LockFree, Nobody
<1>19. CASE Reset(c)
  BY <1>19, SyncAssumption DEF HandleInv, Types, TaskTypes, Tests, Resetting, One,
       Reset
<1>20. CASE Stop(c)
  BY <1>20, SyncAssumption DEF HandleInv, Types, TaskTypes, Tests, Resetting, One,
       Stop
<1> QED
  BY <1>1, <1>2, <1>3, <1>4, <1>5, <1>6, <1>7, <1>8, <1>9, <1>10, <1>11, <1>12,
     <1>13, <1>14, <1>15, <1>16, <1>17, <1>18, <1>19, <1>20 DEF CallStep, InCall

-----------------------------------------------------------------------------
\* Each thread wakes the ones it has something for.
LEMMA SleepByParser ==
  ASSUME SleepInv, Types, StopInv, CommandInv, ResetInv, ParserStep
  PROVE  SleepInv'
<1> USE DEF parserVars, flagVars, halVars, ctrlVars, dataVars, callVars, GoTo,
      Passed, Blocked
<1>1. CASE CheckWait
  BY <1>1 DEF SleepInv, Types, FlagTypes, CallTypes, StopInv, CommandInv, ResetInv,
       Bits, AllFlags, Control, Tests, Resetting, At, InControl, Sending, CheckWait,
       StaysUp
<1>2. CASE ProcControl
  BY <1>2 DEF SleepInv, Types, FlagTypes, CallTypes, StopInv, CommandInv, ResetInv,
       Bits, AllFlags, Control, Tests, Resetting, At, InControl, Sending,
       ProcControl
<1>3. CASE NoControl
  BY <1>3 DEF SleepInv, Types, FlagTypes, CallTypes, StopInv, CommandInv, ResetInv,
       Bits, AllFlags, Control, Tests, Resetting, At, InControl, Sending, NoControl
<1>4. CASE ResetPost
  BY <1>4 DEF SleepInv, Types, FlagTypes, CallTypes, StopInv, CommandInv, ResetInv,
       Bits, AllFlags, Control, Tests, Resetting, At, InControl, Sending, ResetPost,
       HalWoken
<1>5. CASE ResetParser
  BY <1>5 DEF SleepInv, Types, FlagTypes, CallTypes, StopInv, CommandInv, ResetInv,
       Bits, AllFlags, Control, Tests, Resetting, At, InControl, Sending,
       ResetParser, NoTask, Take
<1>6. CASE ResetDone
  BY <1>6 DEF SleepInv, Types, FlagTypes, CallTypes, StopInv, CommandInv, ResetInv,
       Bits, AllFlags, Control, Tests, Resetting, At, InControl, Sending, ResetDone,
       Post
<1>7. CASE GetHnd
  BY <1>7 DEF SleepInv, Types, FlagTypes, CallTypes, StopInv, CommandInv, ResetInv,
       Bits, AllFlags, Control, Tests, Resetting, At, InControl, Sending, GetHnd,
       IdleTasks, AfterHnd, AfterPacket, AfterPrev
<1>8. CASE GetPacket
  BY <1>8 DEF SleepInv, Types, FlagTypes, CallTypes, StopInv, CommandInv, ResetInv,
       Bits, AllFlags, Control, Tests, Resetting, At, InControl, Sending, GetPacket,
       AfterPacket, AfterPrev
<1>9. CASE CheckPrev
  BY <1>9 DEF SleepInv, Types, FlagTypes, CallTypes, StopInv, CommandInv, ResetInv,
       Bits, AllFlags, Control, Tests, Resetting, At, InControl, Sending, CheckPrev,
       AfterPrev
<1>10. CASE CheckAllDone
  BY <1>10 DEF SleepInv, Types, FlagTypes, CallTypes, StopInv, CommandInv, ResetInv,
       Bits, AllFlags, Control, Tests, Resetting, At, InControl, Sending,
       CheckAllDone
<1>11. CASE CheckFrames
  BY <1>11 DEF SleepInv, Types, FlagTypes, CallTypes, StopInv, CommandInv, ResetInv,
       Bits, AllFlags, Control, Tests, Resetting, At, InControl, Sending,
       CheckFrames
<1>12. CASE ParsePicture
  BY <1>12 DEF SleepInv, Types, FlagTypes, CallTypes, StopInv, CommandInv, ResetInv,
       Bits, AllFlags, Control, Tests, Resetting, At, InControl, Sending,
       ParsePicture
<1>13. CASE ParseNothing
  BY <1>13 DEF SleepInv, Types, FlagTypes, CallTypes, StopInv, CommandInv, ResetInv,
       Bits, AllFlags, Control, Tests, Resetting, At, InControl, Sending,
       ParseNothing, PutTask, HalWoken
<1>14. CASE CheckInfo
  BY <1>14 DEF SleepInv, Types, FlagTypes, CallTypes, StopInv, CommandInv, ResetInv,
       Bits, AllFlags, Control, Tests, Resetting, At, InControl, Sending, CheckInfo,
       PutTask, HalWoken
<1>15. CASE GetBuffer
  BY <1>15 DEF SleepInv, Types, FlagTypes, CallTypes, StopInv, CommandInv, ResetInv,
       Bits, AllFlags, Control, Tests, Resetting, At, InControl, Sending, GetBuffer
<1>16. CASE Submit
  BY <1>16 DEF SleepInv, Types, FlagTypes, CallTypes, StopInv, CommandInv, ResetInv,
       Bits, AllFlags, Control, Tests, Resetting, At, InControl, Sending, Submit,
       NoTask, PutTask, HalWoken
<1>17. CASE ParserSpurious
  BY <1>17 DEF SleepInv, Types, FlagTypes, CallTypes, StopInv, CommandInv, ResetInv,
       Bits, AllFlags, Control, Tests, Resetting, At, InControl, Sending,
       ParserSpurious
<1>18. CASE CheckSlots
  BY <1>18 DEF SleepInv, Types, FlagTypes, CallTypes, StopInv, CommandInv, ResetInv,
       Bits, AllFlags, Control, Tests, Resetting, At, InControl, Sending,
       CheckSlots
<1> QED
  BY <1>1, <1>2, <1>3, <1>4, <1>5, <1>6, <1>7, <1>8, <1>9, <1>10, <1>11, <1>12,
     <1>13, <1>14, <1>15, <1>16, <1>17, <1>18 DEF ParserStep, ParserWork

\* The same of the hal thread.
LEMMA SleepByHal ==
  ASSUME SleepInv, Types, StopInv, CommandInv, ResetInv, HalStep
  PROVE  SleepInv'
<1> USE DEF parserVars, flagVars, halVars, ctrlVars, dataVars, callVars, Notify,
      Told, Control
<1>1. CASE HalExit
  BY <1>1 DEF SleepInv, Types, FlagTypes, CallTypes, StopInv, CommandInv, ResetInv,
       Bits, AllFlags, Control, Tests, Resetting, At, InControl, Sending, HalExit
<1>2. CASE HalTake
  BY <1>2 DEF SleepInv, Types, FlagTypes, CallTypes, StopInv, CommandInv, ResetInv,
       Bits, AllFlags, Control, Tests, Resetting, At, InControl, Sending, HalTake
<1>3. CASE HalReset
  BY <1>3 DEF SleepInv, Types, FlagTypes, CallTypes, StopInv, CommandInv, ResetInv,
       Bits, AllFlags, Control, Tests, Resetting, At, InControl, Sending, HalReset,
       Post, ResetTurn
<1>4. CASE HalSleep
  BY <1>4 DEF SleepInv, Types, FlagTypes, CallTypes, StopInv, CommandInv, ResetInv,
       Bits, AllFlags, Control, Tests, Resetting, At, InControl, Sending, HalSleep
<1>5. CASE HalStatus
  BY <1>5 DEF SleepInv, Types, FlagTypes, CallTypes, StopInv, CommandInv, ResetInv,
       Bits, AllFlags, Control, Tests, Resetting, At, InControl, Sending, HalStatus,
       SetStatus
<1>6. CASE HalOutput
  BY <1>6 DEF SleepInv, Types, FlagTypes, CallTypes, StopInv, CommandInv, ResetInv,
       Bits, AllFlags, Control, Tests, Resetting, At, InControl, Sending, HalOutput
<1>7. CASE HalNotify
  BY <1>7 DEF SleepInv, Types, FlagTypes, CallTypes, StopInv, CommandInv, ResetInv,
       Bits, AllFlags, Control, Tests, Resetting, At, InControl, Sending, HalNotify,
       HalFlags
<1>8. CASE HalSpurious
  BY <1>8 DEF SleepInv, Types, FlagTypes, CallTypes, StopInv, CommandInv, ResetInv,
       Bits, AllFlags, Control, Tests, Resetting, At, InControl, Sending,
       HalSpurious
<1> QED
  BY <1>1, <1>2, <1>3, <1>4, <1>5, <1>6, <1>7, <1>8 DEF HalStep, HalWork

\* The same of the application threads.
LEMMA SleepByCall ==
  ASSUME SleepInv, Types, StopInv, CommandInv, ResetInv, NEW c \in Callers, CallStep(c)
  PROVE  SleepInv'
<1> USE DEF parserVars, flagVars, halVars, ctrlVars, dataVars, callVars, At, Step,
      Return, Idle, Begin, InControl, Notify, Told, Control
<1>1. CASE PutNotify(c)
  BY <1>1 DEF SleepInv, Types, FlagTypes, CallTypes, Calls, StepsOf, Bits, AllFlags,
       Control, Tests, Resetting, CommandInv, ResetInv, StopInv, Sending, PutNotify
<1>2. CASE GetNotify(c)
  <2>1. /\ At(c, "get", 1) \/ At(c, "getinfo", 1)
        /\ Notify({"dis_que_full"})
        /\ UNCHANGED <<halVars, ctrlVars, dataVars, cmdLock, stopped, left>>
    BY <1>2 DEF GetNotify
  <2>2. CASE /\ call' = [call EXCEPT ![c] = [job |-> "none", step |-> 0]]
             /\ At(c, "get", 1)
    BY <2>1, <2>2 DEF SleepInv, Types, FlagTypes, CallTypes, Calls, StepsOf, Bits,
         AllFlags, Control, Tests, Resetting, CommandInv, ResetInv, StopInv, Sending
  <2>3. CASE /\ call' = [call EXCEPT ![c] = [job |-> "ready", step |-> 0]]
             /\ At(c, "getinfo", 1)
    BY <2>1, <2>3 DEF SleepInv, Types, FlagTypes, CallTypes, Calls, StepsOf, Bits,
         AllFlags, Control, Tests, Resetting, CommandInv, ResetInv, StopInv, Sending
  <2> QED
    BY <1>2, <2>2, <2>3 DEF GetNotify
<1>3. CASE ReleaseNotify(c)
  BY <1>3 DEF SleepInv, Types, FlagTypes, CallTypes, Calls, StepsOf, Bits, AllFlags,
       Control, Tests, Resetting, CommandInv, ResetInv, StopInv, Sending,
       ReleaseNotify, BufferBack
<1>4. CASE ReadySend(c)
  BY <1>4 DEF SleepInv, Types, FlagTypes, CallTypes, Calls, StepsOf, Bits, AllFlags,
       Control, Tests, Resetting, CommandInv, ResetInv, StopInv, Sending, ReadySend,
       Send, LockFree, Nobody
<1>5. CASE ControlNotify(c)
  BY <1>5 DEF SleepInv, Types, FlagTypes, CallTypes, Calls, StepsOf, Bits, AllFlags,
       Control, Tests, Resetting, CommandInv, ResetInv, StopInv, Sending,
       ControlNotify
<1>6. CASE ControlStart(c)
  BY <1>6 DEF SleepInv, Types, FlagTypes, CallTypes, Calls, StepsOf, Bits, AllFlags,
       Control, Tests, Resetting, CommandInv, ResetInv, StopInv, Sending,
       ControlStart, Post
<1>7. CASE ControlDone(c)
  <2>1. /\ sems["cmd_done"] > 0
        /\ sems' = [sems EXCEPT !["cmd_done"] = @ - 1]
        /\ cmdLock' = Nobody
        /\ UNCHANGED <<parserVars, flagVars, halVars, resetFlag, halPost, cmd, cmdSend,
                     cmdRecv, infoChanged, dataVars, stopped, left>>
    BY <1>7 DEF ControlDone, Take
  <2>2. CASE /\ call' = [call EXCEPT ![c] = [job |-> "ready", step |-> 4]]
             /\ At(c, "ready", 3)
    BY <2>1, <2>2 DEF SleepInv, Types, FlagTypes, CallTypes, Calls, StepsOf, Bits,
         AllFlags, Control, Tests, Resetting, CommandInv, ResetInv, StopInv, Sending
  <2>3. CASE /\ call' = [call EXCEPT ![c] = [job |-> "none", step |-> 0]]
             /\ At(c, "command", 3)
    BY <2>1, <2>3 DEF SleepInv, Types, FlagTypes, CallTypes, Calls, StepsOf, Bits,
         AllFlags, Control, Tests, Resetting, CommandInv, ResetInv, StopInv, Sending
  <2> QED
    BY <1>7, <2>2, <2>3 DEF ControlDone
<1>8. CASE ReadyNotify(c)
  BY <1>8 DEF SleepInv, Types, FlagTypes, CallTypes, Calls, StepsOf, Bits, AllFlags,
       Control, Tests, Resetting, CommandInv, ResetInv, StopInv, Sending,
       ReadyNotify
<1>9. CASE ResetNotify(c)
  BY <1>9 DEF SleepInv, Types, FlagTypes, CallTypes, Calls, StepsOf, Bits, AllFlags,
       Control, Tests, Resetting, CommandInv, ResetInv, StopInv, Sending,
       ResetNotify
<1>10. CASE ResetWait(c)
  BY <1>10 DEF SleepInv, Types, FlagTypes, CallTypes, Calls, StepsOf, Bits,
       AllFlags, Control, Tests, Resetting, CommandInv, ResetInv, StopInv, Sending,
       ResetWait, Take
<1>11. CASE FlushFrames(c)
  <2>1. /\ At(c, "reset", 3)
        /\ frames' = << >> /\ unused' = unused + Pictures(frames)
        /\ UNCHANGED <<parserVars, flagVars, halVars, ctrlVars, packets, held,
                     cmdLock, stopped, left>>
    BY <1>11 DEF FlushFrames
  <2>2. CASE /\ call' = [call EXCEPT ![c] = [job |-> "reset", step |-> 4]]
             /\ Pictures(frames) > 0
    BY <2>1, <2>2 DEF SleepInv, Types, FlagTypes, CallTypes, Calls, StepsOf, Bits,
         AllFlags, Control, Tests, Resetting, CommandInv, ResetInv, StopInv, Sending
  <2>3. CASE /\ call' = [call EXCEPT ![c] = [job |-> "none", step |-> 0]]
             /\ ~(Pictures(frames) > 0)
    BY <2>1, <2>3 DEF SleepInv, Types, FlagTypes, CallTypes, Calls, StepsOf, Bits,
         AllFlags, Control, Tests, Resetting, CommandInv, ResetInv, StopInv, Sending
  <2> QED
    BY <1>11, <2>2, <2>3 DEF FlushFrames
<1>12. CASE FlushNotify(c)
  BY <1>12 DEF SleepInv, Types, FlagTypes, CallTypes, Calls, StepsOf, Bits,
       AllFlags, Control, Tests, Resetting, CommandInv, ResetInv, StopInv, Sending,
       FlushNotify, BufferBack
<1>13. CASE StopHal(c)
  BY <1>13 DEF SleepInv, Types, FlagTypes, CallTypes, Calls, StepsOf, Bits,
       AllFlags, Control, Tests, Resetting, CommandInv, ResetInv, StopInv, Sending,
       StopHal, HalWoken
<1>14. CASE StopDone(c)
  BY <1>14 DEF SleepInv, Types, FlagTypes, CallTypes, Calls, StepsOf, Bits,
       AllFlags, Control, Tests, Resetting, CommandInv, ResetInv, StopInv, Sending,
       StopDone
<1>15. CASE Put(c)
  BY <1>15 DEF SleepInv, Types, FlagTypes, CallTypes, Calls, StepsOf, Bits,
       AllFlags, Control, Tests, Resetting, CommandInv, ResetInv, StopInv, Sending,
       Put
<1>16. CASE Get(c)
  <2>1. /\ call[c] = Idle /\ frames # << >> /\ frames' = Tail(frames)
        /\ UNCHANGED <<parserVars, flagVars, halVars, ctrlVars, packets, unused,
                     cmdLock, stopped, left>>
    BY <1>16 DEF Get
  <2>2. CASE /\ call' = [call EXCEPT ![c] = [job |-> "get", step |-> 1]]
             /\ held' = (IF Head(frames) = "frame" THEN held + 1 ELSE held)
             /\ stopped = {} /\ "get" \in Jobs[c]
    BY <2>1, <2>2 DEF SleepInv, Types, FlagTypes, CallTypes, Calls, StepsOf, Bits,
         AllFlags, Control, Tests, Resetting, CommandInv, ResetInv, StopInv, Sending
  <2>3. CASE /\ call' = [call EXCEPT ![c] = [job |-> "getinfo", step |-> 1]]
             /\ held' = held /\ Head(frames) = "info"
             /\ stopped = {} /\ "get" \in Jobs[c]
    BY <2>1, <2>3 DEF SleepInv, Types, FlagTypes, CallTypes, Calls, StepsOf, Bits,
         AllFlags, Control, Tests, Resetting, CommandInv, ResetInv, StopInv, Sending
  <2> QED
    BY <1>16, <2>2, <2>3 DEF Get
<1>17. CASE Release(c)
  BY <1>17 DEF SleepInv, Types, FlagTypes, CallTypes, Calls, StepsOf, Bits,
       AllFlags, Control, Tests, Resetting, CommandInv, ResetInv, StopInv, Sending,
       Release
<1>18. CASE CommandSend(c)
  BY <1>18 DEF SleepInv, Types, FlagTypes, CallTypes, Calls, StepsOf, Bits,
       AllFlags, Control, Tests, Resetting, CommandInv, ResetInv, StopInv, Sending,
       CommandSend, Send, LockFree, Nobody
<1>19. CASE Reset(c)
  BY <1>19 DEF SleepInv, Types, FlagTypes, CallTypes, Calls, StepsOf, Bits,
       AllFlags, Control, Tests, Resetting, CommandInv, ResetInv, StopInv, Sending,
       Reset
<1>20. CASE Stop(c)
  BY <1>20 DEF SleepInv, Types, FlagTypes, CallTypes, Calls, StepsOf, Bits,
       AllFlags, Control, Tests, Resetting, CommandInv, ResetInv, StopInv, Sending,
       Stop
<1> QED
  BY <1>1, <1>2, <1>3, <1>4, <1>5, <1>6, <1>7, <1>8, <1>9, <1>10, <1>11, <1>12,
     <1>13, <1>14, <1>15, <1>16, <1>17, <1>18, <1>19, <1>20 DEF CallStep, InCall

-----------------------------------------------------------------------------
\* Each thread leaves the wait bits to the tests of the parser thread.
LEMMA WaitByParser ==
  ASSUME WaitInv, Types, ParserStep
  PROVE  WaitInv'
<1> USE DEF parserVars, flagVars, halVars, ctrlVars, dataVars, callVars, GoTo,
      Passed, Blocked
<1>1. CASE CheckWait
  BY <1>1 DEF WaitInv, Tests, Resetting, Types, TaskTypes, FlagTypes, Bits, NoTask,
       CheckWait, StaysUp, Control
<1>2. CASE ProcControl
  BY <1>2 DEF WaitInv, Tests, Resetting, Types, TaskTypes, FlagTypes, Bits, NoTask,
       ProcControl
<1>3. CASE NoControl
  BY <1>3 DEF WaitInv, Tests, Resetting, Types, TaskTypes, FlagTypes, Bits, NoTask,
       NoControl
<1>4. CASE ResetPost
  BY <1>4 DEF WaitInv, Tests, Resetting, Types, TaskTypes, FlagTypes, Bits, NoTask,
       ResetPost, HalWoken
<1>5. CASE ResetParser
  BY <1>5 DEF WaitInv, Tests, Resetting, Types, TaskTypes, FlagTypes, Bits, NoTask,
       ResetParser, Take
<1>6. CASE ResetDone
  BY <1>6 DEF WaitInv, Tests, Resetting, Types, TaskTypes, FlagTypes, Bits, NoTask,
       ResetDone, Post
<1>7. CASE GetHnd
  BY <1>7 DEF WaitInv, Tests, Resetting, Types, TaskTypes, FlagTypes, Bits, NoTask,
       GetHnd, IdleTasks, AfterHnd, AfterPacket, AfterPrev
<1>8. CASE GetPacket
  <2>1. CASE packets > 0
    <3>1. /\ st'.curr = TRUE /\ st'.prevRdy = st.prevRdy /\ st'.parsed = st.parsed
          /\ st'.infoGen = st.infoGen
      BY <1>8, <2>1 DEF GetPacket, Types, TaskTypes
    <3>2. /\ wait' = wait \ {"dec_pkt_in"} /\ infoChanged' = infoChanged /\ ppc = "pkt"
          /\ ppc' = (IF FastMode \/ st.prevRdy
                     THEN IF "dec_all_done" \in wait THEN "all" ELSE "full" ELSE "prev")
      BY <1>8, <2>1, SyncAssumption DEF GetPacket, AfterPacket, AfterPrev, Types, TaskTypes
    <3> QED
      BY <3>1, <3>2 DEF WaitInv, Tests
  <2>2. CASE ~(packets > 0)
    BY <1>8, <2>2 DEF WaitInv, GetPacket, Tests
  <2> QED
    BY <2>1, <2>2
<1>9. CASE CheckPrev
  <2>1. CASE procDone > 0
    <3>1. /\ st'.curr = st.curr /\ st'.prevRdy = TRUE /\ st'.parsed = st.parsed
          /\ st'.infoGen = st.infoGen
      BY <1>9, <2>1 DEF CheckPrev, Types, TaskTypes
    <3>2. /\ wait' = wait \ {"prev_task"} /\ infoChanged' = infoChanged /\ ppc = "prev"
          /\ ppc' = (IF "dec_all_done" \in wait THEN "all" ELSE "full")
      BY <1>9, <2>1 DEF CheckPrev, AfterPrev
    <3> QED
      BY <3>1, <3>2 DEF WaitInv, Tests
  <2>2. CASE ~(procDone > 0)
    BY <1>9, <2>2 DEF WaitInv, CheckPrev, Tests
  <2> QED
    BY <2>1, <2>2
<1>10. CASE CheckAllDone
  BY <1>10 DEF WaitInv, Tests, Resetting, Types, TaskTypes, FlagTypes, Bits, NoTask,
       CheckAllDone
<1>11. CASE CheckFrames
  BY <1>11 DEF WaitInv, Tests, Resetting, Types, TaskTypes, FlagTypes, Bits, NoTask,
       CheckFrames
<1>12. CASE ParsePicture
  BY <1>12 DEF WaitInv, Tests, Resetting, Types, TaskTypes, FlagTypes, Bits, NoTask,
       ParsePicture
<1>13. CASE ParseNothing
  BY <1>13 DEF WaitInv, Tests, Resetting, Types, TaskTypes, FlagTypes, Bits, NoTask,
       ParseNothing, PutTask, HalWoken
<1>14. CASE CheckInfo
  BY <1>14 DEF WaitInv, Tests, Resetting, Types, TaskTypes, FlagTypes, Bits, NoTask,
       CheckInfo, PutTask, HalWoken
<1>15. CASE GetBuffer
  BY <1>15 DEF WaitInv, Tests, Resetting, Types, TaskTypes, FlagTypes, Bits, NoTask,
       GetBuffer
<1>16. CASE Submit
  BY <1>16 DEF WaitInv, Tests, Resetting, Types, TaskTypes, FlagTypes, Bits, NoTask,
       Submit, PutTask, HalWoken
<1>17. CASE ParserSpurious
  BY <1>17 DEF WaitInv, Tests, Resetting, Types, TaskTypes, FlagTypes, Bits, NoTask,
       ParserSpurious
<1>18. CASE CheckSlots
  BY <1>18 DEF WaitInv, Tests, Resetting, Types, TaskTypes, FlagTypes, Bits, NoTask,
       CheckSlots
<1> QED
  BY <1>1, <1>2, <1>3, <1>4, <1>5, <1>6, <1>7, <1>8, <1>9, <1>10, <1>11, <1>12,
     <1>13, <1>14, <1>15, <1>16, <1>17, <1>18 DEF ParserStep, ParserWork

\* The same of the hal thread.
LEMMA WaitByHal ==
  ASSUME WaitInv, Types, HalStep
  PROVE  WaitInv'
<1> USE DEF parserVars, flagVars, halVars, ctrlVars, dataVars, callVars, Notify,
      Told, Control
<1>1. CASE HalExit
  BY <1>1 DEF WaitInv, Tests, Resetting, Types, TaskTypes, FlagTypes, Bits, NoTask,
       HalExit
<1>2. CASE HalTake
  BY <1>2 DEF WaitInv, Tests, Resetting, Types, TaskTypes, FlagTypes, Bits, NoTask,
       HalTake
<1>3. CASE HalReset
  BY <1>3 DEF WaitInv, Tests, Resetting, Types, TaskTypes, FlagTypes, Bits, NoTask,
       HalReset, Post, ResetTurn
<1>4. CASE HalSleep
  BY <1>4 DEF WaitInv, Tests, Resetting, Types, TaskTypes, FlagTypes, Bits, NoTask,
       HalSleep
<1>5. CASE HalStatus
  BY <1>5 DEF WaitInv, Tests, Resetting, Types, TaskTypes, FlagTypes, Bits, NoTask,
       HalStatus, SetStatus
<1>6. CASE HalOutput
  BY <1>6 DEF WaitInv, Tests, Resetting, Types, TaskTypes, FlagTypes, Bits, NoTask,
       HalOutput
<1>7. CASE HalNotify
  BY <1>7 DEF WaitInv, Tests, Resetting, Types, TaskTypes, FlagTypes, Bits, NoTask,
       HalNotify, HalFlags
<1>8. CASE HalSpurious
  BY <1>8 DEF WaitInv, Tests, Resetting, Types, TaskTypes, FlagTypes, Bits, NoTask,
       HalSpurious
<1> QED
  BY <1>1, <1>2, <1>3, <1>4, <1>5, <1>6, <1>7, <1>8 DEF HalStep, HalWork

\* The same of the application threads.
LEMMA WaitByCall ==
  ASSUME WaitInv, Types, NEW c \in Callers, CallStep(c)
  PROVE  WaitInv'
<1> USE DEF parserVars, flagVars, halVars, ctrlVars, dataVars, callVars, At, Step,
      Return, Idle, Begin, InControl, Notify, Told, Control
<1>1. CASE PutNotify(c)
  BY <1>1 DEF WaitInv, Types, Tests, CallTypes, PutNotify
<1>2. CASE GetNotify(c)
  <2>1. /\ At(c, "get", 1) \/ At(c, "getinfo", 1)
        /\ Notify({"dis_que_full"})
        /\ UNCHANGED <<halVars, ctrlVars, dataVars, cmdLock, stopped, left>>
    BY <1>2 DEF GetNotify
  <2>2. CASE /\ call' = [call EXCEPT ![c] = [job |-> "none", step |-> 0]]
             /\ At(c, "get", 1)
    BY <2>1, <2>2 DEF WaitInv, Types, Tests, CallTypes
  <2>3. CASE /\ call' = [call EXCEPT ![c] = [job |-> "ready", step |-> 0]]
             /\ At(c, "getinfo", 1)
    BY <2>1, <2>3 DEF WaitInv, Types, Tests, CallTypes
  <2> QED
    BY <1>2, <2>2, <2>3 DEF GetNotify
<1>3. CASE ReleaseNotify(c)
  BY <1>3 DEF WaitInv, Types, Tests, CallTypes, ReleaseNotify, BufferBack
<1>4. CASE ReadySend(c)
  BY <1>4 DEF WaitInv, Types, Tests, CallTypes, ReadySend, Send, LockFree, Nobody
<1>5. CASE ControlNotify(c)
  BY <1>5 DEF WaitInv, Types, Tests, CallTypes, ControlNotify
<1>6. CASE ControlStart(c)
  BY <1>6 DEF WaitInv, Types, Tests, CallTypes, ControlStart, Post
<1>7. CASE ControlDone(c)
  <2>1. /\ sems["cmd_done"] > 0
        /\ sems' = [sems EXCEPT !["cmd_done"] = @ - 1]
        /\ cmdLock' = Nobody
        /\ UNCHANGED <<parserVars, flagVars, halVars, resetFlag, halPost, cmd, cmdSend,
                     cmdRecv, infoChanged, dataVars, stopped, left>>
    BY <1>7 DEF ControlDone, Take
  <2>2. CASE /\ call' = [call EXCEPT ![c] = [job |-> "ready", step |-> 4]]
             /\ At(c, "ready", 3)
    BY <2>1, <2>2 DEF WaitInv, Types, Tests, CallTypes
  <2>3. CASE /\ call' = [call EXCEPT ![c] = [job |-> "none", step |-> 0]]
             /\ At(c, "command", 3)
    BY <2>1, <2>3 DEF WaitInv, Types, Tests, CallTypes
  <2> QED
    BY <1>7, <2>2, <2>3 DEF ControlDone
<1>8. CASE ReadyNotify(c)
  BY <1>8 DEF WaitInv, Types, Tests, CallTypes, ReadyNotify
<1>9. CASE ResetNotify(c)
  BY <1>9 DEF WaitInv, Types, Tests, CallTypes, ResetNotify, AllFlags, Bits
<1>10. CASE ResetWait(c)
  BY <1>10 DEF WaitInv, Types, Tests, CallTypes, ResetWait, Take
<1>11. CASE FlushFrames(c)
  <2>1. /\ At(c, "reset", 3)
        /\ frames' = << >> /\ unused' = unused + Pictures(frames)
        /\ UNCHANGED <<parserVars, flagVars, halVars, ctrlVars, packets, held,
                     cmdLock, stopped, left>>
    BY <1>11 DEF FlushFrames
  <2>2. CASE /\ call' = [call EXCEPT ![c] = [job |-> "reset", step |-> 4]]
             /\ Pictures(frames) > 0
    BY <2>1, <2>2 DEF WaitInv, Types, Tests, CallTypes
  <2>3. CASE /\ call' = [call EXCEPT ![c] = [job |-> "none", step |-> 0]]
             /\ ~(Pictures(frames) > 0)
    BY <2>1, <2>3 DEF WaitInv, Types, Tests, CallTypes
  <2> QED
    BY <1>11, <2>2, <2>3 DEF FlushFrames
<1>12. CASE FlushNotify(c)
  BY <1>12 DEF WaitInv, Types, Tests, CallTypes, FlushNotify, BufferBack
<1>13. CASE StopHal(c)
  BY <1>13 DEF WaitInv, Types, Tests, CallTypes, StopHal, HalWoken
<1>14. CASE StopDone(c)
  BY <1>14 DEF WaitInv, Types, Tests, CallTypes, StopDone
<1>15. CASE Put(c)
  BY <1>15 DEF WaitInv, Types, Tests, CallTypes, Put
<1>16. CASE Get(c)
  <2>1. /\ call[c] = Idle /\ frames # << >> /\ frames' = Tail(frames)
        /\ UNCHANGED <<parserVars, flagVars, halVars, ctrlVars, packets, unused,
                     cmdLock, stopped, left>>
    BY <1>16 DEF Get
  <2>2. CASE /\ call' = [call EXCEPT ![c] = [job |-> "get", step |-> 1]]
             /\ held' = (IF Head(frames) = "frame" THEN held + 1 ELSE held)
             /\ stopped = {} /\ "get" \in Jobs[c]
    BY <2>1, <2>2 DEF WaitInv, Types, Tests, CallTypes
  <2>3. CASE /\ call' = [call EXCEPT ![c] = [job |-> "getinfo", step |-> 1]]
             /\ held' = held /\ Head(frames) = "info"
             /\ stopped = {} /\ "get" \in Jobs[c]
    BY <2>1, <2>3 DEF WaitInv, Types, Tests, CallTypes
  <2> QED
    BY <1>16, <2>2, <2>3 DEF Get
<1>17. CASE Release(c)
  BY <1>17 DEF WaitInv, Types, Tests, CallTypes, Release
<1>18. CASE CommandSend(c)
  BY <1>18 DEF WaitInv, Types, Tests, CallTypes, CommandSend, Send, LockFree, Nobody
<1>19. CASE Reset(c)
  BY <1>19 DEF WaitInv, Types, Tests, CallTypes, Reset
<1>20. CASE Stop(c)
  BY <1>20 DEF WaitInv, Types, Tests, CallTypes, Stop
<1> QED
  BY <1>1, <1>2, <1>3, <1>4, <1>5, <1>6, <1>7, <1>8, <1>9, <1>10, <1>11, <1>12,
     <1>13, <1>14, <1>15, <1>16, <1>17, <1>18, <1>19, <1>20 DEF CallStep, InCall

-----------------------------------------------------------------------------
\* Nothing comes in while a reset empties what the decoder holds.
LEMMA DrainByParser ==
  ASSUME DrainInv, Types, StopInv, ResetInv, WaitInv, FeedersReset, ParserStep
  PROVE  DrainInv'
<1> USE DEF parserVars, flagVars, halVars, ctrlVars, dataVars, callVars, GoTo,
      Passed, Blocked
<1>1. CASE CheckWait
  BY <1>1 DEF DrainInv, Types, TaskTypes, FlagTypes, CallTypes, Tests, Resetting,
       StopInv, ResetInv, WaitInv, Bits, At, CheckWait, StaysUp, Control
<1>2. CASE ProcControl
  BY <1>2 DEF DrainInv, Types, TaskTypes, FlagTypes, CallTypes, Tests, Resetting,
       StopInv, ResetInv, WaitInv, Bits, At, ProcControl
<1>3. CASE NoControl
  BY <1>3 DEF DrainInv, Types, TaskTypes, FlagTypes, CallTypes, Tests, Resetting,
       StopInv, ResetInv, WaitInv, Bits, At, NoControl
<1>4. CASE ResetPost
  BY <1>4 DEF DrainInv, Types, TaskTypes, FlagTypes, CallTypes, Tests, Resetting,
       StopInv, ResetInv, WaitInv, Bits, At, ResetPost, HalWoken
<1>5. CASE ResetParser
  BY <1>5 DEF DrainInv, Types, TaskTypes, FlagTypes, CallTypes, Tests, Resetting,
       StopInv, ResetInv, WaitInv, Bits, At, ResetParser, NoTask, Take
<1>6. CASE ResetDone
  BY <1>6 DEF DrainInv, Types, TaskTypes, FlagTypes, CallTypes, Tests, Resetting,
       StopInv, ResetInv, WaitInv, Bits, At, ResetDone, Post
<1>7. CASE GetHnd
  <2>1. /\ ppc = "hnd" /\ st'.curr = st.curr
        /\ \/ wait' = wait \ {"task_hnd"} /\ (~st.curr => ppc' = "pkt")
           \/ wait' = wait \cup {"task_hnd"} /\ ppc' = "check"
        /\ ppc' \notin Resetting
        /\ UNCHANGED <<resetFlag, packets, call>>
    BY <1>7 DEF GetHnd, AfterHnd, AfterPacket, AfterPrev, Types, TaskTypes, Resetting
  <2> QED
    BY <2>1 DEF DrainInv, Resetting
<1>8. CASE GetPacket
  BY <1>8 DEF DrainInv, Types, TaskTypes, FlagTypes, CallTypes, Tests, Resetting,
       StopInv, ResetInv, WaitInv, Bits, At, GetPacket, AfterPacket, AfterPrev
<1>9. CASE CheckPrev
  BY <1>9 DEF DrainInv, Types, TaskTypes, FlagTypes, CallTypes, Tests, Resetting,
       StopInv, ResetInv, WaitInv, Bits, At, CheckPrev, AfterPrev
<1>10. CASE CheckAllDone
  BY <1>10 DEF DrainInv, Types, TaskTypes, FlagTypes, CallTypes, Tests, Resetting,
       StopInv, ResetInv, WaitInv, Bits, At, CheckAllDone
<1>11. CASE CheckFrames
  BY <1>11 DEF DrainInv, Types, TaskTypes, FlagTypes, CallTypes, Tests, Resetting,
       StopInv, ResetInv, WaitInv, Bits, At, CheckFrames
<1>12. CASE ParsePicture
  BY <1>12 DEF DrainInv, Types, TaskTypes, FlagTypes, CallTypes, Tests, Resetting,
       StopInv, ResetInv, WaitInv, Bits, At, ParsePicture
<1>13. CASE ParseNothing
  BY <1>13 DEF DrainInv, Types, TaskTypes, FlagTypes, CallTypes, Tests, Resetting,
       StopInv, ResetInv, WaitInv, Bits, At, ParseNothing, PutTask, HalWoken
<1>14. CASE CheckInfo
  BY <1>14 DEF DrainInv, Types, TaskTypes, FlagTypes, CallTypes, Tests, Resetting,
       StopInv, ResetInv, WaitInv, Bits, At, CheckInfo, PutTask, HalWoken
<1>15. CASE GetBuffer
  BY <1>15 DEF DrainInv, Types, TaskTypes, FlagTypes, CallTypes, Tests, Resetting,
       StopInv, ResetInv, WaitInv, Bits, At, GetBuffer
<1>16. CASE Submit
  BY <1>16 DEF DrainInv, Types, TaskTypes, FlagTypes, CallTypes, Tests, Resetting,
       StopInv, ResetInv, WaitInv, Bits, At, Submit, NoTask, PutTask, HalWoken
<1>17. CASE ParserSpurious
  BY <1>17 DEF DrainInv, Types, TaskTypes, FlagTypes, CallTypes, Tests, Resetting,
       StopInv, ResetInv, WaitInv, Bits, At, ParserSpurious
<1>18. CASE CheckSlots
  BY <1>18 DEF DrainInv, Types, TaskTypes, FlagTypes, CallTypes, Tests, Resetting,
       StopInv, ResetInv, WaitInv, Bits, At, CheckSlots
<1> QED
  BY <1>1, <1>2, <1>3, <1>4, <1>5, <1>6, <1>7, <1>8, <1>9, <1>10, <1>11, <1>12,
     <1>13, <1>14, <1>15, <1>16, <1>17, <1>18 DEF ParserStep, ParserWork

\* The same of the hal thread.
LEMMA DrainByHal ==
  ASSUME DrainInv, Types, StopInv, ResetInv, WaitInv, FeedersReset, HalStep
  PROVE  DrainInv'
<1> USE DEF parserVars, flagVars, halVars, ctrlVars, dataVars, callVars, Notify,
      Told, Control
<1>1. CASE HalExit
  BY <1>1 DEF DrainInv, Types, TaskTypes, FlagTypes, CallTypes, Tests, Resetting,
       StopInv, ResetInv, WaitInv, Bits, At, HalExit
<1>2. CASE HalTake
  BY <1>2 DEF DrainInv, Types, TaskTypes, FlagTypes, CallTypes, Tests, Resetting,
       StopInv, ResetInv, WaitInv, Bits, At, HalTake
<1>3. CASE HalReset
  BY <1>3 DEF DrainInv, Types, TaskTypes, FlagTypes, CallTypes, Tests, Resetting,
       StopInv, ResetInv, WaitInv, Bits, At, HalReset, Post, ResetTurn
<1>4. CASE HalSleep
  BY <1>4 DEF DrainInv, Types, TaskTypes, FlagTypes, CallTypes, Tests, Resetting,
       StopInv, ResetInv, WaitInv, Bits, At, HalSleep
<1>5. CASE HalStatus
  BY <1>5 DEF DrainInv, Types, TaskTypes, FlagTypes, CallTypes, Tests, Resetting,
       StopInv, ResetInv, WaitInv, Bits, At, HalStatus, SetStatus
<1>6. CASE HalOutput
  BY <1>6 DEF DrainInv, Types, TaskTypes, FlagTypes, CallTypes, Tests, Resetting,
       StopInv, ResetInv, WaitInv, Bits, At, HalOutput
<1>7. CASE HalNotify
  BY <1>7 DEF DrainInv, Types, TaskTypes, FlagTypes, CallTypes, Tests, Resetting,
       StopInv, ResetInv, WaitInv, Bits, At, HalNotify, HalFlags
<1>8. CASE HalSpurious
  BY <1>8 DEF DrainInv, Types, TaskTypes, FlagTypes, CallTypes, Tests, Resetting,
       StopInv, ResetInv, WaitInv, Bits, At, HalSpurious
<1> QED
  BY <1>1, <1>2, <1>3, <1>4, <1>5, <1>6, <1>7, <1>8 DEF HalStep, HalWork

\* The same of the application threads.
LEMMA DrainByCall ==
  ASSUME DrainInv, Types, StopInv, ResetInv, WaitInv, FeedersReset, NEW c \in Callers,
         CallStep(c)
  PROVE  DrainInv'
<1> USE DEF parserVars, flagVars, halVars, ctrlVars, dataVars, callVars, At, Step,
      Return, Idle, Begin, InControl, Notify, Told, Control
<1>1. CASE PutNotify(c)
  BY <1>1 DEF DrainInv, Types, CallTypes, Calls, StepsOf, FeedersReset, ResetInv,
       Resetting, StopInv, PutNotify
<1>2. CASE GetNotify(c)
  <2>1. /\ At(c, "get", 1) \/ At(c, "getinfo", 1)
        /\ Notify({"dis_que_full"})
        /\ UNCHANGED <<halVars, ctrlVars, dataVars, cmdLock, stopped, left>>
    BY <1>2 DEF GetNotify
  <2>2. CASE /\ call' = [call EXCEPT ![c] = [job |-> "none", step |-> 0]]
             /\ At(c, "get", 1)
    BY <2>1, <2>2 DEF DrainInv, Types, CallTypes, Calls, StepsOf, FeedersReset,
         ResetInv, Resetting, StopInv
  <2>3. CASE /\ call' = [call EXCEPT ![c] = [job |-> "ready", step |-> 0]]
             /\ At(c, "getinfo", 1)
    BY <2>1, <2>3 DEF DrainInv, Types, CallTypes, Calls, StepsOf, FeedersReset,
         ResetInv, Resetting, StopInv
  <2> QED
    BY <1>2, <2>2, <2>3 DEF GetNotify
<1>3. CASE ReleaseNotify(c)
  BY <1>3 DEF DrainInv, Types, CallTypes, Calls, StepsOf, FeedersReset, ResetInv,
       Resetting, StopInv, ReleaseNotify, BufferBack
<1>4. CASE ReadySend(c)
  BY <1>4 DEF DrainInv, Types, CallTypes, Calls, StepsOf, FeedersReset, ResetInv,
       Resetting, StopInv, ReadySend, Send, LockFree, Nobody
<1>5. CASE ControlNotify(c)
  BY <1>5 DEF DrainInv, Types, CallTypes, Calls, StepsOf, FeedersReset, ResetInv,
       Resetting, StopInv, ControlNotify
<1>6. CASE ControlStart(c)
  BY <1>6 DEF DrainInv, Types, CallTypes, Calls, StepsOf, FeedersReset, ResetInv,
       Resetting, StopInv, ControlStart, Post
<1>7. CASE ControlDone(c)
  <2>1. /\ sems["cmd_done"] > 0
        /\ sems' = [sems EXCEPT !["cmd_done"] = @ - 1]
        /\ cmdLock' = Nobody
        /\ UNCHANGED <<parserVars, flagVars, halVars, resetFlag, halPost, cmd, cmdSend,
                     cmdRecv, infoChanged, dataVars, stopped, left>>
    BY <1>7 DEF ControlDone, Take
  <2>2. CASE /\ call' = [call EXCEPT ![c] = [job |-> "ready", step |-> 4]]
             /\ At(c, "ready", 3)
    BY <2>1, <2>2 DEF DrainInv, Types, CallTypes, Calls, StepsOf, FeedersReset,
         ResetInv, Resetting, StopInv
  <2>3. CASE /\ call' = [call EXCEPT ![c] = [job |-> "none", step |-> 0]]
             /\ At(c, "command", 3)
    BY <2>1, <2>3 DEF DrainInv, Types, CallTypes, Calls, StepsOf, FeedersReset,
         ResetInv, Resetting, StopInv
  <2> QED
    BY <1>7, <2>2, <2>3 DEF ControlDone
<1>8. CASE ReadyNotify(c)
  BY <1>8 DEF DrainInv, Types, CallTypes, Calls, StepsOf, FeedersReset, ResetInv,
       Resetting, StopInv, ReadyNotify
<1>9. CASE ResetNotify(c)
  BY <1>9 DEF DrainInv, Types, CallTypes, Calls, StepsOf, FeedersReset, ResetInv,
       Resetting, StopInv, ResetNotify, AllFlags, Bits
<1>10. CASE ResetWait(c)
  BY <1>10 DEF DrainInv, Types, CallTypes, Calls, StepsOf, FeedersReset, ResetInv,
       Resetting, StopInv, ResetWait, Take
<1>11. CASE FlushFrames(c)
  <2>1. /\ At(c, "reset", 3)
        /\ frames' = << >> /\ unused' = unused + Pictures(frames)
        /\ UNCHANGED <<parserVars, flagVars, halVars, ctrlVars, packets, held,
                     cmdLock, stopped, left>>
    BY <1>11 DEF FlushFrames
  <2>2. CASE /\ call' = [call EXCEPT ![c] = [job |-> "reset", step |-> 4]]
             /\ Pictures(frames) > 0
    BY <2>1, <2>2 DEF DrainInv, Types, CallTypes, Calls, StepsOf, FeedersReset,
         ResetInv, Resetting, StopInv
  <2>3. CASE /\ call' = [call EXCEPT ![c] = [job |-> "none", step |-> 0]]
             /\ ~(Pictures(frames) > 0)
    BY <2>1, <2>3 DEF DrainInv, Types, CallTypes, Calls, StepsOf, FeedersReset,
         ResetInv, Resetting, StopInv
  <2> QED
    BY <1>11, <2>2, <2>3 DEF FlushFrames
<1>12. CASE FlushNotify(c)
  BY <1>12 DEF DrainInv, Types, CallTypes, Calls, StepsOf, FeedersReset, ResetInv,
       Resetting, StopInv, FlushNotify, BufferBack
<1>13. CASE StopHal(c)
  BY <1>13 DEF DrainInv, Types, CallTypes, Calls, StepsOf, FeedersReset, ResetInv,
       Resetting, StopInv, StopHal, HalWoken
<1>14. CASE StopDone(c)
  BY <1>14 DEF DrainInv, Types, CallTypes, Calls, StepsOf, FeedersReset, ResetInv,
       Resetting, StopInv, StopDone
<1>15. CASE Put(c)
  BY <1>15 DEF DrainInv, Types, CallTypes, Calls, StepsOf, FeedersReset, ResetInv,
       Resetting, StopInv, Put
<1>16. CASE Get(c)
  <2>1. /\ call[c] = Idle /\ frames # << >> /\ frames' = Tail(frames)
        /\ UNCHANGED <<parserVars, flagVars, halVars, ctrlVars, packets, unused,
                     cmdLock, stopped, left>>
    BY <1>16 DEF Get
  <2>2. CASE /\ call' = [call EXCEPT ![c] = [job |-> "get", step |-> 1]]
             /\ held' = (IF Head(frames) = "frame" THEN held + 1 ELSE held)
             /\ stopped = {} /\ "get" \in Jobs[c]
    BY <2>1, <2>2 DEF DrainInv, Types, CallTypes, Calls, StepsOf, FeedersReset,
         ResetInv, Resetting, StopInv
  <2>3. CASE /\ call' = [call EXCEPT ![c] = [job |-> "getinfo", step |-> 1]]
             /\ held' = held /\ Head(frames) = "info"
             /\ stopped = {} /\ "get" \in Jobs[c]
    BY <2>1, <2>3 DEF DrainInv, Types, CallTypes, Calls, StepsOf, FeedersReset,
         ResetInv, Resetting, StopInv
  <2> QED
    BY <1>16, <2>2, <2>3 DEF Get
<1>17. CASE Release(c)
  BY <1>17 DEF DrainInv, Types, CallTypes, Calls, StepsOf, FeedersReset, ResetInv,
       Resetting, StopInv, Release
<1>18. CASE CommandSend(c)
  BY <1>18 DEF DrainInv, Types, CallTypes, Calls, StepsOf, FeedersReset, ResetInv,
       Resetting, StopInv, CommandSend, Send, LockFree, Nobody
<1>19. CASE Reset(c)
  BY <1>19 DEF DrainInv, Types, CallTypes, Calls, StepsOf, FeedersReset, ResetInv,
       Resetting, StopInv, Reset
<1>20. CASE Stop(c)
  BY <1>20 DEF DrainInv, Types, CallTypes, Calls, StepsOf, FeedersReset, ResetInv,
       Resetting, StopInv, Stop
<1> QED
  BY <1>1, <1>2, <1>3, <1>4, <1>5, <1>6, <1>7, <1>8, <1>9, <1>10, <1>11, <1>12,
     <1>13, <1>14, <1>15, <1>16, <1>17, <1>18, <1>19, <1>20 DEF CallStep, InCall

\* What one thread does leaves it to the others to say what they have done.
LEMMA OthersStay ==
  ASSUME NEW c \in Callers, \A d \in Callers \ {c} : call'[d] = call[d]
  PROVE  /\ AnyAt("put", 1) => At(c, "put", 1) \/ AnyAt("put", 1)'
         /\ AnyAt("get", 1) => At(c, "get", 1) \/ AnyAt("get", 1)'
         /\ AnyAt("getinfo", 1) => At(c, "getinfo", 1) \/ AnyAt("getinfo", 1)'
         /\ AnyAt("release", 1) => At(c, "release", 1) \/ AnyAt("release", 1)'
         /\ AnyAt("reset", 4) => At(c, "reset", 4) \/ AnyAt("reset", 4)'
         /\ At(c, "put", 1)' => AnyAt("put", 1)'
         /\ At(c, "get", 1)' => AnyAt("get", 1)'
         /\ At(c, "getinfo", 1)' => AnyAt("getinfo", 1)'
         /\ At(c, "release", 1)' => AnyAt("release", 1)'
         /\ At(c, "reset", 4)' => AnyAt("reset", 4)'
  BY DEF AnyAt, At

-----------------------------------------------------------------------------
\* Each thread leaves a reason to sleep, or is about to wake the parser thread.
LEMMA ReasonByParser ==
  ASSUME ReasonInv, Types, StopInv, CommandInv, ResetInv, WaitInv, DrainInv, ParserStep
  PROVE  ReasonInv'
<1> USE DEF parserVars, flagVars, halVars, ctrlVars, dataVars, callVars, GoTo,
      Passed, Blocked
<1>1. CASE CheckWait
  BY <1>1 DEF ReasonInv, Types, TaskTypes, FlagTypes, CallTypes, Tests, Resetting,
       CommandInv, ResetInv, WaitInv, Bits, At, AnyAt, Reason, IdleTasks, CheckWait,
       StaysUp, Control
<1>2. CASE ProcControl
  BY <1>2 DEF ReasonInv, Types, TaskTypes, FlagTypes, CallTypes, Tests, Resetting,
       CommandInv, ResetInv, WaitInv, Bits, At, AnyAt, Reason, IdleTasks,
       ProcControl
<1>3. CASE NoControl
  BY <1>3 DEF ReasonInv, Types, TaskTypes, FlagTypes, CallTypes, Tests, Resetting,
       CommandInv, ResetInv, WaitInv, Bits, At, AnyAt, Reason, IdleTasks, NoControl
<1>4. CASE ResetPost
  BY <1>4 DEF ReasonInv, Types, TaskTypes, FlagTypes, CallTypes, Tests, Resetting,
       CommandInv, ResetInv, WaitInv, Bits, At, AnyAt, Reason, IdleTasks, ResetPost,
       HalWoken
<1>5. CASE ResetParser
  BY <1>5 DEF ReasonInv, Types, TaskTypes, FlagTypes, CallTypes, Tests, Resetting,
       CommandInv, ResetInv, WaitInv, Bits, At, AnyAt, Reason, IdleTasks,
       ResetParser, NoTask, Take
<1>6. CASE ResetDone
  BY <1>6 DEF ReasonInv, Types, TaskTypes, FlagTypes, CallTypes, Tests, Resetting,
       CommandInv, ResetInv, WaitInv, Bits, At, AnyAt, Reason, IdleTasks, ResetDone,
       Post
<1>7. CASE GetHnd
  BY <1>7 DEF ReasonInv, Types, TaskTypes, FlagTypes, CallTypes, Tests, Resetting,
       CommandInv, ResetInv, WaitInv, Bits, At, AnyAt, Reason, IdleTasks, GetHnd,
       AfterHnd, AfterPacket, AfterPrev
<1>8. CASE GetPacket
  BY <1>8 DEF ReasonInv, Types, TaskTypes, FlagTypes, CallTypes, Tests, Resetting,
       CommandInv, ResetInv, WaitInv, Bits, At, AnyAt, Reason, IdleTasks, GetPacket,
       AfterPacket, AfterPrev
<1>9. CASE CheckPrev
  BY <1>9 DEF ReasonInv, Types, TaskTypes, FlagTypes, CallTypes, Tests, Resetting,
       CommandInv, ResetInv, WaitInv, Bits, At, AnyAt, Reason, IdleTasks, CheckPrev,
       AfterPrev
<1>10. CASE CheckAllDone
  BY <1>10 DEF ReasonInv, Types, TaskTypes, FlagTypes, CallTypes, Tests, Resetting,
       CommandInv, ResetInv, WaitInv, Bits, At, AnyAt, Reason, IdleTasks,
       CheckAllDone
<1>11. CASE CheckFrames
  BY <1>11 DEF ReasonInv, Types, TaskTypes, FlagTypes, CallTypes, Tests, Resetting,
       CommandInv, ResetInv, WaitInv, Bits, At, AnyAt, Reason, IdleTasks,
       CheckFrames
<1>12. CASE ParsePicture
  BY <1>12 DEF ReasonInv, Types, TaskTypes, FlagTypes, CallTypes, Tests, Resetting,
       CommandInv, ResetInv, WaitInv, Bits, At, AnyAt, Reason, IdleTasks,
       ParsePicture
<1>13. CASE ParseNothing
  <2>1. ppc = "parse" /\ wait' = wait
    BY <1>13 DEF ParseNothing
  <2>2. wait = {}
    BY <2>1 DEF WaitInv, Types, FlagTypes, Bits, Tests
  <2> QED
    BY <2>1, <2>2 DEF ReasonInv
<1>14. CASE CheckInfo
  <2>1. CASE infoChanged /\ ~st.infoGen
    <3>1. /\ ppc = "info" /\ wait' = wait
      BY <1>14, <2>1 DEF CheckInfo
    <3>2. wait = {}
      BY <2>1, <3>1 DEF WaitInv, Types, FlagTypes, Bits, Tests
    <3> QED
      BY <3>1, <3>2 DEF ReasonInv
  <2>2. CASE ~(infoChanged /\ ~st.infoGen)
    <3>1. \/ ppc' = "buffer"
          \/ infoChanged' = TRUE /\ wait' = wait \cup {"info_change"}
      BY <1>14, <2>2 DEF CheckInfo
    <3> QED
      BY <3>1 DEF ReasonInv, Reason
  <2> QED
    BY <2>1, <2>2
<1>15. CASE GetBuffer
  BY <1>15 DEF ReasonInv, Types, TaskTypes, FlagTypes, CallTypes, Tests, Resetting,
       CommandInv, ResetInv, WaitInv, Bits, At, AnyAt, Reason, IdleTasks, GetBuffer
<1>16. CASE Submit
  <2>1. ppc = "submit" /\ procQ' = Append(procQ, "frame")
    BY <1>16 DEF Submit, PutTask
  <2>2. wait' = wait \cup {"dec_all_done"} \/ wait' = wait \ {"dec_all_done"}
    BY <1>16 DEF Submit
  <2>3. wait = {}
    BY <2>1 DEF WaitInv, Types, FlagTypes, Bits, Tests
  <2>4. procQ' # << >>
    BY <2>1, QueueTyped DEF Types, TaskTypes, Kinds
  <2> QED
    BY <2>2, <2>3, <2>4 DEF ReasonInv, Reason
<1>17. CASE ParserSpurious
  BY <1>17 DEF ReasonInv, Types, TaskTypes, FlagTypes, CallTypes, Tests, Resetting,
       CommandInv, ResetInv, WaitInv, Bits, At, AnyAt, Reason, IdleTasks,
       ParserSpurious
<1>18. CASE CheckSlots
  BY <1>18 DEF ReasonInv, Types, TaskTypes, FlagTypes, CallTypes, Tests, Resetting,
       CommandInv, ResetInv, WaitInv, Bits, At, AnyAt, Reason, IdleTasks,
       CheckSlots
<1> QED
  BY <1>1, <1>2, <1>3, <1>4, <1>5, <1>6, <1>7, <1>8, <1>9, <1>10, <1>11, <1>12,
     <1>13, <1>14, <1>15, <1>16, <1>17, <1>18 DEF ParserStep, ParserWork

\* The same of the hal thread.
LEMMA ReasonByHal ==
  ASSUME ReasonInv, Types, StopInv, CommandInv, ResetInv, WaitInv, DrainInv, HalStep
  PROVE  ReasonInv'
<1> USE DEF parserVars, flagVars, halVars, ctrlVars, dataVars, callVars, Notify,
      Told, Control
<1>1. CASE HalExit
  BY <1>1 DEF ReasonInv, Types, TaskTypes, FlagTypes, CallTypes, Tests, Resetting,
       CommandInv, ResetInv, WaitInv, Bits, At, AnyAt, Reason, IdleTasks, HalExit
<1>2. CASE HalTake
  BY <1>2 DEF ReasonInv, Types, TaskTypes, FlagTypes, CallTypes, Tests, Resetting,
       CommandInv, ResetInv, WaitInv, Bits, At, AnyAt, Reason, IdleTasks, HalTake
<1>3. CASE HalReset
  BY <1>3 DEF ReasonInv, Types, TaskTypes, FlagTypes, CallTypes, Tests, Resetting,
       CommandInv, ResetInv, WaitInv, Bits, At, AnyAt, Reason, IdleTasks, HalReset,
       Post, ResetTurn
<1>4. CASE HalSleep
  BY <1>4 DEF ReasonInv, Types, TaskTypes, FlagTypes, CallTypes, Tests, Resetting,
       CommandInv, ResetInv, WaitInv, Bits, At, AnyAt, Reason, IdleTasks, HalSleep
<1>5. CASE HalStatus
  BY <1>5 DEF ReasonInv, Types, TaskTypes, FlagTypes, CallTypes, Tests, Resetting,
       CommandInv, ResetInv, WaitInv, Bits, At, AnyAt, Reason, IdleTasks, HalStatus,
       SetStatus
<1>6. CASE HalOutput
  <2>1. /\ UNCHANGED <<st, wait, notifyFlag, ppc, hal, procQ, procDone, packets, unused>>
        /\ UNCHANGED <<infoChanged, call, cmdSend>>
        /\ hpc = "output" /\ hpc' = (IF hal = "frame" THEN "notify" ELSE "status")
        /\ frames' = Append(frames, hal) /\ hal \in Kinds
    BY <1>6 DEF HalOutput, Types, TaskTypes
  <2>2. Len(frames) > DisplayLimit => Len(frames') > DisplayLimit
    BY <2>1, QueueTyped, SyncAssumption DEF Types, TaskTypes
  <2> QED
    BY <2>1, <2>2 DEF ReasonInv, Reason, AnyAt, At, IdleTasks
<1>7. CASE HalNotify
  BY <1>7 DEF ReasonInv, Types, TaskTypes, FlagTypes, CallTypes, Tests, Resetting,
       CommandInv, ResetInv, WaitInv, Bits, At, AnyAt, Reason, IdleTasks, HalNotify,
       HalFlags
<1>8. CASE HalSpurious
  BY <1>8 DEF ReasonInv, Types, TaskTypes, FlagTypes, CallTypes, Tests, Resetting,
       CommandInv, ResetInv, WaitInv, Bits, At, AnyAt, Reason, IdleTasks,
       HalSpurious
<1> QED
  BY <1>1, <1>2, <1>3, <1>4, <1>5, <1>6, <1>7, <1>8 DEF HalStep, HalWork

\* The same of the application threads.
LEMMA ReasonByCall ==
  ASSUME ReasonInv, Types, StopInv, CommandInv, ResetInv, WaitInv, DrainInv,
         NEW c \in Callers, CallStep(c)
  PROVE  ReasonInv'
<1> USE DEF parserVars, flagVars, halVars, ctrlVars, dataVars, callVars, At, Step,
      Return, Idle, Begin, InControl, Notify, Told, Control
<1>1. CASE PutNotify(c)
  <2>1. /\ UNCHANGED <<st, wait, hpc, hal, procQ, procDone, infoChanged>>
        /\ UNCHANGED <<packets, unused, frames, cmdSend>>
        /\ notifyFlag' = notifyFlag \cup {"dec_pkt_in"}
        /\ ppc' = ppc \/ ppc' = "cmd"
    BY <1>1 DEF PutNotify
  <2>2. /\ \A d \in Callers \ {c} : call'[d] = call[d]
        /\ call[c] = [job |-> "put", step |-> 1]
    BY <1>1 DEF Types, CallTypes, PutNotify
  <2> QED
    BY <2>1, <2>2, OthersStay DEF ReasonInv, Reason, IdleTasks
<1>2. CASE GetNotify(c)
  <2>1. /\ UNCHANGED <<st, wait, hpc, hal, procQ, procDone, infoChanged>>
        /\ UNCHANGED <<packets, unused, frames, cmdSend>>
        /\ notifyFlag' = notifyFlag \cup {"dis_que_full"}
        /\ ppc' = ppc \/ ppc' = "cmd"
    BY <1>2 DEF GetNotify
  <2>2. /\ \A d \in Callers \ {c} : call'[d] = call[d]
        /\ call[c].job \in {"get", "getinfo"}
    BY <1>2 DEF Types, CallTypes, GetNotify
  <2> QED
    BY <2>1, <2>2, OthersStay DEF ReasonInv, Reason, IdleTasks
<1>3. CASE ReleaseNotify(c)
  <2>1. /\ UNCHANGED <<st, wait, hpc, hal, procQ, procDone, infoChanged>>
        /\ UNCHANGED <<packets, unused, frames, cmdSend>>
        /\ notifyFlag' = notifyFlag \cup {"dec_pic_unusd", "dec_pic_match"}
        /\ ppc' = ppc \/ ppc' = "cmd"
    BY <1>3 DEF ReleaseNotify, BufferBack
  <2>2. /\ \A d \in Callers \ {c} : call'[d] = call[d]
        /\ call[c] = [job |-> "release", step |-> 1]
    BY <1>3 DEF Types, CallTypes, ReleaseNotify, BufferBack
  <2> QED
    BY <2>1, <2>2, OthersStay DEF ReasonInv, Reason, IdleTasks
<1>4. CASE ReadySend(c)
  BY <1>4 DEF ReasonInv, Types, CallTypes, TaskTypes, Calls, StepsOf, ResetInv,
       CommandInv, DrainInv, WaitInv, AnyAt, Reason, ReadySend, Send, LockFree,
       Nobody
<1>5. CASE ControlNotify(c)
  <2>1. /\ UNCHANGED <<st, wait, hpc, hal, procQ, procDone, infoChanged>>
        /\ UNCHANGED <<packets, unused, frames, cmdSend>>
        /\ notifyFlag' = notifyFlag \cup {"control"}
        /\ ppc' = ppc \/ ppc' = "cmd"
    BY <1>5 DEF ControlNotify
  <2>2. /\ \A d \in Callers \ {c} : call'[d] = call[d]
        /\ call[c].job \in {"ready", "command"}
    BY <1>5 DEF Types, CallTypes, ControlNotify
  <2> QED
    BY <2>1, <2>2, OthersStay DEF ReasonInv, Reason, IdleTasks
<1>6. CASE ControlStart(c)
  <2>1. /\ UNCHANGED <<st, wait, hpc, hal, procQ, procDone, infoChanged>>
        /\ UNCHANGED <<packets, unused, frames, cmdSend>>
        /\ UNCHANGED notifyFlag
        /\ ppc' = ppc \/ ppc' = "cmd"
    BY <1>6 DEF ControlStart, Post
  <2>2. /\ \A d \in Callers \ {c} : call'[d] = call[d]
        /\ call[c].job \in {"ready", "command"}
    BY <1>6 DEF Types, CallTypes, ControlStart, Post
  <2> QED
    BY <2>1, <2>2, OthersStay DEF ReasonInv, Reason, IdleTasks
<1>7. CASE ControlDone(c)
  <2>1. /\ UNCHANGED <<st, wait, hpc, hal, procQ, procDone, infoChanged>>
        /\ UNCHANGED <<packets, unused, frames, cmdSend>>
        /\ UNCHANGED notifyFlag
        /\ ppc' = ppc \/ ppc' = "cmd"
    BY <1>7 DEF ControlDone, Nobody, Take
  <2>2. /\ \A d \in Callers \ {c} : call'[d] = call[d]
        /\ call[c].job \in {"ready", "command"}
    BY <1>7 DEF Types, CallTypes, ControlDone, Nobody, Take
  <2> QED
    BY <2>1, <2>2, OthersStay DEF ReasonInv, Reason, IdleTasks
<1>8. CASE ReadyNotify(c)
  <2>1. /\ UNCHANGED <<st, wait, hpc, hal, procQ, procDone, infoChanged>>
        /\ UNCHANGED <<packets, unused, frames, cmdSend>>
        /\ notifyFlag' = notifyFlag \cup {"info_change", "dec_pic_match"}
        /\ ppc' = ppc \/ ppc' = "cmd"
    BY <1>8 DEF ReadyNotify
  <2>2. /\ \A d \in Callers \ {c} : call'[d] = call[d]
        /\ call[c] = [job |-> "ready", step |-> 4]
    BY <1>8 DEF Types, CallTypes, ReadyNotify
  <2> QED
    BY <2>1, <2>2, OthersStay DEF ReasonInv, Reason, IdleTasks
<1>9. CASE ResetNotify(c)
  BY <1>9 DEF ReasonInv, Types, CallTypes, TaskTypes, Calls, StepsOf, ResetInv,
       CommandInv, DrainInv, WaitInv, AnyAt, Reason, ResetNotify, AllFlags, Bits
<1>10. CASE ResetWait(c)
  <2>1. /\ UNCHANGED <<st, wait, hpc, hal, procQ, procDone, infoChanged>>
        /\ UNCHANGED <<packets, unused, frames, cmdSend>>
        /\ UNCHANGED notifyFlag
        /\ ppc' = ppc \/ ppc' = "cmd"
    BY <1>10 DEF ResetWait, Take
  <2>2. /\ \A d \in Callers \ {c} : call'[d] = call[d]
        /\ call[c] = [job |-> "reset", step |-> 2]
    BY <1>10 DEF Types, CallTypes, ResetWait, Take
  <2> QED
    BY <2>1, <2>2, OthersStay DEF ReasonInv, Reason, IdleTasks
<1>11. CASE FlushFrames(c)
  <2>1. /\ At(c, "reset", 3) /\ ~resetFlag
    <3>1. At(c, "reset", 3)
      BY <1>11 DEF FlushFrames
    <3> QED
      BY <3>1 DEF ResetInv
  <2>2. wait \subseteq {"task_hnd", "dec_pkt_in"}
    BY <2>1 DEF DrainInv
  <2>3. /\ UNCHANGED <<st, wait, notifyFlag, ppc, hpc, hal, procQ, procDone, packets, cmdSend>>
        /\ \A d \in Callers \ {c} : call'[d] = call[d]
    BY <1>11 DEF FlushFrames, Types, CallTypes
  <2> QED
    BY <2>1, <2>2, <2>3, OthersStay DEF ReasonInv, Reason, IdleTasks
<1>12. CASE FlushNotify(c)
  <2>1. /\ UNCHANGED <<st, wait, hpc, hal, procQ, procDone, infoChanged>>
        /\ UNCHANGED <<packets, unused, frames, cmdSend>>
        /\ notifyFlag' = notifyFlag \cup {"dec_pic_unusd", "dec_pic_match"}
        /\ ppc' = ppc \/ ppc' = "cmd"
    BY <1>12 DEF FlushNotify, BufferBack
  <2>2. /\ \A d \in Callers \ {c} : call'[d] = call[d]
        /\ call[c] = [job |-> "reset", step |-> 4]
    BY <1>12 DEF Types, CallTypes, FlushNotify, BufferBack
  <2> QED
    BY <2>1, <2>2, OthersStay DEF ReasonInv, Reason, IdleTasks
<1>13. CASE StopHal(c)
  BY <1>13 DEF ReasonInv, Types, CallTypes, TaskTypes, Calls, StepsOf, ResetInv,
       CommandInv, DrainInv, WaitInv, AnyAt, Reason, StopHal, HalWoken
<1>14. CASE StopDone(c)
  <2>1. /\ UNCHANGED <<st, wait, hpc, hal, procQ, procDone, infoChanged>>
        /\ UNCHANGED <<packets, unused, frames, cmdSend>>
        /\ UNCHANGED notifyFlag
        /\ ppc' = ppc \/ ppc' = "cmd"
    BY <1>14 DEF StopDone
  <2>2. /\ \A d \in Callers \ {c} : call'[d] = call[d]
        /\ call[c].job = "stop"
    BY <1>14 DEF Types, CallTypes, StopDone
  <2> QED
    BY <2>1, <2>2, OthersStay DEF ReasonInv, Reason, IdleTasks
<1>15. CASE Put(c)
  <2>1. /\ UNCHANGED <<st, wait, hpc, hal, procQ, procDone, infoChanged>>
        /\ UNCHANGED <<unused, frames, cmdSend>>
        /\ UNCHANGED notifyFlag
        /\ ppc' = ppc \/ ppc' = "cmd"
    BY <1>15 DEF Put
  <2>2. /\ \A d \in Callers \ {c} : call'[d] = call[d]
        /\ call[c] = [job |-> "none", step |-> 0]
        /\ call'[c] = [job |-> "put", step |-> 1]
    BY <1>15 DEF Types, CallTypes, Put
  <2> QED
    BY <2>1, <2>2, OthersStay DEF ReasonInv, Reason, IdleTasks
<1>16. CASE Get(c)
  <2>1. /\ UNCHANGED <<st, wait, hpc, hal, procQ, procDone, infoChanged>>
        /\ UNCHANGED <<packets, unused, cmdSend>>
        /\ UNCHANGED notifyFlag
        /\ ppc' = ppc \/ ppc' = "cmd"
    BY <1>16 DEF Get
  <2>2. /\ \A d \in Callers \ {c} : call'[d] = call[d]
        /\ call[c] = [job |-> "none", step |-> 0]
        /\ At(c, "get", 1)' \/ At(c, "getinfo", 1)'
    BY <1>16 DEF Types, CallTypes, Get
  <2> QED
    BY <2>1, <2>2, OthersStay DEF ReasonInv, Reason, IdleTasks
<1>17. CASE Release(c)
  <2>1. /\ UNCHANGED <<st, wait, hpc, hal, procQ, procDone, infoChanged>>
        /\ UNCHANGED <<packets, frames, cmdSend>>
        /\ UNCHANGED notifyFlag
        /\ ppc' = ppc \/ ppc' = "cmd"
    BY <1>17 DEF Release
  <2>2. /\ \A d \in Callers \ {c} : call'[d] = call[d]
        /\ call[c] = [job |-> "none", step |-> 0]
        /\ call'[c] = [job |-> "release", step |-> 1]
    BY <1>17 DEF Types, CallTypes, Release
  <2> QED
    BY <2>1, <2>2, OthersStay DEF ReasonInv, Reason, IdleTasks
<1>18. CASE CommandSend(c)
  BY <1>18 DEF ReasonInv, Types, CallTypes, TaskTypes, Calls, StepsOf, ResetInv,
       CommandInv, DrainInv, WaitInv, AnyAt, Reason, CommandSend, Send, LockFree,
       Nobody
<1>19. CASE Reset(c)
  <2>1. /\ UNCHANGED <<st, wait, hpc, hal, procQ, procDone, infoChanged>>
        /\ UNCHANGED <<packets, unused, frames, cmdSend>>
        /\ UNCHANGED notifyFlag
        /\ ppc' = ppc \/ ppc' = "cmd"
    BY <1>19 DEF Reset
  <2>2. /\ \A d \in Callers \ {c} : call'[d] = call[d]
        /\ call[c] = [job |-> "none", step |-> 0]
    BY <1>19 DEF Types, CallTypes, Reset
  <2> QED
    BY <2>1, <2>2, OthersStay DEF ReasonInv, Reason, IdleTasks
<1>20. CASE Stop(c)
  <2>1. /\ UNCHANGED <<st, wait, hpc, hal, procQ, procDone, infoChanged>>
        /\ UNCHANGED <<packets, unused, frames, cmdSend>>
        /\ UNCHANGED notifyFlag
        /\ ppc' = ppc \/ ppc' = "cmd"
    BY <1>20 DEF Stop
  <2>2. /\ \A d \in Callers \ {c} : call'[d] = call[d]
        /\ call[c] = [job |-> "none", step |-> 0]
    BY <1>20 DEF Types, CallTypes, Stop
  <2> QED
    BY <2>1, <2>2, OthersStay DEF ReasonInv, Reason, IdleTasks
<1> QED
  BY <1>1, <1>2, <1>3, <1>4, <1>5, <1>6, <1>7, <1>8, <1>9, <1>10, <1>11, <1>12,
     <1>13, <1>14, <1>15, <1>16, <1>17, <1>18, <1>19, <1>20 DEF CallStep, InCall

-----------------------------------------------------------------------------
\* The parser thread gives up slots while it parses, and loses one in a reset.
LEMMA SlotByParser ==
  ASSUME SlotInv, ResetInv, ParserStep
  PROVE  SlotInv'
<1> USE DEF parserVars, flagVars, halVars, ctrlVars, dataVars, callVars, GoTo,
      Passed, Blocked
<1>1. CASE ResetParser
  <2>1. /\ ppc = "waithal" /\ ppc' = "resetdone" /\ resetFlag /\ UNCHANGED left
        /\ slots' = [kept |-> 0,
                     lost |-> slots.lost + (IF "info_change" \in wait THEN 1 ELSE 0)]
    BY <1>1 DEF ResetParser, ResetInv, Resetting
  <2>2. 0 \in 0 .. References /\ MaxResets \in Nat
    BY SyncAssumption
  <2> QED
    BY <2>1, <2>2 DEF SlotInv, Losing, One
<1>2. CASE ResetDone
  <2>1. UNCHANGED <<slots, left>> /\ resetFlag' = FALSE
    BY <1>2 DEF ResetDone
  <2> QED
    BY <2>1, SyncAssumption DEF SlotInv, Losing, One
<1>3. ASSUME ParsePicture \/ ParseNothing
      PROVE  SlotInv'
  <2>1. PICK k \in 0 .. References : slots' = [slots EXCEPT !.kept = k]
    BY <1>3 DEF ParsePicture, ParseNothing, Keep
  <2>2. ppc = "parse" /\ ppc' # "resetdone" /\ UNCHANGED resetFlag
    BY <1>3 DEF ParsePicture, ParseNothing
  <2>3. /\ left' \in [puts : Nat, infos : Nat, resets : Nat, commands : Nat]
        /\ left'.resets = left.resets
    BY <1>3 DEF ParsePicture, ParseNothing, SlotInv
  <2>4. slots' \in [kept : 0 .. References, lost : Nat] /\ slots'.lost = slots.lost
    BY <2>1 DEF SlotInv
  <2> QED
    BY <2>2, <2>3, <2>4 DEF SlotInv, Losing
<1>4. ASSUME UNCHANGED <<slots, left, resetFlag>>, ppc # "resetdone"
      PROVE  SlotInv'
  BY <1>4, SyncAssumption DEF SlotInv, Losing, One
<1>5. ASSUME ~ResetParser, ~ResetDone, ~ParsePicture, ~ParseNothing
      PROVE  UNCHANGED <<slots, left, resetFlag>> /\ ppc # "resetdone"
  BY <1>5 DEF ParserStep, ParserWork, ParserSpurious, CheckWait, ProcControl,
     NoControl, ResetPost, GetHnd, GetPacket, CheckPrev, CheckAllDone, CheckFrames,
     CheckSlots, CheckInfo, GetBuffer, Submit
<1> QED
  BY <1>1, <1>2, <1>3, <1>4, <1>5

\* The hal thread gives up slots with what it puts into mFrames.
LEMMA SlotByHal ==
  ASSUME SlotInv, HalStep
  PROVE  SlotInv'
<1> USE DEF parserVars, flagVars, halVars, ctrlVars, dataVars, callVars
<1>1. UNCHANGED <<left, resetFlag>>
  BY DEF HalStep, HalWork, HalSpurious, HalExit, HalTake, HalReset, HalSleep,
     HalStatus, HalOutput, HalNotify, Notify
<1>2. ppc' = ppc \/ (ppc = "asleep" /\ ppc' = "cmd")
  BY DEF HalStep, HalWork, HalSpurious, HalExit, HalTake, HalReset, HalSleep,
     HalStatus, HalOutput, HalNotify, Notify
<1>3. slots' \in [kept : 0 .. References, lost : Nat] /\ slots'.lost = slots.lost
  <2>1. CASE HalOutput
    BY <2>1 DEF HalOutput, Keep, SlotInv
  <2>2. CASE ~HalOutput
    BY <2>2 DEF HalStep, HalWork, HalSpurious, HalExit, HalTake, HalReset, HalSleep,
       HalStatus, HalNotify, Notify, SlotInv
  <2> QED
    BY <2>1, <2>2
<1> QED
  BY <1>1, <1>2, <1>3 DEF SlotInv, Losing

\* Mpp::reset takes its turn.
LEMMA SlotByCall ==
  ASSUME SlotInv, ResetInv, Types, NEW c \in Callers, CallStep(c)
  PROVE  SlotInv'
<1> USE DEF parserVars, flagVars, halVars, ctrlVars, dataVars, callVars, At, Step,
      Return, Idle, Begin, InControl, Notify, Told, Control
<1>1. UNCHANGED slots /\ (ppc' = ppc \/ (ppc = "asleep" /\ ppc' = "cmd"))
  BY DEF CallStep, InCall, PutNotify, GetNotify, ReleaseNotify, ReadySend, Send,
     ControlNotify, ControlStart, ControlDone, ReadyNotify, ResetNotify, ResetWait,
     FlushFrames, FlushNotify, StopHal, StopDone, Put, Get, Release, CommandSend,
     Reset, Stop
<1>2. CASE Reset(c)
  <2>1. ~resetFlag
    BY <1>2 DEF Reset, ResetInv
  <2>2. /\ left' = [left EXCEPT !.resets = @ - 1] /\ left.resets > 0
        /\ UNCHANGED ppc
    BY <1>2 DEF Reset
  <2> QED
    BY <1>1, <2>1, <2>2, SyncAssumption DEF SlotInv, Losing, One
<1>3. CASE ~Reset(c)
  <2>1. UNCHANGED resetFlag
    BY <1>3 DEF CallStep, InCall, PutNotify, GetNotify, ReleaseNotify, ReadySend, Send,
       ControlNotify, ControlStart, ControlDone, ReadyNotify, ResetNotify, ResetWait,
       FlushFrames, FlushNotify, StopHal, StopDone, Put, Get, Release, CommandSend,
       Stop
  <2>2. \/ UNCHANGED left
        \/ left.puts > 0 /\ left' = [left EXCEPT !.puts = @ - 1]
        \/ left.commands > 0 /\ left' = [left EXCEPT !.commands = @ - 1]
    BY <1>3 DEF CallStep, InCall, PutNotify, GetNotify, ReleaseNotify, ReadySend, Send,
       ControlNotify, ControlStart, ControlDone, ReadyNotify, ResetNotify, ResetWait,
       FlushFrames, FlushNotify, StopHal, StopDone, Put, Get, Release, CommandSend,
       Stop
  <2>3. /\ left' \in [puts : Nat, infos : Nat, resets : Nat, commands : Nat]
        /\ left'.resets = left.resets
    BY <2>2 DEF SlotInv
  <2> QED
    BY <1>1, <2>1, <2>3 DEF SlotInv, Losing
<1> QED
  BY <1>2, <1>3

-----------------------------------------------------------------------------
\* Nothing changes in a stuttering step.
LEMMA CallStutter ==
  ASSUME CallInv, UNCHANGED vars
  PROVE  CallInv'
<1> USE DEF vars, parserVars, flagVars, halVars,
            ctrlVars, dataVars, callVars
<1>1. Types'
  BY DEF CallInv, Types, TaskTypes, FlagTypes, CallTypes
<1>2. StopInv'
  BY DEF CallInv, StopInv
<1>3. CommandInv'
  BY DEF CallInv, CommandInv, Sending
<1>4. ResetInv'
  BY DEF CallInv, ResetInv, At
<1>5. BufferInv'
  BY DEF CallInv, BufferInv
<1>6. HandleInv'
  BY DEF CallInv, HandleInv
<1>7. SleepInv'
  BY DEF CallInv, SleepInv, At, InControl
<1>8. WaitInv'
  BY DEF CallInv, WaitInv
<1>9. SlotInv'
  BY DEF CallInv, SlotInv, Losing
<1> QED
  BY <1>1, <1>2, <1>3, <1>4, <1>5, <1>6, <1>7, <1>8, <1>9 DEF CallInv

\* The same with what packets and reasons need.
LEMMA WorkStutter ==
  ASSUME WorkInv, UNCHANGED vars
  PROVE  WorkInv'
<1>1. CallInv'
  BY CallStutter DEF WorkInv
<1> USE DEF vars, parserVars, flagVars, halVars,
            ctrlVars, dataVars, callVars
<1>2. DrainInv'
  BY DEF WorkInv, DrainInv
<1>3. ReasonInv'
  BY DEF WorkInv, ReasonInv, Reason, AnyAt, At, IdleTasks
<1> QED
  BY <1>1, <1>2, <1>3 DEF WorkInv

\* The decoder starts with everybody idle, and the parser thread without a task.
LEMMA InitCall == Init => CallInv
<1> SUFFICES ASSUME Init
             PROVE  CallInv
  OBVIOUS
<1>1. Types
  <2>1. TaskTypes
    BY SyncAssumption DEF Init, TaskTypes, NoTask, Kinds
  <2>2. FlagTypes
    BY DEF Init, FlagTypes
  <2>3. CallTypes
    <3>1. Idle \in Calls
      BY DEF Idle, Calls, StepsOf
    <3>2. sems \in [Semaphores -> Nat] /\ call \in [Callers -> Calls]
      BY <3>1 DEF Init, Semaphores
    <3> QED
      BY <3>2 DEF Init, CallTypes, Nobody
  <2> QED
    BY <2>1, <2>2, <2>3 DEF Types
<1>2. StopInv
  BY DEF Init, StopInv
<1>3. CommandInv
  BY SyncAssumption DEF Init, CommandInv, Sending, Idle, Nobody, Semaphores
<1>4. ResetInv
  BY DEF Init, ResetInv, Idle, At, Semaphores, Resetting
<1>5. BufferInv
  BY SyncAssumption, PicturesEmpty DEF Init, BufferInv, One
<1>6. HandleInv
  BY SyncAssumption DEF Init, HandleInv, NoTask, One, Tests
<1>7. SleepInv
  BY DEF Init, SleepInv
<1>8. WaitInv
  BY DEF Init, WaitInv, Tests
<1>9. SlotInv
  BY SyncAssumption DEF Init, SlotInv, Losing, One
<1> QED
  BY <1>1, <1>2, <1>3, <1>4, <1>5, <1>6, <1>7, <1>8, <1>9 DEF CallInv

\* No reset is under way yet, and no wait bit set.
LEMMA InitWork == Init => WorkInv
<1> SUFFICES ASSUME Init
             PROVE  WorkInv
  OBVIOUS
<1>1. DrainInv
  BY DEF Init, DrainInv, Idle
<1>2. ReasonInv
  BY DEF Init, ReasonInv
<1> QED
  BY <1>1, <1>2, InitCall DEF WorkInv

\* Every step keeps CallInv.
LEMMA CallKept ==
  ASSUME CallInv, [Next]_vars
  PROVE  CallInv'
<1>1. CASE ParserStep
  BY <1>1, TypesByParser, StopByParser, CommandByParser, ResetByParser,
     BufferByParser, HandleByParser, SleepByParser, WaitByParser, SlotByParser DEF CallInv
<1>2. CASE HalStep
  BY <1>2, TypesByHal, StopByHal, CommandByHal, ResetByHal, BufferByHal,
     HandleByHal, SleepByHal, WaitByHal, SlotByHal DEF CallInv
<1>3. ASSUME NEW c \in Callers, CallStep(c)
      PROVE  CallInv'
  BY <1>3, TypesByCall, StopByCall, CommandByCall, ResetByCall, BufferByCall,
     HandleByCall, SleepByCall, WaitByCall, SlotByCall DEF CallInv
<1>4. CASE UNCHANGED vars
  BY <1>4, CallStutter
<1> QED
  BY <1>1, <1>2, <1>3, <1>4 DEF Next, ParserStep, HalStep, CallStep

\* Every step keeps WorkInv.
LEMMA WorkKept ==
  ASSUME WorkInv, [Next]_vars, FeedersReset
  PROVE  WorkInv'
<1>0. CallInv'
  BY CallKept DEF WorkInv
<1>1. CASE ParserStep
  BY <1>1, <1>0, DrainByParser, ReasonByParser DEF CallInv, WorkInv
<1>2. CASE HalStep
  BY <1>2, <1>0, DrainByHal, ReasonByHal DEF CallInv, WorkInv
<1>3. ASSUME NEW c \in Callers, CallStep(c)
      PROVE  WorkInv'
  BY <1>3, <1>0, DrainByCall, ReasonByCall DEF CallInv, WorkInv
<1>4. CASE UNCHANGED vars
  BY <1>4, WorkStutter
<1> QED
  BY <1>1, <1>2, <1>3, <1>4 DEF Next, ParserStep, HalStep, CallStep

-----------------------------------------------------------------------------
\* Types hold and the handshakes of mpp_dec_control and mpp_dec_reset stay matched:
\* each post finds the thread that waits for it, and the parser thread is at most one
\* command behind.
THEOREM AlwaysMatched == Spec => []CallsMatch
<1>1. CallInv => CallsMatch
  <2> SUFFICES ASSUME CallInv
               PROVE  CallsMatch
    OBVIOUS
  <2>1. TypeOK
    <3>1. unused + held + Pictures(frames) \in 0 .. BufferCount
      <4>1. /\ {Pictures(frames), Pictures(procQ), unused, held, BufferCount} \subseteq Nat
            /\ BufferInv
        BY QueuesCounted DEF CallInv
      <4>2. One(ppc = "submit") \in Nat /\ One(hpc = "output" /\ hal = "frame") \in Nat
        BY DEF One
      <4> HIDE DEF CallInv
      <4> QED
        BY <4>1, <4>2 DEF BufferInv
    <3>2. Len(procQ) + procDone <= HalTasks
      <4>1. One(st.hnd) \in Nat /\ procDone \in Nat /\ Len(procQ) \in Nat /\ HalTasks \in Nat
        BY SyncAssumption DEF CallInv, Types, TaskTypes, One
      <4> QED
        BY <4>1 DEF CallInv, HandleInv
    <3> QED
      BY <3>1, <3>2 DEF CallInv, Types, TaskTypes, FlagTypes, CallTypes, SlotInv, TypeOK
  <2>2. HandshakesMatch
    <3>1. /\ sems["parser_reset"] > 0 =>
                \E c \in Callers : At(c, "reset", 1) \/ At(c, "reset", 2)
          /\ sems["parser_reset"] <= 1
      BY DEF CallInv, ResetInv, Types, CallTypes, Semaphores
    <3>2. (sems["hal_reset"] > 0 => ppc = "waithal") /\ sems["hal_reset"] <= 1
      BY DEF CallInv, ResetInv, Types, CallTypes, Semaphores
    <3>3. /\ sems["cmd_done"] > 0 => \E c \in Callers : InControl(c, 3)
          /\ sems["cmd_done"] <= 1 /\ sems["cmd_start"] <= 1
          /\ cmdSend - cmdRecv \in {0, 1}
          /\ cmdSend # cmdRecv => \E c \in Callers : cmdLock = c /\ call[c].job = cmd
      <4>1. CASE cmdLock = Nobody
        BY <4>1 DEF CallInv, CommandInv, Types, CallTypes
      <4>2. CASE cmdLock # Nobody
        <5>1. PICK c \in Callers : cmdLock = c
          BY <4>2 DEF CallInv, Types, CallTypes
        <5>2. call[c] \in Calls /\ call[c].job \in {"ready", "command"}
          BY <5>1 DEF CallInv, CommandInv, Sending, Types, CallTypes
        <5>3. call[c].step = 3 => InControl(c, 3)
          BY <5>2 DEF InControl, At, Calls
        <5> QED
          BY <5>1, <5>3 DEF CallInv, CommandInv, Types, CallTypes
      <4> QED
        BY <4>1, <4>2
    <3>4. DOMAIN sems = Semaphores
      BY DEF CallInv, Types, CallTypes
    <3> QED
      BY <3>1, <3>2, <3>3, <3>4 DEF HandshakesMatch, Semaphores
  <2> QED
    BY <2>1, <2>2 DEF CallsMatch
<1> QED
  BY InitCall, CallKept, <1>1, PTL DEF Spec

\* When reset_parser_thread is done, no task sent before is on its way: mpp_dec.cpp
\* asserts that none is left in TASK_PROCESSING.
THEOREM AlwaysLeavesNothing == Spec => []ResetLeavesNothing
<1>1. CallInv => ResetLeavesNothing
  BY DEF CallInv, ResetInv, ResetLeavesNothing
<1> QED
  BY InitCall, CallKept, <1>1, PTL DEF Spec

\* Whoever waits for the parser thread has woken it, and the hal thread sleeps
\* through no task and no reset.
THEOREM AlwaysHeard == Spec => [](CallersHeard /\ HalNoLostWakeup)
<1>1. CallInv => CallersHeard /\ HalNoLostWakeup
  <2> SUFFICES ASSUME CallInv
               PROVE  CallersHeard /\ HalNoLostWakeup
    OBVIOUS
  <2>1. HalNoLostWakeup
    BY DEF CallInv, SleepInv, HalNoLostWakeup
  <2>2. ASSUME ppc = "asleep", Quiet
        PROVE  ~resetFlag /\ cmdSend = cmdRecv
    <3>1. ~resetFlag
      BY <2>2 DEF CallInv, SleepInv, ResetInv, Quiet, At, Idle, InControl
    <3>2. CASE cmdLock = Nobody
      BY <3>1, <3>2 DEF CallInv, CommandInv
    <3>3. CASE cmdLock # Nobody
      <4>1. PICK c \in Callers : cmdLock = c
        BY <3>3 DEF CallInv, Types, CallTypes
      <4>2. InControl(c, 3)
        BY <2>2, <4>1 DEF CallInv, CommandInv, Sending, Quiet, Idle, At, InControl
      <4> QED
        BY <2>2, <3>1, <4>2 DEF CallInv, SleepInv
    <3> QED
      BY <3>1, <3>2, <3>3
  <2> QED
    BY <2>1, <2>2 DEF CallersHeard
<1> QED
  BY InitCall, CallKept, <1>1, PTL DEF Spec

\* No thread of mpp_dec.cpp sleeps through a reset or a command, nor through work
\* it was told of; the one event nobody tells of is a slot that becomes unused
\* (wait.dec_slot_idx).  Needed for it: the threads that put packets are the ones
\* that reset, since Mpp::reset empties mFrames without telling the parser thread
\* that it is not full any more.
THEOREM NobodyEverOversleeps ==
  ASSUME FeedersReset
  PROVE  Spec => []NobodyOversleeps
<1>1. WorkInv => NoLostWakeupByWork
  <2> SUFFICES ASSUME WorkInv, cmdSend = 0, "dec_slot_idx" \notin wait, ppc = "asleep", Quiet
               PROVE  Stuck
    BY DEF NoLostWakeupByWork, NoLostWakeup
  <2>1. hpc = "asleep" /\ wait # {} /\ wait \cap notifyFlag = {}
    BY DEF WorkInv, CallInv, SleepInv, Quiet
  <2>2. ~AnyAt("put", 1) /\ ~AnyAt("get", 1) /\ ~AnyAt("getinfo", 1)
        /\ ~AnyAt("release", 1) /\ ~AnyAt("reset", 4)
    BY DEF Quiet, AnyAt, At, InControl, Idle
  <2>3. Reason
    BY <2>1 DEF WorkInv, ReasonInv
  <2> QED
    BY <2>1, <2>2, <2>3 DEF Reason, Stuck, WorkInv, CallInv, WaitInv
<1>2. WorkInv /\ [Next]_vars => WorkInv'
  BY WorkKept
<1>3. Spec => []NoLostWakeupByWork
  BY InitWork, <1>1, <1>2, PTL DEF Spec
<1>4. (CallersHeard /\ HalNoLostWakeup) /\ NoLostWakeupByWork => NobodyOversleeps
  BY DEF NobodyOversleeps
<1> QED
  BY <1>3, <1>4, AlwaysHeard, PTL

-----------------------------------------------------------------------------
\* A table with slots for every task, the picture in the parser's hands, those the
\* parser keeps and those the resets lose is never full, ...
AmpleTable == SlotCount > HalTasks + References + MaxResets + 2

LEMMA TableNeverFull ==
  ASSUME AmpleTable, CallInv
  PROVE  UsedSlots < SlotCount
<1>1. Pictures(procQ) \in Nat /\ Pictures(procQ) <= Len(procQ)
  <2>1. procQ \in Seq(Kinds) /\ Len(procQ) \in Nat
    BY DEF CallInv, Types, TaskTypes
  <2>2. {i \in DOMAIN procQ : procQ[i] = "frame"} \subseteq 1 .. Len(procQ)
    BY <2>1
  <2>3. IsFiniteSet(1 .. Len(procQ)) /\ Cardinality(1 .. Len(procQ)) = Len(procQ)
    BY <2>1, FS_Interval
  <2> QED
    BY <2>1, <2>2, <2>3, FS_Subset, PicturesTyped DEF Pictures
<1>2. Len(procQ) \in Nat /\ Len(procQ) <= HalTasks
  <2>1. One(st.hnd) \in Nat /\ procDone \in Nat /\ Len(procQ) \in Nat /\ HalTasks \in Nat
    BY SyncAssumption DEF CallInv, Types, TaskTypes, One
  <2> QED
    BY <2>1 DEF CallInv, HandleInv
<1>3. /\ slots.kept \in Nat /\ slots.kept <= References
      /\ slots.lost \in Nat /\ slots.lost <= MaxResets
  <2>1. One(Losing) \in Nat /\ left.resets \in Nat /\ MaxResets \in Nat
    BY SyncAssumption DEF One, CallInv, SlotInv
  <2> QED
    BY <2>1, SyncAssumption DEF CallInv, SlotInv
<1>4. {SlotCount, HalTasks, References, MaxResets} \subseteq Nat
  BY SyncAssumption
<1>5. InFlight \in Nat /\ InFlight <= HalTasks + 2
  <2>1. /\ (IF hpc = "output" /\ hal = "frame" THEN 1 ELSE 0) \in 0 .. 1
        /\ (IF st.parsed THEN 1 ELSE 0) \in 0 .. 1
    OBVIOUS
  <2> HIDE DEF CallInv
  <2> QED
    BY <1>1, <1>2, <1>4, <2>1 DEF InFlight
<1> QED
  BY <1>3, <1>4, <1>5 DEF AmpleTable, UsedSlots

\* ... so the parser thread does not come to wait for a slot.
NoSlotBit == "dec_slot_idx" \notin wait

LEMMA SlotNeverWaited ==
  ASSUME AmpleTable, CallInv, NoSlotBit, [Next]_vars
  PROVE  NoSlotBit'
<1> USE DEF parserVars, flagVars, halVars, ctrlVars, dataVars, callVars, GoTo,
      Passed, Blocked, Notify, NoSlotBit
<1>1. CASE CheckSlots
  <2>1. ~(UsedSlots >= SlotCount)
    <3>1. UsedSlots \in Int /\ SlotCount \in Int
      <4>1. Pictures(procQ) \in Nat /\ slots.kept \in Nat /\ slots.lost \in Nat
        BY QueuesCounted DEF CallInv, SlotInv
      <4> QED
        BY <4>1, SyncAssumption DEF UsedSlots, InFlight
    <3> QED
      BY <3>1, TableNeverFull
  <2> QED
    BY <1>1, <2>1 DEF CheckSlots
<1>2. ASSUME ParserStep, ~CheckSlots
      PROVE  NoSlotBit'
  BY <1>2 DEF ParserStep, ParserWork, ParserSpurious, CheckWait, ProcControl,
     NoControl, ResetPost, ResetParser, ResetDone, GetHnd, GetPacket, CheckPrev,
     CheckAllDone, CheckFrames, ParsePicture, ParseNothing, CheckInfo, GetBuffer,
     Submit
<1>3. CASE HalStep
  BY <1>3 DEF HalStep, HalWork, HalSpurious, HalExit, HalTake, HalReset, HalSleep,
     HalStatus, HalOutput, HalNotify
<1>4. ASSUME NEW c \in Callers, CallStep(c)
      PROVE  wait' = wait
  BY <1>4 DEF CallStep, InCall, PutNotify, GetNotify, ReleaseNotify, ReadySend, Send,
     ControlNotify, ControlStart, ControlDone, ReadyNotify, ResetNotify, ResetWait,
     FlushFrames, FlushNotify, StopHal, StopDone, Put, Get, Release, CommandSend,
     Reset, Stop
<1>5. CASE UNCHANGED vars
  BY <1>5 DEF vars
<1> QED
  BY <1>1, <1>2, <1>3, <1>4, <1>5 DEF Next, ParserStep, HalStep, CallStep

\* With such a table the parser thread of mpp_dec.cpp oversleeps nothing at all as
\* long as no command was sent: the test of the slots, whose wait bit no
\* notification carries, does not fail.
THEOREM AmpleTableMissesNothing ==
  ASSUME FeedersReset, AmpleTable
  PROVE  Spec => [](cmdSend = 0 => NoLostWakeup)
<1>1. Init => NoSlotBit
  BY DEF Init, NoSlotBit
<1>2. CallInv /\ NoSlotBit /\ [Next]_vars => NoSlotBit'
  BY SlotNeverWaited
<1>3. Spec => []NoSlotBit
  BY InitCall, CallKept, <1>1, <1>2, PTL DEF Spec
<1>4. Spec => []NobodyOversleeps
  BY NobodyEverOversleeps
<1>5. NobodyOversleeps /\ NoSlotBit => (cmdSend = 0 => NoLostWakeup)
  BY DEF NobodyOversleeps, NoLostWakeupByWork, NoSlotBit
<1> QED
  BY <1>3, <1>4, <1>5, PTL
=============================================================================
