--------------------------- MODULE MppBatchServer ---------------------------
(***************************************************************************)
(* The batch server of osal/driver/mpp_server.cpp: sessions queue their    *)
(* tasks, and a timer's thread (osal/mpp_time.cpp) polls the hardware for  *)
(* the batches it runs and fills new ones.                                 *)
(*                                                                         *)
(* What is done under the server's lock, or under a session's lock, is one *)
(* step.  Only the timer's thread touches the batches, so what it does     *)
(* between two calls that others see is one step as well.                  *)
(*                                                                         *)
(* A session is a decoder that waits for each task before it sends the     *)
(* next (it is not in fast mode).  But the wait has no loop: it may wake   *)
(* up for nothing and leave its task behind, and then more than one task   *)
(* of the session is under way.  The kernel driver behind the ioctls is    *)
(* part of the environment.                                                *)
(***************************************************************************)
EXTENDS Integers, FiniteSets, SequencesExt

CONSTANTS
    Sessions,
    Tasks,            \* the tasks of all sessions; bound: how many each has
    Owner,            \* Owner[t]: the session that has task t
    MaxTaskInBatch,   \* mpp_server_batch_task
    Faults,           \* what may go wrong: among "eio", "poll" and "send"
    MaxSwitches       \* bound: how often batch mode is switched on and off

ASSUME ServerAssumption ==
    /\ MaxTaskInBatch \in Nat \ {0} /\ MaxSwitches \in Nat
    /\ Owner \in [Tasks -> Sessions]
    /\ \A s \in Sessions : \E t \in Tasks : Owner[t] = s
    /\ IsFiniteSet(Sessions) /\ Faults \subseteq {"eio", "poll", "send"}

VARIABLES
    pc,        \* pc[s]: where session s is between attach, send and wait
    owed,      \* owed[t]: what task t adds to task_wait - task_done of its session
    current,   \* current[s]: the task session s sends or waits for
    stray,     \* history: the sessions a wake-up for nothing has misled
    pending,   \* pending_task, whose length is pending_count
    timer,     \* the timer's thread: "never" started, "on" or "stopped"
    switches,  \* batch_max_count and session_count, which are counted alike
    running,   \* list_batch, whose length is batch_run
    free,      \* list_batch_free, whose length is batch_free
    tpc,       \* where the timer's thread is in process_task
    look,      \* the tasks of the polled batch to look at, with their answers
    left,      \* process_task's own count of pending tasks
    hw,        \* hw[t]: what the hardware has made of task t
    faulty     \* a fault has happened

waitVars == <<current, stray>>
userVars == <<pc, owed, waitVars, switches>>
batchVars == <<running, free>>
threadVars == <<tpc, look, left>>
hwVars == <<hw, faulty>>
vars == <<userVars, pending, timer, batchVars, threadVars, hwVars>>

\* A batch: the tasks linked to it, fill_cnt and poll_cnt.
Batch == [tasks : Seq(Tasks), fill : 0 .. MaxTaskInBatch,
          poll : 0 .. MaxTaskInBatch]
Empty == [tasks |-> << >>, fill |-> 0, poll |-> 0]

\* The ...Slip operators are the mutants of the checks.
Init ==
    /\ pc = [s \in Sessions |-> "off"] /\ owed = [t \in Tasks |-> 0]
    /\ current = [s \in Sessions |-> CHOOSE t \in Tasks : Owner[t] = s]
    /\ stray = {}
    /\ pending = << >> /\ timer = "never" /\ switches = 0
    /\ running = << >> /\ free = << >>
    /\ tpc = "rest" /\ look = << >> /\ left = 0
    /\ hw = [t \in Tasks |-> "none"] /\ faulty = FALSE

Goto(s, from, to) == pc[s] = from /\ pc' = [pc EXCEPT ![s] = to]

Listed(q, x) == \E i \in DOMAIN q : q[i] = x

\* task_wait = task_done.
AllAnswered(s) == \A t \in Tasks : Owner[t] = s => owed[t] = 0

-----------------------------------------------------------------------------
(* The sessions *)

Attach(s) ==
    /\ switches < MaxSwitches
    /\ Goto(s, "off", "idle")
    /\ owed' = [t \in Tasks |-> IF Owner[t] = s THEN 0 ELSE owed[t]]
    /\ switches' = switches + 1
    /\ UNCHANGED <<waitVars, pending, timer, batchVars, threadVars, hwVars>>

\* detach counts up what attach has counted up.  It asserts that all tasks of the
\* session are answered, and frees them.
Detach(s) ==
    /\ switches < MaxSwitches /\ AllAnswered(s)
    /\ Goto(s, "idle", "off")
    /\ switches' = switches + 1
    /\ UNCHANGED <<owed, waitVars, pending, timer, batchVars, threadVars, hwVars>>

\* send_task: first the session's list and count ...  It is misled no longer when
\* all it has left behind is answered.
SendQueue(s) ==
    /\ Goto(s, "idle", "sending")
    /\ \E t \in Tasks :
         /\ Owner[t] = s /\ owed[t] = 0
         /\ current' = [current EXCEPT ![s] = t]
         /\ owed' = [owed EXCEPT ![t] = @ + 1]
         /\ hw' = [hw EXCEPT ![t] = "none"]
    /\ stray' = IF AllAnswered(s) THEN stray \ {s} ELSE stray
    /\ UNCHANGED <<switches, pending, timer, batchVars, threadVars, faulty>>

\* ... then the server's, and the timer is started if it never was.
StartTimer == IF timer = "never" THEN "on" ELSE timer

SendPending(s) ==
    /\ Goto(s, "sending", "sent")
    /\ pending' = Append(pending, current[s])
    /\ timer' = StartTimer
    /\ UNCHANGED <<owed, waitVars, switches, batchVars, threadVars, hwVars>>

\* wait_task: it sleeps once, unless all tasks of the session are answered.
MustWaitSlip(s) == FALSE
MustWait(s) == ~AllAnswered(s)

Wait(s) ==
    /\ Goto(s, "sent", IF MustWait(s) THEN "asleep" ELSE "woken")
    /\ UNCHANGED <<owed, waitVars, switches, pending, timer, batchVars, threadVars,
                   hwVars>>

\* pthread_cond_wait may return without a signal, and nobody looks again.  Bound:
\* the session has another task to send next.
WakeForNothing(s) ==
    /\ Goto(s, "asleep", "woken")
    /\ \E t \in Tasks : Owner[t] = s /\ owed[t] = 0
    /\ stray' = stray \cup {s}
    /\ UNCHANGED <<owed, current, switches, pending, timer, batchVars, threadVars,
                   hwVars>>

\* The task goes back to list_done, answered or not.
WaitDone(s) ==
    /\ Goto(s, "woken", "idle")
    /\ UNCHANGED <<owed, waitVars, switches, pending, timer, batchVars, threadVars,
                   hwVars>>

-----------------------------------------------------------------------------
(* The hardware, as the driver shows it *)

HwFinish(t) ==
    /\ hw[t] = "busy" /\ hw' = [hw EXCEPT ![t] = "done"]
    /\ UNCHANGED <<userVars, pending, timer, batchVars, threadVars, faulty>>

HwFail(t) ==
    /\ "eio" \in Faults /\ hw[t] = "busy"
    /\ hw' = [hw EXCEPT ![t] = "failed"] /\ faulty' = TRUE
    /\ UNCHANGED <<userVars, pending, timer, batchVars, threadVars>>

-----------------------------------------------------------------------------
(* process_task, on the timer's thread *)

Answers(b) ==
    [i \in DOMAIN b.tasks |->
        [task |-> b.tasks[i], ok |-> hw[b.tasks[i]] = "done"]]

\* The timer expires, and the first running batch is polled; the next one is when
\* all of a batch is answered.
Polls == tpc = "poll" \/ (timer = "on" /\ tpc = "rest")

Poll ==
    /\ Polls
    /\ IF running = << >>
       THEN tpc' = "count" /\ UNCHANGED look
       ELSE tpc' = "answer" /\ look' = Answers(Head(running))
    /\ UNCHANGED <<userVars, pending, timer, batchVars, left, hwVars>>

\* The poll itself fails: the timer's thread is told to end, by itself.
PollError ==
    /\ "poll" \in Faults /\ Polls /\ running # << >>
    /\ timer' = "stopped" /\ tpc' = "count"
    /\ faulty' = TRUE
    /\ UNCHANGED <<userVars, pending, batchVars, look, left, hw>>

\* list_del_init of the task's link_batch.
Unlinked(q, t) == RemoveAt(q, CHOOSE i \in DOMAIN q : q[i] = t)

\* A task that is not finished, or ended with -EIO, is left in its batch.
Answer ==
    LET t == Head(look).task
    IN  /\ tpc = "answer" /\ look # << >>
        /\ IF Head(look).ok
           THEN /\ running' = [running EXCEPT
                               ![1].tasks = Unlinked(@, t),
                               ![1].poll = @ + 1]
                /\ owed' = [owed EXCEPT ![t] = @ - 1]
                /\ pc' = [pc EXCEPT ![Owner[t]] =
                            IF @ = "asleep" THEN "woken" ELSE @]
           ELSE UNCHANGED <<running, owed, pc>>
        /\ look' = Tail(look)
        /\ UNCHANGED <<waitVars, switches, pending, timer, free, tpc, left, hwVars>>

\* A batch whose tasks are all answered can be filled again, and the next one
\* is polled.
AnsweredSlip(b) == b.poll + 1 >= b.fill
Answered(b) == b.poll = b.fill

Recycled(b) == Empty    \* batch_reset

Recycle ==
    LET b == Head(running)
    IN  /\ tpc = "answer" /\ look = << >>
        /\ IF Answered(b)
           THEN /\ running' = Tail(running)
                /\ free' = Append(free, Recycled(b))
                /\ tpc' = "poll"
           ELSE tpc' = "count" /\ UNCHANGED batchVars
        /\ UNCHANGED <<userVars, pending, timer, look, left, hwVars>>

\* The thread notes how much is pending; it ends when no session is left.
Count ==
    /\ tpc = "count" /\ tpc' = "fill"
    /\ left' = Len(pending)
    /\ timer' = IF pending = << >> /\ running = << >> /\ switches = 0
                THEN "stopped" ELSE timer
    /\ UNCHANGED <<userVars, pending, batchVars, look, hwVars>>

\* A new batch is made when none is free and there are not enough.
AtMostSlip == Len(free) + Len(running) + 1 >= switches
AtMost == Len(free) + Len(running) >= switches

NoBatch == free = << >> /\ AtMost

AddBatch ==
    /\ tpc = "fill" /\ free = << >> /\ ~NoBatch
    /\ free' = << Empty >>
    /\ UNCHANGED <<userVars, pending, timer, running, threadVars, hwVars>>

Rest == tpc' = "rest" /\ look' = << >> /\ left' = 0

\* batch_send, of b at the head of the free list.  An ioctl that fails is only
\* logged, and some of the tasks never reach the hardware.
SendBatch(b) ==
    \E lost \in SUBSET {b.tasks[i] : i \in DOMAIN b.tasks} :
      /\ lost # {} => "send" \in Faults
      /\ running' = Append(running, b)
      /\ free' = Tail(free)
      /\ hw' = [t \in Tasks |-> IF t \in lost THEN "failed"
                                ELSE IF Listed(b.tasks, t) THEN "busy" ELSE hw[t]]
      /\ faulty' = (faulty \/ lost # {})

\* The next pending task fills a slot of the batch at the head of the free
\* list, which is sent when it is full.
Full(b) == b.fill >= MaxTaskInBatch

FillTask ==
    LET filled == [Head(free) EXCEPT !.tasks = Append(@, Head(pending)),
                                     !.fill = @ + 1]
    IN  /\ tpc = "fill" /\ free # << >> /\ left > 0
        /\ pending' = Tail(pending)
        /\ left' = left - 1
        /\ IF Full(filled) THEN SendBatch(filled)
           ELSE /\ free' = << filled >> \o Tail(free)
                /\ UNCHANGED <<running, hwVars>>
        /\ UNCHANGED <<userVars, timer, tpc, look>>

\* Nothing is left to fill: a batch that is partly filled is sent as it is.
ToFlushSlip(b) == FALSE
ToFlush(b) == b.fill > 0

Flush ==
    /\ tpc = "fill" /\ free # << >> /\ left = 0
    /\ IF ToFlush(Head(free)) THEN SendBatch(Head(free))
       ELSE UNCHANGED <<batchVars, hwVars>>
    /\ Rest
    /\ UNCHANGED <<userVars, pending, timer>>

FinishFull ==
    /\ tpc = "fill" /\ NoBatch
    /\ Rest
    /\ UNCHANGED <<userVars, pending, timer, batchVars, hwVars>>

-----------------------------------------------------------------------------

TimerStep ==
    \/ Poll \/ PollError \/ Answer \/ Recycle \/ Count
    \/ AddBatch \/ FillTask \/ Flush \/ FinishFull

CallStep(s) == SendPending(s) \/ Wait(s) \/ WaitDone(s)

HwStep(t) == HwFinish(t) \/ HwFail(t)

Next ==
    \/ TimerStep
    \/ \E s \in Sessions :
         Attach(s) \/ Detach(s) \/ SendQueue(s) \/ CallStep(s) \/ WakeForNothing(s)
    \/ \E t \in Tasks : HwStep(t)

Spec == Init /\ [][Next]_vars

\* The timer expires, the threads run, and the hardware finishes or fails.
Fairness ==
    /\ WF_vars(TimerStep)
    /\ \A s \in Sessions : WF_vars(CallStep(s))
    /\ \A t \in Tasks : WF_vars(HwStep(t))

FairSpec == Spec /\ Fairness

-----------------------------------------------------------------------------
(* Properties *)

Distinct(q) == \A i, j \in DOMAIN q : q[i] = q[j] => i = j

\* Types, and the batches: there are no more than the code allows (step 3);
\* what a batch has filled and not polled is linked to it, so it is recycled with
\* no task in it (the assert of batch_reset); a batch that runs has a slot filled
\* (the asserts on send_req_cnt and wait_req_cnt); only the first free one is
\* partly filled, and not while the thread rests: no task is left behind in a
\* batch that is not sent.  And one batch per session is enough: while no session
\* has left a task behind, whoever is pending outside the polling finds a batch
\* that is free or may be made, also when hardware errors keep batches running for
\* good.
BatchesKept ==
    /\ pc \in [Sessions -> {"off", "idle", "sending", "sent", "asleep", "woken"}]
    /\ owed \in [Tasks -> Nat] /\ pending \in Seq(Tasks)
    /\ current \in [Sessions -> Tasks] /\ stray \subseteq Sessions
    /\ timer \in {"never", "on", "stopped"} /\ switches \in 0 .. MaxSwitches
    /\ running \in Seq(Batch) /\ free \in Seq(Batch)
    /\ tpc \in {"rest", "poll", "answer", "count", "fill"} /\ left \in Nat
    /\ look \in Seq([task : Tasks, ok : BOOLEAN])
    /\ hw \in [Tasks -> {"none", "busy", "done", "failed"}] /\ faulty \in BOOLEAN
    /\ Len(running) + Len(free) <= switches
    /\ \A i \in DOMAIN running :
         /\ running[i].fill > 0
         /\ Len(running[i].tasks) = running[i].fill - running[i].poll
    /\ \A i \in DOMAIN free :
         free[i] # Empty => i = 1 /\ tpc = "fill" /\ Len(free[i].tasks) = free[i].fill
    /\ tpc \in {"rest", "fill"} /\ pending # << >> /\ stray = {} => ~NoBatch

\* An answer is owed for a task exactly while it is about to become pending, is
\* pending, or is in one batch, and it is in one of these places once: no task is
\* lost or answered twice between the session, the pending list and the batches,
\* whatever the hardware answers and whichever waits wake up for nothing.  A session
\* that none has misled is owed nothing but the task it sends or waits for.  The
\* thread's own count of pending tasks is never more than there are (the head it
\* takes exists).
Sending(t) == pc[Owner[t]] = "sending" /\ current[Owner[t]] = t

Waited(t) ==
    /\ pc[Owner[t]] \in {"sending", "sent", "asleep", "woken"}
    /\ current[Owner[t]] = t

TasksAccounted ==
    /\ Distinct(pending) /\ left <= Len(pending)
    /\ \A t \in Tasks :
         LET all == running \o free
             in == {i \in DOMAIN all : Listed(all[i].tasks, t)}
         IN  /\ \A i \in in : Distinct(all[i].tasks)
             /\ owed[t] <= 1
             /\ owed[t] = (IF Sending(t) THEN 1 ELSE 0)
                            + (IF Listed(pending, t) THEN 1 ELSE 0) + Cardinality(in)
             /\ owed[t] = 0 \/ Waited(t) \/ Owner[t] \in stray

\* The state of a task as the user of the device sees it: one that is answered and
\* that nobody waits for is none.
TaskState(t) ==
    IF owed[t] = 0 /\ ~Waited(t) THEN "none"
    ELSE [none |-> "sent", busy |-> "busy", done |-> "finished",
          failed |-> "failed"][hw[t]]

\* The server keeps the promise of the device: each task is given to the
\* hardware once, and wait_task returns only when the task is finished, though
\* it waits at most once and without a loop - unless that wait, or an earlier one
\* whose task was not answered when this one was sent, woke up for nothing.
Device == INSTANCE MppDevice WITH
            task <- [t \in Tasks |-> TaskState(t)],
            waited <- {t \in Tasks : Waited(t)},
            misled <- stray

ImplementsDevice == Device!Spec

\* A task that is sent is answered and its session goes on, unless the hardware
\* or the driver fails: after -EIO or a failed ioctl the first batch is never
\* complete and nobody looks at those behind it, and after a failed poll the
\* timer is not started again.
SentReturns ==
    \A s \in Sessions : pc[s] = "sending" ~> (pc[s] = "idle" \/ faulty)
=============================================================================
