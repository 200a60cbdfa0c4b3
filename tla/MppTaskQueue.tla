---------------------------- MODULE MppTaskQueue ----------------------------
(***************************************************************************)
(* The task queue of mpp/base/mpp_task_impl.cpp: a fixed set of tasks that *)
(* moves between four lists (INPUT_PORT, INPUT_HOLD, OUTPUT_PORT,          *)
(* OUTPUT_HOLD) as the threads on its input port and on its output port    *)
(* poll, dequeue and enqueue.  Each port's list has a counter the code     *)
(* reads instead of the list, and a condition variable on which pollers    *)
(* sleep.                                                                  *)
(*                                                                         *)
(* Every handler runs under queue->lock, so it is one action, except that  *)
(* a poll that sleeps releases the lock inside pthread_cond_wait and       *)
(* becomes two: the call, and the resumption after the lock is retaken.    *)
(***************************************************************************)
EXTENDS Naturals, Sequences, FiniteSets

CONSTANTS
    TaskCount,   \* the task_count of mpp_task_queue_setup
    InClients,   \* threads that use the input port
    OutClients   \* threads that use the output port

ASSUME TaskCountAssumption == TaskCount \in Nat \ {0}
ASSUME ClientsAssumption ==
    /\ IsFiniteSet(InClients) /\ IsFiniteSet(OutClients)
    /\ InClients \cap OutClients = {}

Tasks == 1 .. TaskCount
Clients == InClients \cup OutClients
Ports == {"INPUT", "OUTPUT"}
Statuses == {"INPUT_PORT", "INPUT_HOLD", "OUTPUT_PORT", "OUTPUT_HOLD"}

PortOf(c) == IF c \in InClients THEN "INPUT" ELSE "OUTPUT"
Peer(p) == IF p = "INPUT" THEN "OUTPUT" ELSE "INPUT"

\* The three statuses mpp_port_init stores in a port.
StatusCurr(p) == IF p = "INPUT" THEN "INPUT_PORT" ELSE "OUTPUT_PORT"
NextOnDequeue(p) == IF p = "INPUT" THEN "INPUT_HOLD" ELSE "OUTPUT_HOLD"
NextOnEnqueue(p) == StatusCurr(Peer(p))

VARIABLES
    phase,    \* "inited" -> "ready" (setup) -> "freed" (deinit)
    queue,    \* queue[p]: the list of port p's own status, oldest first
    hold,     \* hold[p]: the list of port p's hold status (never read in order)
    count,    \* count[s]: MppTaskStatusInfo.count of status s
    status,   \* status[t]: MppTaskImpl.status, "NONE" before the setup
    pc,       \* where client c is in its call
    held      \* held[c]: the tasks whose handles client c keeps

vars == <<phase, queue, hold, count, status, pc, held>>

\* "blocked": in cond->wait; "timed": in cond->timedwait; "woken" and
\* "timedout": out of the wait but not yet holding the lock again; "polled":
\* the poll returned a value >= 0 and the dequeue that follows is to come.
PcStates == {"idle", "blocked", "timed", "woken", "timedout", "polled"}

Waiters(p) == {c \in Clients : PortOf(c) = p /\ pc[c] \in {"blocked", "timed"}}
Pending(p) ==
    {c \in Clients : PortOf(c) = p /\ pc[c] \in {"woken", "timedout", "polled"}}

Init ==
    /\ phase = "inited"
    /\ queue = [p \in Ports |-> << >>]
    /\ hold = [p \in Ports |-> {}]
    /\ count = [s \in Statuses |-> 0]
    /\ status = [t \in Tasks |-> "NONE"]
    /\ pc = [c \in Clients |-> "idle"]
    /\ held = [c \in Clients |-> {}]

\* The list and counter moves of dequeue and enqueue, and what a slip in each
\* would look like (the ...Slip operators are the mutants of the checks).
AddTailSlip(s, t) == <<t>> \o s
AddTail(s, t) == Append(s, t)

DelHead(s) == Tail(s)

CountMoveNoDec(from, to) == [count EXCEPT ![to] = @ + 1]
CountMove(from, to) == [count EXCEPT ![from] = @ - 1, ![to] = @ + 1]

\* pthread_cond_signal on the condition of port p: it wakes one waiter, if any.
SignalSlip(p) == UNCHANGED pc
Signal(p) ==
    IF Waiters(p) = {}
    THEN UNCHANGED pc
    ELSE \E c \in Waiters(p) : pc' = [pc EXCEPT ![c] = "woken"]

Setup ==
    /\ phase = "inited"
    /\ phase' = "ready"
    /\ queue' = [queue EXCEPT !["INPUT"] = [i \in Tasks |-> i]]
    /\ count' = [count EXCEPT !["INPUT_PORT"] = TaskCount]
    /\ status' = [t \in Tasks |-> "INPUT_PORT"]
    /\ UNCHANGED <<hold, pc, held>>

(***************************************************************************)
(* Poll.  A non-blocking poll of an empty port, and any call on a queue    *)
(* that is not ready, return an error and change nothing: they are the     *)
(* stuttering steps.  A thread on the output port is an mpp worker, which  *)
(* gives its task back before it polls again; an application thread may    *)
(* poll with tasks in hand (Mpp::put_packet keeps mEosTask and mInputTask).*)
(***************************************************************************)
MayPoll(c) ==
    /\ phase = "ready"
    /\ pc[c] = "idle"
    /\ c \in OutClients => held[c] = {}

PollReady(c) ==
    /\ MayPoll(c)
    /\ count[StatusCurr(PortOf(c))] > 0
    /\ pc' = [pc EXCEPT ![c] = "polled"]
    /\ UNCHANGED <<phase, queue, hold, count, status, held>>

PollSleep(c, how) ==
    /\ MayPoll(c)
    /\ count[StatusCurr(PortOf(c))] = 0
    /\ pc' = [pc EXCEPT ![c] = how]
    /\ UNCHANGED <<phase, queue, hold, count, status, held>>

\* After the wait the count is read once; there is no loop around the wait.
\* A count of zero gives 0 after a wake-up and MPP_NOK after a timeout.
PollResume(c) ==
    /\ pc[c] \in {"woken", "timedout"}
    /\ pc' = [pc EXCEPT ![c] =
                IF pc[c] = "woken" \/ count[StatusCurr(PortOf(c))] > 0
                THEN "polled" ELSE "idle"]
    /\ UNCHANGED <<phase, queue, hold, count, status, held>>

\* The environment of the wait: the timer, and wake-ups without a signal.
Timeout(c) ==
    /\ pc[c] = "timed"
    /\ pc' = [pc EXCEPT ![c] = "timedout"]
    /\ UNCHANGED <<phase, queue, hold, count, status, held>>

SpuriousWake(c) ==
    /\ pc[c] \in {"blocked", "timed"}
    /\ pc' = [pc EXCEPT ![c] = "woken"]
    /\ UNCHANGED <<phase, queue, hold, count, status, held>>

\* Every caller in the code dequeues after a poll that returned >= 0.
Dequeue(c) ==
    LET p == PortOf(c)
        t == Head(queue[p])
    IN  /\ phase = "ready"
        /\ pc[c] = "polled"
        /\ pc' = [pc EXCEPT ![c] = "idle"]
        /\ count[StatusCurr(p)] > 0
        /\ queue' = [queue EXCEPT ![p] = DelHead(queue[p])]
        /\ hold' = [hold EXCEPT ![p] = hold[p] \cup {t}]
        /\ count' = CountMove(StatusCurr(p), NextOnDequeue(p))
        /\ status' = [status EXCEPT ![t] = NextOnDequeue(p)]
        /\ held' = [held EXCEPT ![c] = held[c] \cup {t}]
        /\ UNCHANGED phase

\* The queue is empty after all: dequeue returns MPP_NOK and a NULL task.
DequeueEmpty(c) ==
    /\ phase = "ready"
    /\ pc[c] = "polled"
    /\ count[StatusCurr(PortOf(c))] = 0
    /\ pc' = [pc EXCEPT ![c] = "idle"]
    /\ UNCHANGED <<phase, queue, hold, count, status, held>>

Enqueue(c, t) ==
    LET p == PortOf(c)
        q == Peer(p)
    IN  /\ phase = "ready"
        /\ pc[c] = "idle"
        /\ t \in held[c]
        /\ hold' = [hold EXCEPT ![p] = hold[p] \ {t}]
        /\ queue' = [queue EXCEPT ![q] = AddTail(queue[q], t)]
        /\ count' = CountMove(status[t], NextOnEnqueue(p))
        /\ status' = [status EXCEPT ![t] = NextOnEnqueue(p)]
        /\ held' = [held EXCEPT ![c] = held[c] \ {t}]
        /\ Signal(q)
        /\ UNCHANGED phase

\* mpp_port_awake: a signal with no task behind it.
Awake(p) ==
    /\ phase = "ready"
    /\ Signal(p)
    /\ UNCHANGED <<phase, queue, hold, count, status, held>>

\* Mpp::clear frees the queues once the worker threads are joined and the
\* application has left its calls, so nobody is inside poll.  The two signals
\* of mpp_task_queue_deinit then wake nobody.
Deinit ==
    /\ phase = "ready"
    /\ \A c \in Clients : pc[c] = "idle"
    /\ phase' = "freed"
    /\ UNCHANGED <<queue, hold, count, status, pc, held>>

Poll(c) == PollReady(c) \/ \E how \in {"blocked", "timed"} : PollSleep(c, how)
ClientStep(c) ==
    \/ Poll(c)
    \/ PollResume(c)
    \/ Timeout(c)
    \/ SpuriousWake(c)
    \/ Dequeue(c)
    \/ DequeueEmpty(c)
    \/ \E t \in Tasks : Enqueue(c, t)

Next ==
    \/ Setup
    \/ Deinit
    \/ \E p \in Ports : Awake(p)
    \/ \E c \in Clients : ClientStep(c)

Spec == Init /\ [][Next]_vars

-----------------------------------------------------------------------------
(* Properties *)

TypeOK ==
    /\ phase \in {"inited", "ready", "freed"}
    /\ queue \in [Ports -> Seq(Tasks)]
    /\ hold \in [Ports -> SUBSET Tasks]
    /\ count \in [Statuses -> Nat]
    /\ status \in [Tasks -> Statuses \cup {"NONE"}]
    /\ pc \in [Clients -> PcStates]
    /\ held \in [Clients -> SUBSET Tasks]

Elems(s) == {s[i] : i \in DOMAIN s}
NoRepeats(s) == \A i, j \in DOMAIN s : s[i] = s[j] => i = j

StatusMatchesList ==
    \A p \in Ports :
        /\ \A t \in Tasks :
             /\ t \in Elems(queue[p]) <=> status[t] = StatusCurr(p)
             /\ t \in hold[p] <=> status[t] = NextOnDequeue(p)
        /\ NoRepeats(queue[p])

CountMatchesList ==
    \A p \in Ports :
        /\ count[StatusCurr(p)] = Len(queue[p])
        /\ count[NextOnDequeue(p)] = Cardinality(hold[p])

\* The status a task carries, the list it is linked in and the counters the
\* handlers read in place of the lists never disagree: this is what the
\* mpp_asserts on list_empty in poll and dequeue rely on.
ListsMatch == StatusMatchesList /\ CountMatchesList

\* A task dequeued by one thread belongs to nobody else until that thread
\* enqueues it, so the asserts of _mpp_port_enqueue on the status hold.
ExclusiveHold ==
    /\ \A c \in Clients : held[c] \subseteq hold[PortOf(c)]
    /\ \A c, d \in Clients : c # d => held[c] \cap held[d] = {}
    /\ \A p \in Ports : \A t \in hold[p] : \E c \in Clients : t \in held[c]

\* What poll, dequeue and enqueue rely on when they read a counter, take a
\* list's head and test a status: the types, with no counter below zero, and
\* the agreement and the ownership above.
Consistent == TypeOK /\ ListsMatch /\ ExclusiveHold

\* No lost wake-up: while some thread sleeps on a port, there are at least as
\* many threads already on their way to dequeue there as there are tasks, so
\* no task waits next to a sleeper nobody will wake.  It depends on enqueue
\* signalling the condition of the list it fills, on each poll that succeeds
\* being followed by a dequeue, and on a signal being spent on one waiter.
NoLostWakeup ==
    \A p \in Ports :
        Waiters(p) # {} => count[StatusCurr(p)] <= Cardinality(Pending(p))

\* "The status transform flow is unidirectional from input port to output
\* port" (4.mpp_task.txt): a step changes the status of one task at most, by
\* one place round the ring, and the setup is the only other change.
NextStatus(s) ==
    CASE s = "INPUT_PORT" -> "INPUT_HOLD"
      [] s = "INPUT_HOLD" -> "OUTPUT_PORT"
      [] s = "OUTPUT_PORT" -> "OUTPUT_HOLD"
      [] s = "OUTPUT_HOLD" -> "INPUT_PORT"
      [] s = "NONE" -> "NONE"

RingStep ==
    \/ status' = status
    \/ phase = "inited" /\ phase' = "ready"
    \/ \E t \in Tasks : status' = [status EXCEPT ![t] = NextStatus(status[t])]

UnidirectionalFlow == [][RingStep]_vars

\* The queue implements the two-sided channel: tasks reach the output port's
\* threads in the order in which the input port's threads submitted them.
Channel == INSTANCE MppTaskChannel WITH
    producer <- Elems(queue["INPUT"]) \cup hold["INPUT"],
    full     <- queue["OUTPUT"],
    consumer <- hold["OUTPUT"]

ImplementsChannel == Channel!Spec

-----------------------------------------------------------------------------
(* Liveness *)

\* The threads run: one that can leave poll or go on to dequeue does so.  Only
\* the workers on the output port must call again and give their tasks back;
\* an application may stop calling, and may keep a task for ever.
Fairness ==
    /\ \A c \in Clients :
         WF_vars(PollResume(c)) /\ WF_vars(Dequeue(c) \/ DequeueEmpty(c))
    /\ \A c \in OutClients :
         WF_vars(Poll(c)) /\ WF_vars(\E t \in Tasks : Enqueue(c, t))

FairSpec == Spec /\ Fairness

\* Every submitted task comes back to the input port, unless the queue is freed.
SubmittedReturns ==
    \A t \in Tasks :
        status[t] = "OUTPUT_PORT" ~> status[t] = "INPUT_PORT" \/ phase = "freed"

\* A blocking poll of the input port returns, unless the application itself
\* keeps every task (it would wait for its own hand) or another of its threads
\* uses the port, which may be quicker each time.
BlockedUserServed ==
    \A c \in InClients :
        (pc[c] = "blocked" /\ hold["INPUT"] # Tasks)
            ~> \/ pc[c] # "blocked"
               \/ \E d \in InClients \ {c} : pc[d] # "idle" \/ held[d] # {}
=============================================================================
