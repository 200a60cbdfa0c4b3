----------------------------- MODULE MppCluster -----------------------------
(***************************************************************************)
(* The cluster scheduler of mpp/base/mpp_cluster.cpp: nodes that are       *)
(* triggered, one queue of waiting nodes (MAX_PRIORITY is 1) and the       *)
(* worker threads that run the nodes' functions.                           *)
(*                                                                         *)
(* A node's state word changes by compare-and-swap, outside the locks: a   *)
(* loop that reads the word again before each try is one step here, and    *)
(* the one that does not is a step enabled while the word is as it was     *)
(* read.  What is done under the queue's lock, or under a worker thread's  *)
(* lock, is one step.  A worker takes one node at a time (batch_count).    *)
(*                                                                         *)
(* Callers attach, trigger and detach nodes.  A node is triggered while    *)
(* it is attached and nobody detaches it, and is detached by one thread.   *)
(***************************************************************************)
EXTENDS Integers, Sequences

CONSTANTS
    Nodes, NoNode,
    WorkerCount,   \* mpp_cluster_thd_cnt
    Callers

ASSUME ClusterAssumption == WorkerCount \in Nat \ {0} /\ NoNode \notin Nodes

Workers == 1 .. WorkerCount

VARIABLES
    state,      \* state[n]: the bits of the node's state word
    attached,   \* attached[n]
    sem,        \* sem[n]: the posts in sem_detach
    queue,      \* the nodes linked in the cluster's queue
    wpc,        \* wpc[w]: where worker w is in its loop
    task,       \* task[w]: the node in its list_task
    seen,       \* seen[w]: the state word it read after the node's function
    wstate,     \* WORKER_IDLE or WORKER_RUNNING
    signalled,  \* signalled[w]: the sleeping worker was signalled
    cpc,        \* cpc[c]: where caller c is in its call
    job,        \* job[c]: "attach", "trigger" or "detach", and on node[c]
    node,
    next        \* next[c]: the worker cluster_signal looks at next

nodeVars == <<state, attached, sem>>
workVars == <<wpc, task, seen, wstate, signalled>>
callVars == <<cpc, job, node, next>>
vars == <<nodeVars, queue, workVars, callVars>>

Bits == {"VALID", "IDLE", "SIGNAL", "WAIT", "RUN"}

\* The ...Slip operators are the mutants of the checks: what a slip in the code
\* would make of the definition that follows them.
Init ==
    /\ state = [n \in Nodes |-> {}]
    /\ attached = [n \in Nodes |-> FALSE]
    /\ sem = [n \in Nodes |-> 0]
    /\ queue = << >>
    /\ wpc = [w \in Workers |-> "get"] /\ task = [w \in Workers |-> NoNode]
    /\ seen = [w \in Workers |-> {}]
    /\ wstate = [w \in Workers |-> "IDLE"] /\ signalled = [w \in Workers |-> FALSE]
    /\ cpc = [c \in Callers |-> "idle"] /\ job = [c \in Callers |-> "none"]
    /\ node = [c \in Callers |-> NoNode] /\ next = [c \in Callers |-> 1]

Goto(c, l) == cpc' = [cpc EXCEPT ![c] = l]

\* Caller c begins a call on node n.
Call(c, j, n, l) ==
    /\ cpc[c] = "idle" /\ Goto(c, l)
    /\ job' = [job EXCEPT ![c] = j] /\ node' = [node EXCEPT ![c] = n]
    /\ next' = [next EXCEPT ![c] = 1]

\* Caller c's call returns.
Return(c) ==
    /\ Goto(c, "idle")
    /\ job' = [job EXCEPT ![c] = "none"] /\ node' = [node EXCEPT ![c] = NoNode]
    /\ next' = [next EXCEPT ![c] = 1]

\* mpp_node_task_schedule is done: detach goes on to wait for sem_detach.
AfterSchedule(c) ==
    IF job[c] = "detach" THEN Goto(c, "wait") /\ UNCHANGED <<job, node, next>>
    ELSE Return(c)

Detaching(n) == \E c \in Callers : job[c] = "detach" /\ node[c] = n

-----------------------------------------------------------------------------
(* mpp_node_task_schedule_f *)

\* A waiting node is left alone, an idle one is to wait, and a running one is
\* told to run again.
QueueableSlip(st) == "RUN" \notin st
Queueable(st) == "IDLE" \in st

Scheduled(st) ==
    IF Queueable(st) THEN (st \ {"IDLE"}) \cup {"WAIT"}
    ELSE IF "RUN" \in st THEN st \cup {"SIGNAL"} ELSE st

NextStep(st, done) ==
    IF Queueable(st) THEN "add" ELSE IF "RUN" \in st THEN "signal" ELSE done

\* The node goes to the tail of the queue.
Add(c) ==
    /\ cpc[c] = "add"
    /\ queue' = Append(queue, node[c])
    /\ Goto(c, "signal")
    /\ UNCHANGED <<nodeVars, workVars, job, node, next>>

\* cluster_signal_f signals the first worker that says it is idle.
SaysIdleSlip(w) == wstate[w] = "RUNNING"
SaysIdle(w) == wstate[w] = "IDLE"

SignalWorker(c) ==
    /\ cpc[c] = "signal" /\ next[c] \in Workers
    /\ IF SaysIdle(next[c])
       THEN /\ signalled' = [signalled EXCEPT ![next[c]] = @ \/ wpc[next[c]] = "asleep"]
            /\ AfterSchedule(c)
       ELSE /\ next' = [next EXCEPT ![c] = @ + 1]
            /\ UNCHANGED <<cpc, job, node, signalled>>
    /\ UNCHANGED <<nodeVars, queue, wpc, task, seen, wstate>>

SignalNobody(c) ==
    /\ cpc[c] = "signal" /\ next[c] \notin Workers
    /\ AfterSchedule(c)
    /\ UNCHANGED <<nodeVars, queue, workVars>>

-----------------------------------------------------------------------------
(* mpp_node_attach, mpp_node_trigger and mpp_node_detach *)

\* A node that is attached is scheduled once; nobody else knows it yet.
Attach(c, n) ==
    /\ ~attached[n] /\ ~Detaching(n)
    /\ attached' = [attached EXCEPT ![n] = TRUE]
    /\ state' = [state EXCEPT ![n] = Scheduled({"VALID", "IDLE"})]
    /\ Call(c, "attach", n, "add")
    /\ UNCHANGED <<sem, queue, workVars>>

Trigger(c, n) ==
    /\ attached[n] /\ ~Detaching(n)
    /\ state' = [state EXCEPT ![n] = Scheduled(@)]
    /\ IF NextStep(state[n], "idle") = "idle"
       THEN cpc[c] = "idle" /\ UNCHANGED callVars
       ELSE Call(c, "trigger", n, NextStep(state[n], "idle"))
    /\ UNCHANGED <<attached, sem, queue, workVars>>

Detach(c, n) ==
    /\ attached[n] /\ ~Detaching(n)
    /\ state' = [state EXCEPT ![n] = @ \ {"VALID"}]
    /\ Call(c, "detach", n, "sched")
    /\ UNCHANGED <<attached, sem, queue, workVars>>

DetachSchedule(c) ==
    LET n == node[c]
    IN  /\ cpc[c] = "sched"
        /\ state' = [state EXCEPT ![n] = Scheduled(@)]
        /\ Goto(c, NextStep(state[n], "wait"))
        /\ UNCHANGED <<attached, sem, queue, workVars, job, node, next>>

DetachDone(c) ==
    /\ cpc[c] = "wait" /\ sem[node[c]] > 0
    /\ sem' = [sem EXCEPT ![node[c]] = @ - 1]
    /\ Return(c)
    /\ UNCHANGED <<state, attached, queue, workVars>>

-----------------------------------------------------------------------------
(* The worker threads *)

At(w, l) == wpc' = [wpc EXCEPT ![w] = l]

\* cluster_worker_get_task, for one node.
GetTask(w) ==
    /\ wpc[w] = "get" /\ queue # << >>
    /\ queue' = Tail(queue)
    /\ task' = [task EXCEPT ![w] = Head(queue)]
    /\ state' = [state EXCEPT ![Head(queue)] = (@ \ {"WAIT"}) \cup {"RUN"}]
    /\ At(w, "run")
    /\ UNCHANGED <<attached, sem, seen, wstate, signalled, callVars>>

\* No task: the worker waits, with its thread's lock held from the look at the
\* queue until it sleeps.
Sleep(w) ==
    /\ wpc[w] = "get" /\ queue = << >>
    /\ wstate' = [wstate EXCEPT ![w] = "IDLE"]
    /\ At(w, "asleep")
    /\ UNCHANGED <<nodeVars, queue, task, seen, signalled, callVars>>

WakeUp(w) ==
    /\ wpc[w] = "asleep"
    /\ wstate' = [wstate EXCEPT ![w] = "RUNNING"]
    /\ signalled' = [signalled EXCEPT ![w] = FALSE]
    /\ At(w, "get")
    /\ UNCHANGED <<nodeVars, queue, task, seen, callVars>>

Wake(w) == signalled[w] /\ WakeUp(w)
SpuriousWake(w) == ~signalled[w] /\ WakeUp(w)

\* The node's function returns and the worker reads the state word.
RunTask(w) ==
    LET st == state[task[w]]
    IN  /\ wpc[w] = "run"
        /\ seen' = [seen EXCEPT ![w] = IF {"VALID", "SIGNAL"} \subseteq st THEN st ELSE @]
        /\ At(w, IF "VALID" \notin st THEN "post"
                 ELSE IF "SIGNAL" \in st THEN "requeue" ELSE "rest")
        /\ UNCHANGED <<nodeVars, queue, task, wstate, signalled, callVars>>

\* The worker has let go of its node.
Drop(w) == At(w, "get") /\ task' = [task EXCEPT ![w] = NoNode]

\* The node is being detached.
PostDetach(w) ==
    /\ wpc[w] = "post"
    /\ attached' = [attached EXCEPT ![task[w]] = FALSE]
    /\ sem' = [sem EXCEPT ![task[w]] = @ + 1]
    /\ Drop(w)
    /\ UNCHANGED <<state, queue, seen, wstate, signalled, callVars>>

\* The node was triggered while it ran.  The word to compare with is the one
\* read before the loop: when it changes, this is tried in vain for ever.
Requeue(w) ==
    /\ wpc[w] = "requeue" /\ state[task[w]] = seen[w]
    /\ state' = [state EXCEPT ![task[w]] = (@ \ {"SIGNAL", "RUN"}) \cup {"WAIT"}]
    /\ seen' = [seen EXCEPT ![w] = {}]
    /\ At(w, "readd")
    /\ UNCHANGED <<attached, sem, queue, task, wstate, signalled, callVars>>

AddAgainSlip(q, n) == <<n>> \o q
AddAgain(q, n) == Append(q, n)

ReAdd(w) ==
    /\ wpc[w] = "readd"
    /\ queue' = AddAgain(queue, task[w])
    /\ Drop(w)
    /\ UNCHANGED <<nodeVars, seen, wstate, signalled, callVars>>

\* The node was not triggered when the word was read; it is read again here.
Rested(st) == (st \ {"RUN"}) \cup {"IDLE"}

Rest(w) ==
    /\ wpc[w] = "rest"
    /\ state' = [state EXCEPT ![task[w]] = Rested(@)]
    /\ Drop(w)
    /\ UNCHANGED <<attached, sem, queue, seen, wstate, signalled, callVars>>

-----------------------------------------------------------------------------

WorkerStep(w) ==
    \/ GetTask(w) \/ Sleep(w) \/ Wake(w)
    \/ RunTask(w) \/ PostDetach(w) \/ Requeue(w) \/ ReAdd(w) \/ Rest(w)

\* The steps of a call once it has begun.
CallStep(c) ==
    \/ Add(c) \/ SignalWorker(c) \/ SignalNobody(c)
    \/ DetachSchedule(c) \/ DetachDone(c)

Next ==
    \/ \E w \in Workers : WorkerStep(w) \/ SpuriousWake(w)
    \/ \E c \in Callers :
         \/ CallStep(c)
         \/ \E n \in Nodes : Attach(c, n) \/ Trigger(c, n) \/ Detach(c, n)

Spec == Init /\ [][Next]_vars

\* The threads run, and the nodes' functions return.
Fairness ==
    /\ \A w \in Workers : WF_vars(WorkerStep(w))
    /\ \A c \in Callers : WF_vars(CallStep(c))

FairSpec == Spec /\ Fairness

-----------------------------------------------------------------------------
(* Properties *)

\* Types; an attached node is idle, waits or runs, and is one of these.
TypeOK ==
    /\ state \in [Nodes -> SUBSET Bits] /\ attached \in [Nodes -> BOOLEAN]
    /\ sem \in [Nodes -> Nat] /\ queue \in Seq(Nodes)
    /\ wpc \in [Workers -> {"get", "asleep", "run", "post", "requeue", "readd", "rest"}]
    /\ task \in [Workers -> Nodes \cup {NoNode}] /\ seen \in [Workers -> SUBSET Bits]
    /\ wstate \in [Workers -> {"IDLE", "RUNNING"}] /\ signalled \in [Workers -> BOOLEAN]
    /\ cpc \in [Callers -> {"idle", "sched", "add", "signal", "wait"}]
    /\ job \in [Callers -> {"none", "attach", "trigger", "detach"}]
    /\ node \in [Callers -> Nodes \cup {NoNode}] /\ next \in [Callers -> 1 .. WorkerCount + 1]
    /\ \A n \in Nodes : attached[n] =>
         \E s \in {"IDLE", "WAIT", "RUN"} : state[n] \cap {"IDLE", "WAIT", "RUN"} = {s}

Queued(n) == \E i \in DOMAIN queue : queue[i] = n
Adding(c, n) == cpc[c] = "add" /\ node[c] = n

\* An attached node that waits or runs is in one place, the queue, the hands of
\* one worker or those of the caller that is to add it, and an idle or detached
\* one in none: no node runs on two workers or is linked twice (the asserts on
\* list_sched), and a node can be freed when its detach returns.
OnePlace ==
    /\ \A i, j \in DOMAIN queue : queue[i] = queue[j] => i = j
    /\ \A n \in Nodes :
         LET holders == {w \in Workers : task[w] = n}
             adders == {c \in Callers : Adding(c, n)}
         IN  /\ \A w, v \in holders : w = v
             /\ \A c, d \in adders : c = d
             /\ Queued(n) => holders = {} /\ adders = {}
             /\ holders # {} => adders = {}
             /\ (Queued(n) \/ holders # {} \/ adders # {})
                    <=> (attached[n] /\ "IDLE" \notin state[n])

\* Types and places: what the swaps of mpp_cluster.cpp keep of a node.
NodesPlaced == TypeOK /\ OnePlace

\* While a node waits in the queue, a worker is awake or signalled, or a caller
\* is about to signal one: add comes before the signal, and a worker looks at
\* the queue and falls asleep under the lock the signal needs.
NoSleepOverWork ==
    (queue # << >> /\ \A w \in Workers : wpc[w] = "asleep" /\ ~signalled[w])
        => \E c \in Callers : cpc[c] = "signal" /\ \E w \in Workers : w >= next[c]

\* A worker is caught in the loop that queues a signalled node again.
Caught(w) == wpc[w] = "requeue" /\ state[task[w]] # seen[w]

\* A queued node is taken, however often others are triggered, unless a worker
\* is caught.
QueuedRuns ==
    \A n \in Nodes : Queued(n) ~> (~Queued(n) \/ \E w \in Workers : Caught(w))
=============================================================================
