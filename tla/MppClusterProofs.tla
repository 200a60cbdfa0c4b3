-------------------------- MODULE MppClusterProofs --------------------------
(***************************************************************************)
(* Proofs about MppCluster, for any nodes, workers and callers.            *)
(***************************************************************************)
EXTENDS MppCluster, TLAPS

-----------------------------------------------------------------------------
(* The inductive invariant: the state word of a node tells where the node   *)
(* is, and what each thread in the middle of a call knows about its node.   *)

Busy == {"run", "post", "requeue", "readd", "rest"}

\* TypeOK without its last conjunct, which NodeInv has in another form.
Types ==
    /\ state \in [Nodes -> SUBSET Bits] /\ attached \in [Nodes -> BOOLEAN]
    /\ sem \in [Nodes -> Nat] /\ queue \in Seq(Nodes)
    /\ wpc \in [Workers -> {"get", "asleep"} \cup Busy]
    /\ task \in [Workers -> Nodes \cup {NoNode}] /\ seen \in [Workers -> SUBSET Bits]
    /\ wstate \in [Workers -> {"IDLE", "RUNNING"}] /\ signalled \in [Workers -> BOOLEAN]
    /\ cpc \in [Callers -> {"idle", "sched", "add", "signal", "wait"}]
    /\ job \in [Callers -> {"none", "attach", "trigger", "detach"}]
    /\ node \in [Callers -> Nodes \cup {NoNode}] /\ next \in [Callers -> 1 .. WorkerCount + 1]

\* Exactly one of the three states.
OneState(st) ==
    \/ "IDLE" \in st /\ "WAIT" \notin st /\ "RUN" \notin st
    \/ "IDLE" \notin st /\ "WAIT" \in st /\ "RUN" \notin st
    \/ "IDLE" \notin st /\ "WAIT" \notin st /\ "RUN" \in st

\* A queued node waits, and is queued once.
QueueInv ==
    /\ \A i, j \in DOMAIN queue : queue[i] = queue[j] => i = j
    /\ \A n \in Nodes : Queued(n) => attached[n] /\ "WAIT" \in state[n]

\* The node in a worker's hands runs, or waits to be queued again, and is in
\* nobody else's hands.
WorkerInv ==
    \A w \in Workers :
        /\ task[w] # NoNode <=> wpc[w] \in Busy
        /\ task[w] # NoNode =>
             /\ attached[task[w]] /\ ~Queued(task[w])
             /\ IF wpc[w] = "readd" THEN "WAIT" \in state[task[w]]
                ELSE "RUN" \in state[task[w]]
             /\ \A v \in Workers : task[v] = task[w] => v = w
        /\ wpc[w] = "asleep" => wstate[w] = "IDLE"

\* The same for a caller about to queue a node.
CallerInv ==
    \A c \in Callers :
        /\ cpc[c] # "idle" => node[c] \in Nodes
        /\ cpc[c] = "sched" => next[c] = 1
        /\ cpc[c] = "add" =>
             /\ attached[node[c]] /\ ~Queued(node[c])
             /\ "WAIT" \in state[node[c]]
             /\ \A w \in Workers : task[w] # node[c]
             /\ \A d \in Callers : Adding(d, node[c]) => d = c
             /\ next[c] = 1

\* A node that is not idle is somewhere.
NodeInv ==
    \A n \in Nodes :
        /\ attached[n] => OneState(state[n])
        /\ "IDLE" \in state[n] => attached[n]
        /\ attached[n] /\ "IDLE" \notin state[n] =>
             \/ Queued(n)
             \/ \E w \in Workers : task[w] = n
             \/ \E c \in Callers : Adding(c, n)

ClusterInv == Types /\ QueueInv /\ WorkerInv /\ CallerInv /\ NodeInv /\ NoSleepOverWork

-----------------------------------------------------------------------------
(* Facts about state words, the queue and the workers *)

LEMMA OneStateIff ==
    ASSUME NEW st
    PROVE  OneState(st) <=>
             \E s \in {"IDLE", "WAIT", "RUN"} : st \cap {"IDLE", "WAIT", "RUN"} = {s}
<1>1. ASSUME OneState(st)
      PROVE  \E s \in {"IDLE", "WAIT", "RUN"} : st \cap {"IDLE", "WAIT", "RUN"} = {s}
  <2>1. CASE "IDLE" \in st /\ "WAIT" \notin st /\ "RUN" \notin st
    <3>1. st \cap {"IDLE", "WAIT", "RUN"} = {"IDLE"}
      BY <2>1
    <3> QED BY <3>1
  <2>2. CASE "IDLE" \notin st /\ "WAIT" \in st /\ "RUN" \notin st
    <3>1. st \cap {"IDLE", "WAIT", "RUN"} = {"WAIT"}
      BY <2>2
    <3> QED BY <3>1
  <2>3. CASE "IDLE" \notin st /\ "WAIT" \notin st /\ "RUN" \in st
    <3>1. st \cap {"IDLE", "WAIT", "RUN"} = {"RUN"}
      BY <2>3
    <3> QED BY <3>1
  <2> QED BY <1>1, <2>1, <2>2, <2>3 DEF OneState
<1>2. ASSUME NEW s \in {"IDLE", "WAIT", "RUN"}, st \cap {"IDLE", "WAIT", "RUN"} = {s}
      PROVE  OneState(st)
  <2>1. \A x \in {"IDLE", "WAIT", "RUN"} : x \in st <=> x = s
    BY <1>2
  <2> QED BY <2>1 DEF OneState
<1> QED BY <1>1, <1>2

LEMMA TypesGiveTypeOK == Types /\ NodeInv => TypeOK
<1> SUFFICES ASSUME Types, NodeInv PROVE TypeOK
  OBVIOUS
<1>1. \A n \in Nodes : attached[n] =>
        \E s \in {"IDLE", "WAIT", "RUN"} : state[n] \cap {"IDLE", "WAIT", "RUN"} = {s}
  BY OneStateIff DEF NodeInv
<1>2. {"get", "asleep"} \cup Busy
        = {"get", "asleep", "run", "post", "requeue", "readd", "rest"}
  BY DEF Busy
<1> QED BY <1>1, <1>2 DEF Types, TypeOK

LEMMA WorkersFact == Workers # {} /\ Workers \subseteq Nat /\ 1 \in Workers
BY ClusterAssumption DEF Workers, ClusterAssumption

\* What scheduling does to a state word.
LEMMA ScheduledFacts ==
    ASSUME NEW st \in SUBSET Bits
    PROVE  /\ Scheduled(st) \in SUBSET Bits
           /\ "IDLE" \notin Scheduled(st)
           /\ "RUN" \in Scheduled(st) <=> "RUN" \in st
           /\ "WAIT" \in Scheduled(st) <=> "WAIT" \in st \/ "IDLE" \in st
BY DEF Scheduled, Queueable, Bits

LEMMA QueueAppend ==
    ASSUME queue \in Seq(Nodes), NEW m \in Nodes, ~Queued(m),
           \A i, j \in DOMAIN queue : queue[i] = queue[j] => i = j,
           queue' = Append(queue, m)
    PROVE  /\ queue' \in Seq(Nodes) /\ queue' # << >>
           /\ \A i, j \in DOMAIN queue' : queue'[i] = queue'[j] => i = j
           /\ \A n : Queued(n)' <=> Queued(n) \/ n = m
<1>1. queue' \in Seq(Nodes) /\ Len(queue') = Len(queue) + 1 /\ Len(queue) \in Nat
  OBVIOUS
<1>2. DOMAIN queue = 1 .. Len(queue) /\ DOMAIN queue' = 1 .. Len(queue) + 1
  BY <1>1
<1>3. /\ \A i \in DOMAIN queue : i \in DOMAIN queue' /\ queue'[i] = queue[i]
      /\ Len(queue) + 1 \in DOMAIN queue' /\ queue'[Len(queue) + 1] = m
      /\ \A i \in DOMAIN queue' : i \in DOMAIN queue \/ i = Len(queue) + 1
  BY <1>1, <1>2
<1>4. \A i, j \in DOMAIN queue' : queue'[i] = queue'[j] => i = j
  BY <1>3 DEF Queued
<1>5. \A n : Queued(n)' <=> Queued(n) \/ n = m
  BY <1>3 DEF Queued
<1>6. queue' # << >>
  BY <1>1
<1> QED BY <1>1, <1>4, <1>5, <1>6

LEMMA QueueTail ==
    ASSUME queue \in Seq(Nodes), queue # << >>,
           \A i, j \in DOMAIN queue : queue[i] = queue[j] => i = j,
           queue' = Tail(queue)
    PROVE  /\ queue' \in Seq(Nodes) /\ Head(queue) \in Nodes /\ Queued(Head(queue))
           /\ \A i, j \in DOMAIN queue' : queue'[i] = queue'[j] => i = j
           /\ \A n : Queued(n)' <=> Queued(n) /\ n # Head(queue)
<1>1. queue' \in Seq(Nodes) /\ Len(queue') = Len(queue) - 1 /\ Len(queue) \in Nat \ {0}
  OBVIOUS
<1>2. DOMAIN queue = 1 .. Len(queue) /\ DOMAIN queue' = 1 .. Len(queue) - 1
  BY <1>1
<1>3. \A i \in DOMAIN queue' : i + 1 \in DOMAIN queue /\ queue'[i] = queue[i + 1] /\ i + 1 # 1
  BY <1>1, <1>2
<1>4. Head(queue) = queue[1] /\ 1 \in DOMAIN queue /\ queue[1] \in Nodes
  BY <1>1, <1>2
<1>5. \A i, j \in DOMAIN queue' : queue'[i] = queue'[j] => i = j
  BY <1>2, <1>3
<1>6. ASSUME NEW n, Queued(n), n # Head(queue)
      PROVE  Queued(n)'
  <2>1. PICK i \in DOMAIN queue : queue[i] = n
    BY <1>6 DEF Queued
  <2>2. i # 1
    BY <1>4, <1>6, <2>1
  <2>3. i - 1 \in DOMAIN queue' /\ queue'[i - 1] = queue[i]
    BY <1>1, <1>2, <2>1, <2>2
  <2> QED BY <2>1, <2>3 DEF Queued
<1>7. ASSUME NEW n, Queued(n)'
      PROVE  Queued(n) /\ n # Head(queue)
  <2>1. PICK i \in DOMAIN queue' : queue'[i] = n
    BY <1>7 DEF Queued
  <2>2. i + 1 \in DOMAIN queue /\ queue[i + 1] = n /\ i + 1 # 1
    BY <1>3, <2>1
  <2> QED BY <1>4, <2>2 DEF Queued
<1> QED BY <1>1, <1>4, <1>5, <1>6, <1>7 DEF Queued

-----------------------------------------------------------------------------
(* What a step may do to the places of the nodes *)

Places == QueueInv /\ WorkerInv /\ CallerInv /\ NodeInv

\* A node that is detached or idle is nowhere.
LEMMA Nowhere ==
    ASSUME Types, Places, NEW n \in Nodes, ~attached[n] \/ "IDLE" \in state[n]
    PROVE  /\ ~Queued(n) /\ (\A w \in Workers : task[w] # n)
           /\ \A c \in Callers : ~Adding(c, n)
<1>1. "WAIT" \in state[n] \/ "RUN" \in state[n] => ~attached[n]
  BY DEF Places, NodeInv, OneState
<1>2. ~Queued(n)
  BY <1>1 DEF Places, QueueInv
<1>3. ASSUME NEW w \in Workers, task[w] = n
      PROVE  FALSE
  <2>1. task[w] # NoNode
    BY <1>3, ClusterAssumption DEF ClusterAssumption
  <2> QED BY <1>1, <1>3, <2>1 DEF Places, WorkerInv
<1>4. \A c \in Callers : ~Adding(c, n)
  BY <1>1 DEF Places, CallerInv, Adding
<1> QED BY <1>2, <1>3, <1>4

\* A step that moves no node.
MovesNothing ==
    /\ queue' = queue /\ attached' = attached /\ task' = task
    /\ \A n \in Nodes : \A b \in {"IDLE", "WAIT", "RUN"} : b \in state'[n] <=> b \in state[n]
    /\ \A w \in Workers : wpc'[w] \in Busy <=> wpc[w] \in Busy
    /\ \A w \in Workers : wpc'[w] = "readd" <=> wpc[w] = "readd"
    /\ \A w \in Workers : wpc'[w] = "asleep" => wstate'[w] = "IDLE"
    /\ \A c \in Callers : cpc'[c] = "add" <=> cpc[c] = "add"
    /\ \A c \in Callers : cpc[c] = "add" => node'[c] = node[c] /\ next'[c] = next[c]
    /\ \A c \in Callers : cpc'[c] # "idle" => node'[c] \in Nodes
    /\ \A c \in Callers : cpc'[c] = "sched" => next'[c] = 1

LEMMA NobodyMoves ==
    ASSUME Types, Places, MovesNothing
    PROVE  Places'
<1> USE DEF MovesNothing
<1>1. \A n : Queued(n)' <=> Queued(n)
  BY DEF Queued
<1>2. \A c \in Callers : \A n : Adding(c, n)' <=> Adding(c, n)
  BY DEF Adding
<1>3. QueueInv'
  BY <1>1 DEF Places, QueueInv
<1>4. WorkerInv'
  <2> SUFFICES ASSUME NEW w \in Workers
               PROVE  /\ task[w] # NoNode <=> wpc'[w] \in Busy
                      /\ task[w] # NoNode =>
                           /\ attached[task[w]] /\ ~Queued(task[w])
                           /\ IF wpc'[w] = "readd" THEN "WAIT" \in state'[task[w]]
                              ELSE "RUN" \in state'[task[w]]
                           /\ \A v \in Workers : task[v] = task[w] => v = w
                      /\ wpc'[w] = "asleep" => wstate'[w] = "IDLE"
    BY <1>1 DEF WorkerInv
  <2>1. task[w] # NoNode => task[w] \in Nodes
    BY DEF Types
  <2> QED BY <2>1 DEF Places, WorkerInv
<1>5. CallerInv'
  BY <1>1, <1>2 DEF Places, CallerInv
<1>6. NodeInv'
  BY <1>1, <1>2 DEF Places, NodeInv, OneState
<1> QED BY <1>3, <1>4, <1>5, <1>6 DEF Places

\* A step that makes caller c the one to add node n, which was nowhere.
StartsToAdd(c, n) ==
    /\ cpc[c] # "add" /\ (~attached[n] \/ "IDLE" \in state[n])
    /\ queue' = queue /\ task' = task /\ wpc' = wpc /\ wstate' = wstate
    /\ attached'[n] /\ "WAIT" \in state'[n] /\ "IDLE" \notin state'[n] /\ "RUN" \notin state'[n]
    /\ \A m \in Nodes \ {n} : state'[m] = state[m] /\ attached'[m] = attached[m]
    /\ cpc'[c] = "add" /\ node'[c] = n /\ next'[c] = 1
    /\ \A d \in Callers \ {c} :
           cpc'[d] = cpc[d] /\ node'[d] = node[d] /\ next'[d] = next[d]

LEMMA StartAdd ==
    ASSUME Types, Types', Places, NEW c \in Callers, NEW n \in Nodes, StartsToAdd(c, n)
    PROVE  Places'
<1> USE DEF StartsToAdd
<1>1. \A m : Queued(m)' <=> Queued(m)
  BY DEF Queued
<1>2. /\ ~Queued(n) /\ (\A w \in Workers : task[w] # n)
      /\ \A d \in Callers : ~Adding(d, n)
  BY Nowhere
<1>3. /\ \A d \in Callers \ {c} : \A m : Adding(d, m)' <=> Adding(d, m)
      /\ \A m : Adding(c, m)' <=> m = n
      /\ \A m : ~Adding(c, m)
  BY DEF Adding
<1>4. QueueInv'
  BY <1>1, <1>2 DEF Places, QueueInv
<1>5. WorkerInv'
  <2> SUFFICES ASSUME NEW w \in Workers
               PROVE  /\ task[w] # NoNode <=> wpc[w] \in Busy
                      /\ task[w] # NoNode =>
                           /\ attached'[task[w]] /\ ~Queued(task[w])
                           /\ IF wpc[w] = "readd" THEN "WAIT" \in state'[task[w]]
                              ELSE "RUN" \in state'[task[w]]
                           /\ \A v \in Workers : task[v] = task[w] => v = w
                      /\ wpc[w] = "asleep" => wstate[w] = "IDLE"
    BY <1>1 DEF WorkerInv
  <2>1. task[w] # NoNode => task[w] \in Nodes \ {n}
    BY <1>2 DEF Types
  <2> QED BY <2>1 DEF Places, WorkerInv
<1>6. CallerInv'
  <2>1. \A d \in Callers : /\ cpc'[d] # "idle" => node'[d] \in Nodes
                           /\ cpc'[d] = "sched" => next'[d] = 1
    BY DEF Places, CallerInv
  <2>2. ASSUME NEW d \in Callers \ {c}, cpc'[d] = "add"
        PROVE  /\ attached'[node'[d]] /\ ~Queued(node[d])'
               /\ "WAIT" \in state'[node'[d]]
               /\ \A w \in Workers : task'[w] # node'[d]
               /\ \A e \in Callers : Adding(e, node[d])' => e = d
               /\ next'[d] = 1
    <3>1. cpc[d] = "add" /\ node'[d] = node[d] /\ node[d] \in Nodes \ {n}
      BY <1>2, <2>1, <2>2 DEF Adding
    <3> QED BY <1>1, <1>3, <3>1, <2>2 DEF Places, CallerInv
  <2>3. /\ attached'[node'[c]] /\ ~Queued(node[c])'
        /\ "WAIT" \in state'[node'[c]]
        /\ \A w \in Workers : task'[w] # node'[c]
        /\ \A e \in Callers : Adding(e, node[c])' => e = c
        /\ next'[c] = 1
    BY <1>1, <1>2, <1>3
  <2> QED BY <2>1, <2>2, <2>3 DEF CallerInv
<1>7. NodeInv'
  <2>1. ASSUME NEW m \in Nodes \ {n}
        PROVE  /\ attached'[m] => OneState(state'[m])
               /\ "IDLE" \in state'[m] => attached'[m]
               /\ attached'[m] /\ "IDLE" \notin state'[m] =>
                    \/ Queued(m)'
                    \/ \E w \in Workers : task'[w] = m
                    \/ \E d \in Callers : Adding(d, m)'
    BY <1>1, <1>3, <2>1 DEF Places, NodeInv
  <2>2. /\ attached'[n] => OneState(state'[n])
        /\ "IDLE" \in state'[n] => attached'[n]
        /\ \E d \in Callers : Adding(d, n)'
    BY <1>3 DEF OneState
  <2> QED BY <2>1, <2>2 DEF NodeInv
<1> QED BY <1>4, <1>5, <1>6, <1>7 DEF Places

-----------------------------------------------------------------------------
(* The steps that move a node *)

LEMMA GetTaskStep ==
    ASSUME Types, Places, NEW w \in Workers, GetTask(w)
    PROVE  Types' /\ Places'
<1> SUFFICES ASSUME NEW n, n = Head(queue)
             PROVE  Types' /\ Places'
  OBVIOUS
<1>1. /\ wpc[w] = "get" /\ queue # << >> /\ queue' = Tail(queue)
      /\ task' = [task EXCEPT ![w] = n]
      /\ state' = [state EXCEPT ![n] = (@ \ {"WAIT"}) \cup {"RUN"}]
      /\ wpc' = [wpc EXCEPT ![w] = "run"]
      /\ UNCHANGED <<attached, sem, seen, wstate, signalled, callVars>>
  BY DEF GetTask, At
<1>2. /\ queue' \in Seq(Nodes) /\ n \in Nodes /\ Queued(n)
      /\ \A i, j \in DOMAIN queue' : queue'[i] = queue'[j] => i = j
      /\ \A m : Queued(m)' <=> Queued(m) /\ m # n
  BY <1>1, QueueTail DEF Types, Places, QueueInv
<1>3. Types'
  <2>1. state' \in [Nodes -> SUBSET Bits]
    BY <1>1, <1>2 DEF Types, Bits
  <2>2. wpc' \in [Workers -> {"get", "asleep"} \cup Busy]
    BY <1>1 DEF Types, Busy
  <2>3. task' \in [Workers -> Nodes \cup {NoNode}]
    BY <1>1, <1>2 DEF Types
  <2> QED BY <1>1, <1>2, <2>1, <2>2, <2>3 DEF Types, callVars
<1>4. /\ attached[n] /\ "WAIT" \in state[n] /\ "IDLE" \notin state[n]
      /\ "RUN" \notin state[n] /\ "RUN" \in state'[n] /\ "WAIT" \notin state'[n]
      /\ "IDLE" \notin state'[n]
      /\ \A m \in Nodes \ {n} : state'[m] = state[m]
  BY <1>1, <1>2 DEF Types, Places, QueueInv, NodeInv, OneState
<1>5. /\ \A v \in Workers : task[v] # n
      /\ \A c \in Callers : ~Adding(c, n)
  <2>1. n # NoNode
    BY <1>2, ClusterAssumption DEF ClusterAssumption
  <2> QED BY <1>2, <2>1 DEF Places, WorkerInv, CallerInv, Adding
<1>6. \A c, m : Adding(c, m)' <=> Adding(c, m)
  BY <1>1 DEF Adding, callVars
<1>7. QueueInv'
  BY <1>1, <1>2, <1>4 DEF Places, QueueInv
<1>8. WorkerInv'
  <2>1. ASSUME NEW v \in Workers \ {w}
        PROVE  /\ task'[v] # NoNode <=> wpc'[v] \in Busy
               /\ task'[v] # NoNode =>
                    /\ attached'[task'[v]] /\ ~Queued(task[v])'
                    /\ IF wpc'[v] = "readd" THEN "WAIT" \in state'[task'[v]]
                       ELSE "RUN" \in state'[task'[v]]
                    /\ \A u \in Workers : task'[u] = task'[v] => u = v
               /\ wpc'[v] = "asleep" => wstate'[v] = "IDLE"
    <3>1. task'[v] = task[v] /\ wpc'[v] = wpc[v] /\ v \in Workers /\ task[v] # n
      BY <1>1, <1>5 DEF Types
    <3>2. task[v] # NoNode => task[v] \in Nodes \ {n} /\ state'[task[v]] = state[task[v]]
      BY <1>4, <3>1 DEF Types
    <3>3. \A u \in Workers : task'[u] = task[v] => task[u] = task[v]
      BY <1>1, <3>1 DEF Types
    <3> QED BY <1>1, <1>2, <3>1, <3>2, <3>3 DEF Places, WorkerInv
  <2>2. /\ task'[w] = n /\ n # NoNode /\ wpc'[w] = "run" /\ "run" \in Busy
        /\ attached'[n] /\ ~Queued(n)' /\ "RUN" \in state'[n]
        /\ \A u \in Workers : task'[u] = n => u = w
    BY <1>1, <1>2, <1>4, <1>5, ClusterAssumption DEF Types, Busy, ClusterAssumption
  <2>3. /\ ~Queued(task[w])'
        /\ attached'[task'[w]] /\ "RUN" \in state'[task'[w]]
        /\ \A u \in Workers : task'[u] = task'[w] => u = w
    BY <2>2
  <2> QED BY <2>1, <2>2, <2>3 DEF WorkerInv
<1>9. CallerInv'
  <2>1. \A c \in Callers : cpc[c] = "add" => node[c] \in Nodes \ {n}
    BY <1>5 DEF Places, CallerInv, Adding
  <2>2. \A c \in Callers : cpc[c] = "add" => \A v \in Workers : task'[v] # node[c]
    BY <1>1, <2>1 DEF Types, Places, CallerInv
  <2> QED BY <1>1, <1>2, <1>4, <1>6, <2>1, <2>2 DEF Places, CallerInv, callVars
<1>10. NodeInv'
  <2>1. ASSUME NEW m \in Nodes \ {n}
        PROVE  /\ attached'[m] => OneState(state'[m])
               /\ "IDLE" \in state'[m] => attached'[m]
               /\ attached'[m] /\ "IDLE" \notin state'[m] =>
                    \/ Queued(m)'
                    \/ \E v \in Workers : task'[v] = m
                    \/ \E c \in Callers : Adding(c, m)'
    <3>1. \A v \in Workers : task[v] = m => task'[v] = m
      <4>1. task[w] = NoNode
        BY <1>1 DEF Places, WorkerInv, Busy
      <4> QED BY <1>1, <4>1, ClusterAssumption DEF Types, ClusterAssumption
    <3> QED BY <1>1, <1>2, <1>4, <1>6, <2>1, <3>1 DEF Places, NodeInv
  <2>2. /\ OneState(state'[n]) /\ attached'[n]
        /\ \E v \in Workers : task'[v] = n
    BY <1>1, <1>4 DEF OneState, Types
  <2> QED BY <2>1, <2>2 DEF NodeInv
<1> QED BY <1>3, <1>7, <1>8, <1>9, <1>10 DEF Places

\* Worker w lets go of node n, which is then detached, idle or queued.
LetsGo(w, n) ==
    /\ task[w] = n
    /\ task' = [task EXCEPT ![w] = NoNode] /\ wpc' = [wpc EXCEPT ![w] = "get"]
    /\ wstate' = wstate /\ cpc' = cpc /\ node' = node /\ next' = next
    /\ \A i, j \in DOMAIN queue' : queue'[i] = queue'[j] => i = j
    /\ \A m \in Nodes \ {n} :
           state'[m] = state[m] /\ attached'[m] = attached[m] /\ (Queued(m)' <=> Queued(m))
    /\ \/ ~Queued(n)' /\ ~attached'[n] /\ "IDLE" \notin state'[n]
       \/ ~Queued(n)' /\ attached'[n] /\ "IDLE" \in state'[n] /\ OneState(state'[n])
       \/ Queued(n)' /\ attached'[n] /\ "WAIT" \in state'[n] /\ OneState(state'[n])

LEMMA LetGo ==
    ASSUME Types, Types', Places, NEW w \in Workers, NEW n \in Nodes, LetsGo(w, n)
    PROVE  Places'
<1> task[w] = n
  BY DEF LetsGo
<1> task' = [task EXCEPT ![w] = NoNode] /\ wpc' = [wpc EXCEPT ![w] = "get"]
  BY DEF LetsGo
<1> wstate' = wstate /\ cpc' = cpc /\ node' = node /\ next' = next
  BY DEF LetsGo
<1> \A i, j \in DOMAIN queue' : queue'[i] = queue'[j] => i = j
  BY DEF LetsGo
<1> \A m \in Nodes \ {n} :
        state'[m] = state[m] /\ attached'[m] = attached[m] /\ (Queued(m)' <=> Queued(m))
  BY DEF LetsGo
<1> \/ ~Queued(n)' /\ ~attached'[n] /\ "IDLE" \notin state'[n]
    \/ ~Queued(n)' /\ attached'[n] /\ "IDLE" \in state'[n] /\ OneState(state'[n])
    \/ Queued(n)' /\ attached'[n] /\ "WAIT" \in state'[n] /\ OneState(state'[n])
  BY DEF LetsGo
<1>1. /\ \A v \in Workers \ {w} : task'[v] = task[v] /\ wpc'[v] = wpc[v] /\ task[v] # n
      /\ task'[w] = NoNode /\ wpc'[w] = "get" /\ n # NoNode
  BY ClusterAssumption DEF Types, Places, WorkerInv, ClusterAssumption
<1>2. /\ \A c, m : Adding(c, m)' <=> Adding(c, m)
      /\ \A c \in Callers : ~Adding(c, n)
  BY DEF Adding, Places, CallerInv
<1>3. QueueInv'
  BY DEF Places, QueueInv
<1>4. WorkerInv'
  <2>1. ASSUME NEW v \in Workers \ {w}
        PROVE  /\ task'[v] # NoNode <=> wpc'[v] \in Busy
               /\ task'[v] # NoNode =>
                    /\ attached'[task'[v]] /\ ~Queued(task[v])'
                    /\ IF wpc'[v] = "readd" THEN "WAIT" \in state'[task'[v]]
                       ELSE "RUN" \in state'[task'[v]]
                    /\ \A u \in Workers : task'[u] = task'[v] => u = v
               /\ wpc'[v] = "asleep" => wstate'[v] = "IDLE"
    <3>1. task[v] # NoNode => task'[v] \in Nodes \ {n}
      BY <1>1 DEF Types
    <3>2. \A u \in Workers : task[v] # NoNode /\ task'[u] = task'[v] => task[u] = task[v]
      BY <1>1
    <3> QED BY <1>1, <3>1, <3>2 DEF Places, WorkerInv
  <2> QED BY <1>1, <2>1 DEF WorkerInv, Busy
<1>5. CallerInv'
  <2>1. \A c \in Callers : cpc[c] = "add" => node[c] \in Nodes \ {n}
    BY <1>2 DEF Places, CallerInv, Adding
  <2>2. \A c \in Callers : cpc[c] = "add" => \A v \in Workers : task'[v] # node[c]
    <3>1. \A v \in Workers : task'[v] = task[v] \/ task'[v] = NoNode
      BY <1>1
    <3> QED BY <2>1, <3>1, ClusterAssumption DEF Places, CallerInv, ClusterAssumption
  <2> QED BY <1>2, <2>1, <2>2 DEF Places, CallerInv
<1>6. NodeInv'
  <2>1. ASSUME NEW m \in Nodes \ {n}
        PROVE  /\ attached'[m] => OneState(state'[m])
               /\ "IDLE" \in state'[m] => attached'[m]
               /\ attached'[m] /\ "IDLE" \notin state'[m] =>
                    \/ Queued(m)'
                    \/ \E v \in Workers : task'[v] = m
                    \/ \E c \in Callers : Adding(c, m)'
    <3>1. \A v \in Workers : task[v] = m => task'[v] = m
      BY <1>1
    <3> QED BY <1>2, <2>1, <3>1 DEF Places, NodeInv
  <2>2. /\ attached'[n] => OneState(state'[n])
        /\ "IDLE" \in state'[n] => attached'[n]
        /\ attached'[n] /\ "IDLE" \notin state'[n] => Queued(n)'
    OBVIOUS
  <2> QED BY <2>1, <2>2 DEF NodeInv
<1> QED BY <1>3, <1>4, <1>5, <1>6 DEF Places

\* What a worker with a node knows.
LEMMA HasNode ==
    ASSUME Types, Places, NEW w \in Workers, wpc[w] \in Busy
    PROVE  /\ task[w] \in Nodes /\ task[w] # NoNode
           /\ attached[task[w]] /\ ~Queued(task[w]) /\ OneState(state[task[w]])
           /\ wpc[w] = "readd" => "WAIT" \in state[task[w]]
           /\ wpc[w] # "readd" => "RUN" \in state[task[w]]
<1>1. task[w] # NoNode /\ task[w] \in Nodes
  BY DEF Types, Places, WorkerInv
<1> QED BY <1>1 DEF Places, WorkerInv, NodeInv

LEMMA PostDetachStep ==
    ASSUME Types, Places, NEW w \in Workers, PostDetach(w)
    PROVE  Types' /\ Places'
<1>1. PICK n : n = task[w]
  OBVIOUS
<1>2. /\ n \in Nodes /\ attached[n] /\ ~Queued(n) /\ OneState(state[n])
      /\ "RUN" \in state[n]
  BY <1>1, HasNode DEF PostDetach, Busy
<1>3. /\ attached' = [attached EXCEPT ![n] = FALSE] /\ sem' = [sem EXCEPT ![n] = @ + 1]
      /\ task' = [task EXCEPT ![w] = NoNode] /\ wpc' = [wpc EXCEPT ![w] = "get"]
      /\ UNCHANGED <<state, queue, seen, wstate, signalled, callVars>>
  BY <1>1 DEF PostDetach, Drop, At
<1>4. Types'
  BY <1>2, <1>3 DEF Types, callVars
<1>5. \A m : Queued(m)' <=> Queued(m)
  BY <1>3 DEF Queued
<1>6. ~Queued(n)' /\ ~attached'[n] /\ "IDLE" \notin state'[n]
  BY <1>2, <1>3, <1>5 DEF Types, OneState
<1>7. \A m \in Nodes \ {n} :
          state'[m] = state[m] /\ attached'[m] = attached[m] /\ (Queued(m)' <=> Queued(m))
  BY <1>3, <1>5 DEF Types
<1>8. \A i, j \in DOMAIN queue' : queue'[i] = queue'[j] => i = j
  BY <1>3 DEF Places, QueueInv
<1>9. /\ wstate' = wstate /\ cpc' = cpc /\ node' = node /\ next' = next
      /\ task[w] = n
  BY <1>1, <1>3 DEF callVars
<1>10. LetsGo(w, n)
  BY <1>3, <1>6, <1>7, <1>8, <1>9 DEF LetsGo
<1>11. Places'
  BY <1>2, <1>4, <1>10, LetGo
<1> QED BY <1>4, <1>11

LEMMA RestStep ==
    ASSUME Types, Places, NEW w \in Workers, Rest(w)
    PROVE  Types' /\ Places'
<1>1. PICK n : n = task[w]
  OBVIOUS
<1>2. /\ n \in Nodes /\ attached[n] /\ ~Queued(n) /\ OneState(state[n])
      /\ "RUN" \in state[n]
  BY <1>1, HasNode DEF Rest, Busy
<1>3. /\ state' = [state EXCEPT ![n] = (@ \ {"RUN"}) \cup {"IDLE"}]
      /\ task' = [task EXCEPT ![w] = NoNode] /\ wpc' = [wpc EXCEPT ![w] = "get"]
      /\ UNCHANGED <<attached, sem, queue, seen, wstate, signalled, callVars>>
  BY <1>1 DEF Rest, Rested, Drop, At
<1>4. Types'
  <2>1. state' \in [Nodes -> SUBSET Bits]
    BY <1>2, <1>3 DEF Types, Bits
  <2> QED BY <1>2, <1>3, <2>1 DEF Types, callVars
<1>5. \A m : Queued(m)' <=> Queued(m)
  BY <1>3 DEF Queued
<1>6. ~Queued(n)' /\ attached'[n] /\ "IDLE" \in state'[n] /\ OneState(state'[n])
  BY <1>2, <1>3, <1>5 DEF Types, OneState
<1>7. \A m \in Nodes \ {n} :
          state'[m] = state[m] /\ attached'[m] = attached[m] /\ (Queued(m)' <=> Queued(m))
  BY <1>3, <1>5 DEF Types
<1>8. \A i, j \in DOMAIN queue' : queue'[i] = queue'[j] => i = j
  BY <1>3 DEF Places, QueueInv
<1>9. /\ wstate' = wstate /\ cpc' = cpc /\ node' = node /\ next' = next
      /\ task[w] = n
  BY <1>1, <1>3 DEF callVars
<1>10. LetsGo(w, n)
  BY <1>3, <1>6, <1>7, <1>8, <1>9 DEF LetsGo
<1>11. Places'
  BY <1>2, <1>4, <1>10, LetGo
<1> QED BY <1>4, <1>11

LEMMA ReAddStep ==
    ASSUME Types, Places, NEW w \in Workers, ReAdd(w)
    PROVE  Types' /\ Places' /\ queue' # << >>
<1>1. PICK n : n = task[w]
  OBVIOUS
<1>2. /\ n \in Nodes /\ attached[n] /\ ~Queued(n) /\ OneState(state[n])
      /\ "WAIT" \in state[n]
  BY <1>1, HasNode DEF ReAdd, Busy
<1>3. /\ queue' = Append(queue, n)
      /\ task' = [task EXCEPT ![w] = NoNode] /\ wpc' = [wpc EXCEPT ![w] = "get"]
      /\ UNCHANGED <<nodeVars, seen, wstate, signalled, callVars>>
  BY <1>1 DEF ReAdd, AddAgain, Drop, At
<1>4. /\ queue' \in Seq(Nodes) /\ queue' # << >>
      /\ \A i, j \in DOMAIN queue' : queue'[i] = queue'[j] => i = j
      /\ \A m : Queued(m)' <=> Queued(m) \/ m = n
  BY <1>2, <1>3, QueueAppend DEF Types, Places, QueueInv
<1>5. Types'
  BY <1>2, <1>3, <1>4 DEF Types, callVars, nodeVars
<1>6. Queued(n)' /\ attached'[n] /\ "WAIT" \in state'[n] /\ OneState(state'[n])
  BY <1>2, <1>3, <1>4 DEF nodeVars
<1>7. \A m \in Nodes \ {n} :
          state'[m] = state[m] /\ attached'[m] = attached[m] /\ (Queued(m)' <=> Queued(m))
  BY <1>3, <1>4 DEF nodeVars
<1>9. /\ wstate' = wstate /\ cpc' = cpc /\ node' = node /\ next' = next
      /\ task' = [task EXCEPT ![w] = NoNode] /\ wpc' = [wpc EXCEPT ![w] = "get"]
      /\ task[w] = n /\ \A i, j \in DOMAIN queue' : queue'[i] = queue'[j] => i = j
  BY <1>1, <1>3, <1>4 DEF callVars
<1>10. LetsGo(w, n)
  BY <1>6, <1>7, <1>9 DEF LetsGo
<1>11. Places'
  BY <1>2, <1>5, <1>10, LetGo
<1> QED BY <1>4, <1>5, <1>11

LEMMA RequeueStep ==
    ASSUME Types, Places, NEW w \in Workers, Requeue(w)
    PROVE  Types' /\ Places'
<1>1. PICK n : n = task[w]
  OBVIOUS
<1>2. /\ n \in Nodes /\ n # NoNode /\ attached[n] /\ ~Queued(n) /\ OneState(state[n])
      /\ "RUN" \in state[n] /\ \A v \in Workers \ {w} : task[v] # n
      /\ \A c \in Callers : ~Adding(c, n)
  <2>1. /\ n \in Nodes /\ n # NoNode /\ attached[n] /\ ~Queued(n) /\ OneState(state[n])
        /\ "RUN" \in state[n]
    BY <1>1, HasNode DEF Requeue, Busy
  <2> QED BY <1>1, <2>1 DEF Places, WorkerInv, CallerInv, Adding
<1>3. /\ state' = [state EXCEPT ![n] = (@ \ {"SIGNAL", "RUN"}) \cup {"WAIT"}]
      /\ seen' = [seen EXCEPT ![w] = {}] /\ wpc' = [wpc EXCEPT ![w] = "readd"]
      /\ UNCHANGED <<attached, sem, queue, task, wstate, signalled, callVars>>
  BY <1>1 DEF Requeue, At
<1>4. Types'
  <2>1. state' \in [Nodes -> SUBSET Bits]
    BY <1>2, <1>3 DEF Types, Bits
  <2>2. wpc' \in [Workers -> {"get", "asleep"} \cup Busy]
    BY <1>3 DEF Types, Busy
  <2>3. seen' \in [Workers -> SUBSET Bits]
    BY <1>3 DEF Types
  <2> QED BY <1>3, <2>1, <2>2, <2>3 DEF Types, callVars
<1>5. /\ \A m : Queued(m)' <=> Queued(m)
      /\ \A c, m : Adding(c, m)' <=> Adding(c, m)
  BY <1>3 DEF Queued, Adding, callVars
<1>6. /\ "WAIT" \in state'[n] /\ OneState(state'[n]) /\ "IDLE" \notin state'[n]
      /\ \A m \in Nodes \ {n} : state'[m] = state[m]
  BY <1>2, <1>3 DEF Types, OneState
<1>7. QueueInv'
  BY <1>2, <1>3, <1>5, <1>6 DEF Places, QueueInv
<1>8. WorkerInv'
  <2>1. ASSUME NEW v \in Workers \ {w}
        PROVE  /\ task[v] # NoNode <=> wpc'[v] \in Busy
               /\ task[v] # NoNode =>
                    /\ attached[task[v]] /\ ~Queued(task[v])
                    /\ IF wpc'[v] = "readd" THEN "WAIT" \in state'[task[v]]
                       ELSE "RUN" \in state'[task[v]]
                    /\ \A u \in Workers : task[u] = task[v] => u = v
               /\ wpc'[v] = "asleep" => wstate[v] = "IDLE"
    <3>1. /\ wpc'[v] = wpc[v] /\ v \in Workers
          /\ task[v] # NoNode => task[v] \in Nodes \ {n} /\ state'[task[v]] = state[task[v]]
      BY <1>2, <1>3, <1>6 DEF Types
    <3> QED BY <3>1 DEF Places, WorkerInv
  <2>2. /\ task[w] = n /\ n # NoNode /\ wpc'[w] = "readd" /\ "readd" \in Busy
        /\ attached[n] /\ ~Queued(n) /\ "WAIT" \in state'[n]
        /\ \A u \in Workers : task[u] = n => u = w
    BY <1>1, <1>2, <1>3, <1>6 DEF Types, Busy
  <2> QED BY <1>3, <1>5, <2>1, <2>2 DEF WorkerInv
<1>9. CallerInv'
  <2>1. \A c \in Callers : cpc[c] = "add" => node[c] \in Nodes \ {n}
    BY <1>2 DEF Places, CallerInv, Adding
  <2>2. cpc' = cpc /\ node' = node /\ next' = next
    BY <1>3 DEF callVars
  <2> QED BY <1>3, <1>5, <1>6, <2>1, <2>2 DEF Places, CallerInv
<1>10. NodeInv'
  <2>1. ASSUME NEW m \in Nodes \ {n}
        PROVE  /\ attached'[m] => OneState(state'[m])
               /\ "IDLE" \in state'[m] => attached'[m]
               /\ attached'[m] /\ "IDLE" \notin state'[m] =>
                    \/ Queued(m)'
                    \/ \E v \in Workers : task'[v] = m
                    \/ \E c \in Callers : Adding(c, m)'
    BY <1>3, <1>5, <1>6, <2>1 DEF Places, NodeInv
  <2>2. OneState(state'[n]) /\ attached'[n] /\ task'[w] = n
    BY <1>1, <1>2, <1>3, <1>6
  <2> QED BY <2>1, <2>2 DEF NodeInv
<1> QED BY <1>4, <1>7, <1>8, <1>9, <1>10 DEF Places

LEMMA AddStep ==
    ASSUME Types, Places, NEW c \in Callers, Add(c)
    PROVE  Types' /\ Places' /\ cpc'[c] = "signal" /\ next'[c] = 1
<1>1. PICK n : n = node[c]
  OBVIOUS
<1>2. /\ n \in Nodes /\ attached[n] /\ ~Queued(n) /\ "WAIT" \in state[n] /\ next[c] = 1
      /\ \A w \in Workers : task[w] # n
      /\ \A d \in Callers : Adding(d, n) => d = c
  BY <1>1 DEF Add, Places, CallerInv
<1>3. /\ queue' = Append(queue, n) /\ cpc' = [cpc EXCEPT ![c] = "signal"]
      /\ UNCHANGED <<nodeVars, workVars, job, node, next>>
  BY <1>1 DEF Add, Goto
<1>4. /\ queue' \in Seq(Nodes)
      /\ \A i, j \in DOMAIN queue' : queue'[i] = queue'[j] => i = j
      /\ \A m : Queued(m)' <=> Queued(m) \/ m = n
  BY <1>2, <1>3, QueueAppend DEF Types, Places, QueueInv
<1>5. Types'
  <2>1. cpc' \in [Callers -> {"idle", "sched", "add", "signal", "wait"}]
    BY <1>3 DEF Types
  <2> QED BY <1>3, <1>4, <2>1 DEF Types, nodeVars, workVars
<1>6. /\ state' = state /\ attached' = attached /\ task' = task /\ wpc' = wpc
      /\ wstate' = wstate /\ node' = node /\ next' = next
      /\ cpc'[c] = "signal" /\ \A d \in Callers \ {c} : cpc'[d] = cpc[d]
  BY <1>3 DEF nodeVars, workVars, Types
<1>7. \A d \in Callers, m \in Nodes : Adding(d, m)' <=> Adding(d, m) /\ d # c
  BY <1>6 DEF Adding
<1>8. QueueInv'
  BY <1>2, <1>4, <1>6 DEF Places, QueueInv
<1>9. WorkerInv'
  <2>1. \A w \in Workers : ~Queued(task[w])' <=> ~Queued(task[w])
    BY <1>2, <1>4, <1>6
  <2> QED BY <1>6, <2>1 DEF Places, WorkerInv
<1>10. CallerInv'
  <2>1. ASSUME NEW d \in Callers, cpc'[d] = "add"
        PROVE  /\ attached[node[d]] /\ ~Queued(node[d])'
               /\ "WAIT" \in state[node[d]]
               /\ \A w \in Workers : task[w] # node[d]
               /\ \A e \in Callers : Adding(e, node[d])' => e = d
               /\ next[d] = 1
    <3>1. cpc[d] = "add" /\ d # c /\ node[d] \in Nodes
      BY <1>6, <2>1 DEF Places, CallerInv
    <3>2. node[d] # n
      BY <1>2, <3>1 DEF Adding
    <3>3. ~Queued(node[d])'
      BY <1>4, <1>6, <3>1, <3>2 DEF Places, CallerInv
    <3>4. \A e \in Callers : Adding(e, node[d])' => e = d
      BY <1>6, <3>1 DEF Adding, Places, CallerInv
    <3> QED BY <3>1, <3>3, <3>4 DEF Places, CallerInv
  <2>2. \A d \in Callers : /\ cpc'[d] # "idle" => node[d] \in Nodes
                           /\ cpc'[d] = "sched" => next[d] = 1
    BY <1>1, <1>2, <1>6 DEF Places, CallerInv
  <2> QED BY <1>6, <2>1, <2>2 DEF CallerInv
<1>11. NodeInv'
  <2>1. \A m \in Nodes : \A d \in Callers : Adding(d, m) => Adding(d, m)' \/ m = n
    BY <1>1, <1>7 DEF Adding
  <2> QED BY <1>4, <1>6, <2>1 DEF Places, NodeInv
<1> QED BY <1>2, <1>5, <1>6, <1>8, <1>9, <1>10, <1>11 DEF Places

-----------------------------------------------------------------------------
(* The steps of callers and workers that add a node or move none *)

LEMMA AttachStep ==
    ASSUME Types, Places, NEW c \in Callers, NEW n \in Nodes, Attach(c, n)
    PROVE  Types' /\ Places'
<1>1. /\ ~attached[n] /\ cpc[c] = "idle"
      /\ attached' = [attached EXCEPT ![n] = TRUE]
      /\ state' = [state EXCEPT ![n] = Scheduled({"VALID", "IDLE"})]
      /\ cpc' = [cpc EXCEPT ![c] = "add"] /\ job' = [job EXCEPT ![c] = "attach"]
      /\ node' = [node EXCEPT ![c] = n] /\ next' = [next EXCEPT ![c] = 1]
      /\ UNCHANGED <<sem, queue, workVars>>
  BY DEF Attach, Call, Goto
<1>2. Scheduled({"VALID", "IDLE"}) = {"VALID", "WAIT"}
  BY DEF Scheduled, Queueable
<1>3. Types'
  <2>1. state' \in [Nodes -> SUBSET Bits]
    BY <1>1, <1>2 DEF Types, Bits
  <2>2. next' \in [Callers -> 1 .. WorkerCount + 1]
    BY <1>1, ClusterAssumption DEF Types, ClusterAssumption
  <2> QED BY <1>1, <2>1, <2>2 DEF Types, workVars
<1>4. StartsToAdd(c, n)
  BY <1>1, <1>2 DEF StartsToAdd, Types, workVars
<1> QED BY <1>3, <1>4, StartAdd

LEMMA TriggerStep ==
    ASSUME Types, Places, NEW c \in Callers, NEW n \in Nodes, Trigger(c, n)
    PROVE  Types' /\ Places'
<1>1. /\ attached[n] /\ cpc[c] = "idle"
      /\ state' = [state EXCEPT ![n] = Scheduled(@)]
      /\ UNCHANGED <<attached, sem, queue, workVars>>
  BY DEF Trigger, Call
<1>2. state[n] \in SUBSET Bits /\ Scheduled(state[n]) = state'[n] /\ state'[n] \in SUBSET Bits
  BY <1>1, ScheduledFacts DEF Types
<1>3. state' \in [Nodes -> SUBSET Bits]
  BY <1>1, <1>2 DEF Types
<1>4. CASE NextStep(state[n], "idle") = "idle"
  <2>1. UNCHANGED callVars /\ "IDLE" \notin state[n]
    BY <1>4 DEF Trigger, NextStep, Queueable
  <2>2. Types'
    BY <1>1, <1>3, <2>1 DEF Types, workVars, callVars
  <2>3. \A b \in {"IDLE", "WAIT", "RUN"} : b \in state'[n] <=> b \in state[n]
    BY <1>2, <2>1, ScheduledFacts
  <2>4. MovesNothing
    BY <1>1, <2>1, <2>3 DEF MovesNothing, Types, Places, WorkerInv, CallerInv, workVars, callVars
  <2> QED BY <2>2, <2>4, NobodyMoves
<1>5. CASE NextStep(state[n], "idle") # "idle"
  <2>1. /\ cpc' = [cpc EXCEPT ![c] = NextStep(state[n], "idle")]
        /\ job' = [job EXCEPT ![c] = "trigger"]
        /\ node' = [node EXCEPT ![c] = n] /\ next' = [next EXCEPT ![c] = 1]
    BY <1>5 DEF Trigger, Call, Goto
  <2>2. NextStep(state[n], "idle") \in {"add", "signal"}
    BY <1>5 DEF NextStep
  <2>3. Types'
    <3>1. next' \in [Callers -> 1 .. WorkerCount + 1]
      BY <2>1, ClusterAssumption DEF Types, ClusterAssumption
    <3>2. cpc' \in [Callers -> {"idle", "sched", "add", "signal", "wait"}]
      BY <2>1, <2>2 DEF Types
    <3> QED BY <1>1, <1>3, <2>1, <3>1, <3>2 DEF Types, workVars
  <2>4. CASE "IDLE" \in state[n]
    <3>1. NextStep(state[n], "idle") = "add" /\ "RUN" \notin state[n]
      BY <1>1, <2>4 DEF NextStep, Queueable, Places, NodeInv, OneState
    <3>2. /\ "WAIT" \in state'[n] /\ "IDLE" \notin state'[n] /\ "RUN" \notin state'[n]
      BY <1>2, <2>4, <3>1, ScheduledFacts
    <3>3. StartsToAdd(c, n)
      BY <1>1, <2>1, <2>4, <3>1, <3>2 DEF StartsToAdd, Types, workVars
    <3> QED BY <2>3, <3>3, StartAdd
  <2>5. CASE "IDLE" \notin state[n]
    <3>1. NextStep(state[n], "idle") = "signal"
      BY <2>2, <2>5 DEF NextStep, Queueable
    <3>2. \A b \in {"IDLE", "WAIT", "RUN"} : b \in state'[n] <=> b \in state[n]
      BY <1>2, <2>5, ScheduledFacts
    <3>3. \A m \in Nodes : \A b \in {"IDLE", "WAIT", "RUN"} : b \in state'[m] <=> b \in state[m]
      BY <1>1, <3>2 DEF Types
    <3>4. \A d \in Callers : d # c =>
              cpc'[d] = cpc[d] /\ node'[d] = node[d] /\ next'[d] = next[d]
      BY <2>1 DEF Types
    <3>5. cpc'[c] = "signal" /\ node'[c] = n
      BY <2>1, <3>1 DEF Types
    <3>6. MovesNothing
      BY <1>1, <3>3, <3>4, <3>5 DEF MovesNothing, Places, WorkerInv, CallerInv, workVars
    <3> QED BY <2>3, <3>6, NobodyMoves
  <2> QED BY <2>4, <2>5
<1> QED BY <1>4, <1>5

LEMMA DetachStep ==
    ASSUME Types, Places, NEW c \in Callers, NEW n \in Nodes, Detach(c, n)
    PROVE  Types' /\ Places'
<1>1. /\ cpc[c] = "idle"
      /\ state' = [state EXCEPT ![n] = @ \ {"VALID"}]
      /\ cpc' = [cpc EXCEPT ![c] = "sched"] /\ job' = [job EXCEPT ![c] = "detach"]
      /\ node' = [node EXCEPT ![c] = n] /\ next' = [next EXCEPT ![c] = 1]
      /\ UNCHANGED <<attached, sem, queue, workVars>>
  BY DEF Detach, Call, Goto
<1>2. Types'
  <2>1. next' \in [Callers -> 1 .. WorkerCount + 1]
    BY <1>1, ClusterAssumption DEF Types, ClusterAssumption
  <2> QED BY <1>1, <2>1 DEF Types, workVars
<1>3. \A m \in Nodes : \A b \in {"IDLE", "WAIT", "RUN"} : b \in state'[m] <=> b \in state[m]
  BY <1>1 DEF Types
<1>4. /\ \A d \in Callers : d # c =>
             cpc'[d] = cpc[d] /\ node'[d] = node[d] /\ next'[d] = next[d]
      /\ cpc'[c] = "sched" /\ node'[c] = n /\ next'[c] = 1
  BY <1>1 DEF Types
<1>5. MovesNothing
  BY <1>1, <1>3, <1>4 DEF MovesNothing, Places, WorkerInv, CallerInv, workVars
<1> QED BY <1>2, <1>5, NobodyMoves

LEMMA DetachScheduleStep ==
    ASSUME Types, Places, NEW c \in Callers, DetachSchedule(c)
    PROVE  Types' /\ Places'
<1>1. PICK n : n = node[c]
  OBVIOUS
<1>2. /\ cpc[c] = "sched" /\ n \in Nodes
      /\ state' = [state EXCEPT ![n] = Scheduled(@)]
      /\ cpc' = [cpc EXCEPT ![c] = NextStep(state[n], "wait")]
      /\ UNCHANGED <<attached, sem, queue, workVars, job, node, next>>
  BY <1>1 DEF DetachSchedule, Goto, Places, CallerInv
<1>3. state[n] \in SUBSET Bits /\ Scheduled(state[n]) = state'[n] /\ state'[n] \in SUBSET Bits
  <2>1. state \in [Nodes -> SUBSET Bits] /\ n \in Nodes /\ state[n] \in SUBSET Bits
    BY <1>2 DEF Types
  <2>2. state'[n] = Scheduled(state[n])
    BY <1>2, <2>1
  <2> QED BY <2>1, <2>2, ScheduledFacts
<1>4. NextStep(state[n], "wait") \in {"add", "signal", "wait"}
  BY DEF NextStep
<1>5. Types'
  <2>1. state' \in [Nodes -> SUBSET Bits]
    BY <1>2, <1>3 DEF Types
  <2>2. cpc' \in [Callers -> {"idle", "sched", "add", "signal", "wait"}]
    BY <1>2, <1>4 DEF Types
  <2> QED BY <1>2, <2>1, <2>2 DEF Types, workVars
<1>6. CASE "IDLE" \in state[n] /\ next[c] = 1
  <2>1. NextStep(state[n], "wait") = "add" /\ "RUN" \notin state[n] /\ attached[n]
    BY <1>2, <1>6 DEF NextStep, Queueable, Places, NodeInv, OneState
  <2>2. /\ "WAIT" \in state'[n] /\ "IDLE" \notin state'[n] /\ "RUN" \notin state'[n]
    BY <1>3, <1>6, <2>1, ScheduledFacts
  <2>3. StartsToAdd(c, n)
    BY <1>1, <1>2, <1>6, <2>1, <2>2 DEF StartsToAdd, Types, workVars
  <2> QED BY <1>2, <1>5, <2>3, StartAdd
<1>7. CASE "IDLE" \notin state[n]
  <2>1. NextStep(state[n], "wait") \in {"signal", "wait"}
    BY <1>4, <1>7 DEF NextStep, Queueable
  <2>2. \A b \in {"IDLE", "WAIT", "RUN"} : b \in state'[n] <=> b \in state[n]
    BY <1>3, <1>7, ScheduledFacts
  <2>3. \A m \in Nodes : \A b \in {"IDLE", "WAIT", "RUN"} : b \in state'[m] <=> b \in state[m]
    BY <1>2, <2>2 DEF Types
  <2>4. (\A d \in Callers : d # c => cpc'[d] = cpc[d]) /\ cpc'[c] \in {"signal", "wait"}
    BY <1>2, <2>1 DEF Types
  <2>5. MovesNothing
    BY <1>1, <1>2, <2>3, <2>4 DEF MovesNothing, Places, WorkerInv, CallerInv, workVars
  <2> QED BY <1>5, <2>5, NobodyMoves
<1> QED BY <1>2, <1>6, <1>7 DEF Places, CallerInv

\* A call that returns, or goes on to wait for its node to be let go.
LEMMA AfterScheduleFacts ==
    ASSUME Types, Places, NEW c \in Callers, cpc[c] # "idle", AfterSchedule(c) \/ Return(c)
    PROVE  /\ cpc' \in [Callers -> {"idle", "sched", "add", "signal", "wait"}]
           /\ job' \in [Callers -> {"none", "attach", "trigger", "detach"}]
           /\ node' \in [Callers -> Nodes \cup {NoNode}]
           /\ next' \in [Callers -> 1 .. WorkerCount + 1]
           /\ cpc'[c] \in {"idle", "wait"} /\ (cpc'[c] # "idle" => node'[c] \in Nodes)
           /\ \A d \in Callers : d # c =>
                  cpc'[d] = cpc[d] /\ node'[d] = node[d] /\ next'[d] = next[d]
<1>1. CASE Return(c)
  <2>1. next' \in [Callers -> 1 .. WorkerCount + 1]
    BY <1>1, ClusterAssumption DEF Return, Types, ClusterAssumption
  <2> QED BY <1>1, <2>1 DEF Return, Goto, Types
<1>2. CASE job[c] = "detach" /\ AfterSchedule(c)
  BY <1>2 DEF AfterSchedule, Goto, Types, Places, CallerInv
<1>3. job[c] # "detach" /\ AfterSchedule(c) => Return(c)
  BY DEF AfterSchedule
<1> QED BY <1>1, <1>2, <1>3

LEMMA SignalStep ==
    ASSUME Types, Places, NEW c \in Callers, SignalWorker(c) \/ SignalNobody(c)
    PROVE  Types' /\ Places'
<1>1. /\ cpc[c] = "signal" /\ UNCHANGED <<nodeVars, queue, wpc, task, seen, wstate>>
  BY DEF SignalWorker, SignalNobody, workVars
<1>2. signalled' \in [Workers -> BOOLEAN]
  BY DEF SignalWorker, SignalNobody, workVars, Types
<1>3. CASE AfterSchedule(c)
  <2>1. /\ cpc'[c] \in {"idle", "wait"} /\ (cpc'[c] # "idle" => node'[c] \in Nodes)
        /\ \A d \in Callers : d # c =>
               cpc'[d] = cpc[d] /\ node'[d] = node[d] /\ next'[d] = next[d]
    BY <1>1, <1>3, AfterScheduleFacts
  <2>2. Types'
    <3>1. /\ cpc' \in [Callers -> {"idle", "sched", "add", "signal", "wait"}]
          /\ job' \in [Callers -> {"none", "attach", "trigger", "detach"}]
          /\ node' \in [Callers -> Nodes \cup {NoNode}]
          /\ next' \in [Callers -> 1 .. WorkerCount + 1]
      BY <1>1, <1>3, AfterScheduleFacts
    <3> QED BY <1>1, <1>2, <3>1 DEF Types, nodeVars
  <2>3. MovesNothing
    BY <1>1, <2>1 DEF MovesNothing, Places, WorkerInv, CallerInv, nodeVars
  <2> QED BY <2>2, <2>3, NobodyMoves
<1>4. CASE next[c] \in Workers /\ next' = [next EXCEPT ![c] = @ + 1] /\ UNCHANGED <<cpc, job, node>>
  <2>1. next' \in [Callers -> 1 .. WorkerCount + 1]
    BY <1>4, ClusterAssumption DEF Types, Workers, ClusterAssumption
  <2>2. Types'
    BY <1>1, <1>2, <1>4, <2>1 DEF Types, nodeVars
  <2>3. MovesNothing
    BY <1>1, <1>4 DEF MovesNothing, Places, WorkerInv, CallerInv, nodeVars, Types
  <2> QED BY <2>2, <2>3, NobodyMoves
<1> QED BY <1>3, <1>4 DEF SignalWorker, SignalNobody

LEMMA DetachDoneStep ==
    ASSUME Types, Places, NEW c \in Callers, DetachDone(c)
    PROVE  Types' /\ Places'
<1>1. /\ cpc[c] = "wait" /\ node[c] \in Nodes /\ sem[node[c]] > 0
      /\ sem' = [sem EXCEPT ![node[c]] = @ - 1]
      /\ UNCHANGED <<state, attached, queue, workVars>>
  BY DEF DetachDone, Places, CallerInv
<1>2. /\ cpc'[c] \in {"idle", "wait"} /\ (cpc'[c] # "idle" => node'[c] \in Nodes)
      /\ \A d \in Callers : d # c =>
             cpc'[d] = cpc[d] /\ node'[d] = node[d] /\ next'[d] = next[d]
  BY <1>1, AfterScheduleFacts DEF DetachDone
<1>3. Types'
  <2>1. /\ cpc' \in [Callers -> {"idle", "sched", "add", "signal", "wait"}]
        /\ job' \in [Callers -> {"none", "attach", "trigger", "detach"}]
        /\ node' \in [Callers -> Nodes \cup {NoNode}]
        /\ next' \in [Callers -> 1 .. WorkerCount + 1]
    BY <1>1, AfterScheduleFacts DEF DetachDone
  <2>2. sem' \in [Nodes -> Nat]
    BY <1>1 DEF Types
  <2> QED BY <1>1, <2>1, <2>2 DEF Types, workVars
<1>4. MovesNothing
  BY <1>1, <1>2 DEF MovesNothing, Places, WorkerInv, CallerInv, workVars
<1> QED BY <1>3, <1>4, NobodyMoves

LEMMA WorkerStays ==
    ASSUME Types, Places, NEW w \in Workers, Sleep(w) \/ WakeUp(w) \/ RunTask(w)
    PROVE  Types' /\ Places'
<1>1. /\ UNCHANGED <<nodeVars, queue, task, callVars>>
      /\ wpc[w] # "readd" /\ \E l \in {"get", "asleep", "post", "requeue", "rest"} :
            /\ wpc' = [wpc EXCEPT ![w] = l]
            /\ l \in Busy <=> wpc[w] \in Busy
            /\ wstate' \in [Workers -> {"IDLE", "RUNNING"}]
            /\ l = "asleep" => wstate'[w] = "IDLE"
            /\ \A v \in Workers : v # w => wstate'[v] = wstate[v]
  <2>1. CASE Sleep(w)
    BY <2>1 DEF Sleep, At, Busy, Types
  <2>2. CASE WakeUp(w)
    BY <2>2 DEF WakeUp, At, Busy, Types
  <2>3. CASE RunTask(w)
    <3>1. PICK l \in {"post", "requeue", "rest"} : wpc' = [wpc EXCEPT ![w] = l]
      BY <2>3 DEF RunTask, At
    <3> QED BY <2>3, <3>1 DEF RunTask, Busy, Types
  <2> QED BY <2>1, <2>2, <2>3
<1>2. seen' \in [Workers -> SUBSET Bits] /\ signalled' \in [Workers -> BOOLEAN]
  <2>1. CASE Sleep(w) \/ WakeUp(w)
    BY <2>1 DEF Sleep, WakeUp, Types
  <2>2. CASE RunTask(w)
    <3>1. task[w] \in Nodes
      BY <2>2, HasNode DEF RunTask, Busy
    <3> QED BY <2>2, <3>1 DEF RunTask, Types
  <2> QED BY <2>1, <2>2
<1>3. Types'
  <2>1. wpc' \in [Workers -> {"get", "asleep"} \cup Busy]
    BY <1>1 DEF Types, Busy
  <2> QED BY <1>1, <1>2, <2>1 DEF Types, nodeVars, callVars
<1>4. MovesNothing
  <2>1. \A v \in Workers : /\ wpc'[v] \in Busy <=> wpc[v] \in Busy
                           /\ wpc'[v] = "readd" <=> wpc[v] = "readd"
                           /\ wpc'[v] = "asleep" => wstate'[v] = "IDLE"
    BY <1>1 DEF Types, Places, WorkerInv
  <2> QED BY <1>1, <2>1 DEF MovesNothing, Places, CallerInv, nodeVars, callVars
<1> QED BY <1>3, <1>4, NobodyMoves

-----------------------------------------------------------------------------
(* Steps and the sleeping workers *)

\* A step that leaves the queue, the workers' positions and the signals alone,
\* and every caller that is about to signal.
LEMMA SignalsStay ==
    ASSUME NoSleepOverWork, queue' = queue, wpc' = wpc, signalled' = signalled,
           \A c \in Callers : cpc[c] = "signal" /\ next[c] \in 1 .. WorkerCount =>
               cpc'[c] = "signal" /\ next'[c] = next[c],
           \A c \in Callers : next[c] \in Nat \ {0}
    PROVE  NoSleepOverWork'
<1> SUFFICES ASSUME queue # << >>, \A w \in Workers : wpc[w] = "asleep" /\ ~signalled[w]
             PROVE  \E c \in Callers : cpc'[c] = "signal" /\ \E w \in Workers : w >= next'[c]
  BY DEF NoSleepOverWork
<1>1. PICK c \in Callers : cpc[c] = "signal" /\ \E w \in Workers : w >= next[c]
  BY DEF NoSleepOverWork
<1>2. next[c] \in 1 .. WorkerCount
  BY <1>1, ClusterAssumption DEF Workers, ClusterAssumption
<1> QED BY <1>1, <1>2

LEMMA CallKeepsNoSleep ==
    ASSUME Types, NoSleepOverWork, NEW c \in Callers,
           DetachSchedule(c) \/ DetachDone(c) \/
           \E n \in Nodes : Attach(c, n) \/ Trigger(c, n) \/ Detach(c, n)
    PROVE  NoSleepOverWork'
<1>1. queue' = queue /\ wpc' = wpc /\ signalled' = signalled
  BY DEF DetachSchedule, DetachDone, Attach, Trigger, Detach, workVars
<1>2. \/ cpc[c] # "signal" /\ \A d \in Callers : d # c => cpc'[d] = cpc[d] /\ next'[d] = next[d]
      \/ cpc' = cpc /\ next' = next
  <2>1. CASE DetachSchedule(c) \/ DetachDone(c)
    BY <2>1 DEF DetachSchedule, DetachDone, Return, Goto, Types
  <2>2. CASE \E n \in Nodes : Attach(c, n) \/ Trigger(c, n) \/ Detach(c, n)
    BY <2>2 DEF Attach, Trigger, Detach, Call, Goto, Types, callVars
  <2> QED BY <2>1, <2>2
<1>3. \A d \in Callers : next[d] \in Nat \ {0}
  BY ClusterAssumption DEF Types, ClusterAssumption
<1> QED BY <1>1, <1>2, <1>3, SignalsStay

LEMMA SignalKeepsNoSleep ==
    ASSUME Types, Places, NoSleepOverWork, NEW c \in Callers, SignalWorker(c) \/ SignalNobody(c)
    PROVE  NoSleepOverWork'
<1>1. cpc[c] = "signal" /\ queue' = queue /\ wpc' = wpc
  BY DEF SignalWorker, SignalNobody, workVars
<1>2. CASE SignalWorker(c)
  <2>1. next[c] \in Workers
    BY <1>2 DEF SignalWorker
  <2>2. CASE SaysIdle(next[c])
    <3>1. wpc[next[c]] = "asleep" => signalled'[next[c]]
      BY <1>2, <2>1, <2>2 DEF SignalWorker, Types
    <3> QED BY <1>1, <2>1, <3>1 DEF NoSleepOverWork
  <2>3. CASE ~SaysIdle(next[c])
    <3>1. wpc[next[c]] # "asleep"
      BY <2>1, <2>3 DEF SaysIdle, Places, WorkerInv
    <3> QED BY <1>1, <2>1, <3>1 DEF NoSleepOverWork
  <2> QED BY <2>2, <2>3
<1>3. CASE SignalNobody(c)
  <2>1. next[c] \notin 1 .. WorkerCount /\ signalled' = signalled
    BY <1>3 DEF SignalNobody, Workers, workVars
  <2>2. \A d \in Callers : d # c => cpc'[d] = cpc[d] /\ next'[d] = next[d]
    BY <1>1, <1>3, AfterScheduleFacts DEF SignalNobody
  <2>3. \A d \in Callers : next[d] \in Nat \ {0}
    BY ClusterAssumption DEF Types, ClusterAssumption
  <2> QED BY <1>1, <2>1, <2>2, <2>3, SignalsStay
<1> QED BY <1>2, <1>3

\* A caller that has added a node is about to look at every worker.
LEMMA AddKeepsNoSleep ==
    ASSUME Types, Places, NEW c \in Callers, Add(c)
    PROVE  NoSleepOverWork'
<1>1. cpc'[c] = "signal" /\ next'[c] = 1
  BY AddStep
<1>2. 1 \in Workers /\ 1 >= 1
  BY WorkersFact
<1> QED BY <1>1, <1>2 DEF NoSleepOverWork

\* After a worker's step that worker is awake, or has just found the queue empty.
LEMMA WorkerKeepsNoSleep ==
    ASSUME Types, NEW w \in Workers, WorkerStep(w) \/ SpuriousWake(w)
    PROVE  NoSleepOverWork'
<1>1. CASE Sleep(w)
  BY <1>1 DEF Sleep, NoSleepOverWork
<1>2. CASE ~Sleep(w)
  <2>1. wpc'[w] # "asleep"
    <3>1. CASE WakeUp(w)
      BY <3>1 DEF WakeUp, At, Types
    <3>2. CASE RunTask(w)
      BY <3>2 DEF RunTask, At, Types
    <3>3. CASE PostDetach(w) \/ ReAdd(w) \/ Rest(w)
      BY <3>3 DEF PostDetach, ReAdd, Rest, Drop, At, Types
    <3>4. CASE GetTask(w) \/ Requeue(w)
      BY <3>4 DEF GetTask, Requeue, At, Types
    <3> QED BY <1>2, <3>1, <3>2, <3>3, <3>4 DEF WorkerStep, Wake, SpuriousWake
  <2> QED BY <2>1 DEF NoSleepOverWork
<1> QED BY <1>1, <1>2

-----------------------------------------------------------------------------
(* The theorems *)

LEMMA InitInv == Init => ClusterInv
<1> SUFFICES ASSUME Init PROVE ClusterInv
  OBVIOUS
<1>1. Types
  <2>1. 1 \in 1 .. WorkerCount + 1
    BY ClusterAssumption DEF ClusterAssumption
  <2> QED BY <2>1 DEF Init, Types
<1>2. queue = << >> /\ \A n : ~Queued(n)
  BY DEF Init, Queued
<1>3. /\ \A n \in Nodes : state[n] = {} /\ ~attached[n]
      /\ \A w \in Workers : task[w] = NoNode /\ wpc[w] = "get"
      /\ \A c \in Callers : cpc[c] = "idle"
  BY DEF Init
<1>4. QueueInv /\ WorkerInv /\ CallerInv /\ NodeInv
  BY <1>2, <1>3 DEF QueueInv, WorkerInv, CallerInv, NodeInv, Busy
<1> QED BY <1>1, <1>2, <1>4 DEF ClusterInv, NoSleepOverWork

LEMMA NextInv == ClusterInv /\ [Next]_vars => ClusterInv'
<1> SUFFICES ASSUME ClusterInv, [Next]_vars PROVE ClusterInv'
  OBVIOUS
<1>1. Types /\ Places /\ NoSleepOverWork
  BY DEF ClusterInv, Places
<1>2. ASSUME Types' /\ Places' /\ NoSleepOverWork' PROVE ClusterInv'
  BY <1>2 DEF ClusterInv, Places
<1>3. ASSUME NEW w \in Workers, WorkerStep(w) \/ SpuriousWake(w)
      PROVE  ClusterInv'
  <2>1. Types' /\ Places'
    <3>1. CASE GetTask(w)
      BY <1>1, <3>1, GetTaskStep
    <3>2. CASE Sleep(w) \/ WakeUp(w) \/ RunTask(w)
      BY <1>1, <3>2, WorkerStays
    <3>3. CASE PostDetach(w)
      BY <1>1, <3>3, PostDetachStep
    <3>4. CASE Requeue(w)
      BY <1>1, <3>4, RequeueStep
    <3>5. CASE ReAdd(w)
      BY <1>1, <3>5, ReAddStep
    <3>6. CASE Rest(w)
      BY <1>1, <3>6, RestStep
    <3> QED BY <1>3, <3>1, <3>2, <3>3, <3>4, <3>5, <3>6 DEF WorkerStep, Wake, SpuriousWake
  <2>2. NoSleepOverWork'
    BY <1>1, <1>3, WorkerKeepsNoSleep
  <2> QED BY <1>2, <2>1, <2>2
<1>4. ASSUME NEW c \in Callers, CallStep(c)
      PROVE  ClusterInv'
  <2>1. CASE Add(c)
    BY <1>1, <1>2, <2>1, AddStep, AddKeepsNoSleep
  <2>2. CASE SignalWorker(c) \/ SignalNobody(c)
    BY <1>1, <1>2, <2>2, SignalStep, SignalKeepsNoSleep
  <2>3. CASE DetachSchedule(c)
    BY <1>1, <1>2, <2>3, DetachScheduleStep, CallKeepsNoSleep
  <2>4. CASE DetachDone(c)
    BY <1>1, <1>2, <2>4, DetachDoneStep, CallKeepsNoSleep
  <2> QED BY <1>4, <2>1, <2>2, <2>3, <2>4 DEF CallStep
<1>5. ASSUME NEW c \in Callers, NEW n \in Nodes, Attach(c, n) \/ Trigger(c, n) \/ Detach(c, n)
      PROVE  ClusterInv'
  <2>1. Types' /\ Places'
    BY <1>1, <1>5, AttachStep, TriggerStep, DetachStep
  <2>2. NoSleepOverWork'
    BY <1>1, <1>5, CallKeepsNoSleep
  <2> QED BY <1>2, <2>1, <2>2
<1>6. CASE UNCHANGED vars
  <2>1. /\ UNCHANGED <<state, attached, sem, queue, wpc, task, seen, wstate, signalled>>
        /\ UNCHANGED <<cpc, job, node, next>>
    BY <1>6 DEF vars, nodeVars, workVars, callVars
  <2>2. Types'
    BY <1>1, <2>1 DEF Types
  <2>3. Places'
    <3>1. MovesNothing
      BY <1>1, <2>1 DEF MovesNothing, Places, WorkerInv, CallerInv
    <3> QED BY <1>1, <3>1, NobodyMoves
  <2>4. NoSleepOverWork'
    BY <1>1, <2>1 DEF NoSleepOverWork
  <2> QED BY <1>2, <2>2, <2>3, <2>4
<1> QED BY <1>3, <1>4, <1>5, <1>6 DEF Next

LEMMA AlwaysInv == Spec => []ClusterInv
<1> QED BY InitInv, NextInv, PTL DEF Spec

\* The invariant tells where each node is.
LEMMA InvGivesOnePlace == ClusterInv => OnePlace
<1> SUFFICES ASSUME ClusterInv PROVE OnePlace
  OBVIOUS
<1>1. Types /\ Places
  BY DEF ClusterInv, Places
<1>2. \A i, j \in DOMAIN queue : queue[i] = queue[j] => i = j
  BY <1>1 DEF Places, QueueInv
<1>3. ASSUME NEW n \in Nodes
      PROVE  LET holders == {w \in Workers : task[w] = n}
                 adders == {c \in Callers : Adding(c, n)}
             IN  /\ \A w, v \in holders : w = v
                 /\ \A c, d \in adders : c = d
                 /\ Queued(n) => holders = {} /\ adders = {}
                 /\ holders # {} => adders = {}
                 /\ (Queued(n) \/ holders # {} \/ adders # {})
                        <=> (attached[n] /\ "IDLE" \notin state[n])
  <2>1. n # NoNode
    BY ClusterAssumption DEF ClusterAssumption
  <2>2. \A w \in Workers : task[w] = n =>
            /\ attached[n] /\ ~Queued(n) /\ "IDLE" \notin state[n]
            /\ \A v \in Workers : task[v] = n => v = w
    BY <1>1, <2>1 DEF Places, WorkerInv, NodeInv, OneState
  <2>3. \A c \in Callers : Adding(c, n) =>
            /\ attached[n] /\ ~Queued(n) /\ "IDLE" \notin state[n]
            /\ \A w \in Workers : task[w] # n
            /\ \A d \in Callers : Adding(d, n) => d = c
    BY <1>1 DEF Places, CallerInv, NodeInv, OneState, Adding
  <2>4. Queued(n) => attached[n] /\ "IDLE" \notin state[n]
    BY <1>1 DEF Places, QueueInv, NodeInv, OneState
  <2>5. attached[n] /\ "IDLE" \notin state[n] =>
            \/ Queued(n)
            \/ \E w \in Workers : task[w] = n
            \/ \E c \in Callers : Adding(c, n)
    BY <1>1 DEF Places, NodeInv
  <2> QED BY <2>2, <2>3, <2>4, <2>5
<1> QED BY <1>2, <1>3 DEF OnePlace

\* The types of mpp_cluster.cpp's state: a node that is attached is idle, waits
\* or runs, and is exactly one of these, however its word is swapped.
THEOREM TypeCorrect == Spec => []TypeOK
<1>1. ClusterInv => TypeOK
  BY TypesGiveTypeOK DEF ClusterInv
<1> QED BY <1>1, AlwaysInv, PTL

\* For any nodes, worker threads and callers, an attached node that is not idle
\* is in the queue once, in one worker's hands or in one caller's, and a node
\* that is idle or detached is in none: what list_sched's asserts rely on, and
\* what makes freeing a node after mpp_node_detach safe.
THEOREM NodeInOnePlace == Spec => []OnePlace
<1> QED BY AlwaysInv, InvGivesOnePlace, PTL

\* Both together: what the swaps of mpp_cluster.cpp keep of every node.
THEOREM NodesAlwaysPlaced == Spec => []NodesPlaced
<1> QED BY TypeCorrect, NodeInOnePlace, PTL DEF NodesPlaced

\* For any nodes, worker threads and callers, no wake-up is lost: the worker
\* threads of cluster_worker do not all sleep while a node waits in the queue,
\* unless a caller is still to signal one of them.
THEOREM NoWorkerSleepsOverWork == Spec => []NoSleepOverWork
<1>1. ClusterInv => NoSleepOverWork
  BY DEF ClusterInv
<1> QED BY <1>1, AlwaysInv, PTL
=============================================================================
