------------------------ MODULE MppBatchServerProofs ------------------------
(***************************************************************************)
(* Theorems about MppBatchServer, for any number of sessions and tasks,    *)
(* any size of the batches and any faults: no task is lost or doubled      *)
(* between its session, the pending list and the batches, a pending task   *)
(* finds a batch while no session has left one behind, and a wait that     *)
(* returns returns a finished task unless it woke up for nothing.          *)
(***************************************************************************)
EXTENDS MppBatchServer, TLAPS, FiniteSetTheorems, SequenceTheorems

Types ==
    /\ pc \in [Sessions -> {"off", "idle", "sending", "sent", "asleep", "woken"}]
    /\ owed \in [Tasks -> Nat] /\ pending \in Seq(Tasks)
    /\ current \in [Sessions -> Tasks] /\ stray \subseteq Sessions
    /\ timer \in {"never", "on", "stopped"} /\ switches \in 0 .. MaxSwitches
    /\ running \in Seq(Batch) /\ free \in Seq(Batch)
    /\ tpc \in {"rest", "poll", "answer", "count", "fill"} /\ left \in Nat
    /\ look \in Seq([task : Tasks, ok : BOOLEAN])
    /\ hw \in [Tasks -> {"none", "busy", "done", "failed"}] /\ faulty \in BOOLEAN

\* Only the first running batch is answered, and it goes when all of it is; only
\* the first free batch is filled, and it goes when it is full.
Shape ==
    /\ \A i \in DOMAIN running :
         /\ running[i].fill > 0
         /\ Len(running[i].tasks) = running[i].fill - running[i].poll
         /\ i > 1 => running[i].poll = 0
    /\ tpc # "answer" /\ running # << >> => running[1].poll < running[1].fill
    /\ \A i \in DOMAIN free : free[i] # Empty => i = 1 /\ tpc = "fill"
    /\ free # << >> => /\ Len(free[1].tasks) = free[1].fill
                       /\ free[1].poll = 0 /\ free[1].fill < MaxTaskInBatch

\* The counts that attach and detach count up bound the sessions there are, and
\* the batches.
Attached == {s \in Sessions : pc[s] # "off"}

Counted ==
    /\ Cardinality(Attached) <= switches
    /\ Len(running) + Len(free) <= switches

\* The thread looks at tasks of the first running batch, each once, and takes a
\* task for answered when the hardware is done with it.
Looked ==
    /\ tpc # "answer" => look = << >>
    /\ tpc = "answer" => running # << >>
    /\ \A k \in DOMAIN look :
         /\ Listed(running[1].tasks, look[k].task)
         /\ look[k].ok => hw[look[k].task] = "done"
    /\ \A j, k \in DOMAIN look : look[j].task = look[k].task => j = k
    /\ IF tpc = "fill" THEN left <= Len(pending) ELSE left = 0

\* The places of a task.
Pends(t) == Listed(pending, t)
Runs(t) == \E i \in DOMAIN running : Listed(running[i].tasks, t)
Fills(t) == free # << >> /\ Listed(free[1].tasks, t)
Placed(t) == Sending(t) \/ Pends(t) \/ Runs(t) \/ Fills(t)

\* No task is twice in a list or in two of them.
Apart ==
    /\ Distinct(pending)
    /\ \A i \in DOMAIN running : Distinct(running[i].tasks)
    /\ free # << >> => Distinct(free[1].tasks)
    /\ \A i, j \in DOMAIN running : \A t \in Tasks :
         Listed(running[i].tasks, t) /\ Listed(running[j].tasks, t) => i = j
    /\ \A t \in Tasks :
         /\ Sending(t) => ~Pends(t) /\ ~Runs(t) /\ ~Fills(t)
         /\ Pends(t) => ~Runs(t) /\ ~Fills(t)
         /\ Runs(t) => ~Fills(t)

\* An answer is owed for the tasks that are somewhere, and their sessions are still
\* attached.  A session that no wake-up has misled has no other task anywhere than
\* the one it sends or waits for.
Owing ==
    /\ \A s \in Sessions : Owner[current[s]] = s
    /\ \A t \in Tasks :
         /\ owed[t] = IF Placed(t) THEN 1 ELSE 0
         /\ Placed(t) => pc[Owner[t]] # "off"
         /\ Placed(t) /\ Owner[t] \notin stray =>
              current[Owner[t]] = t /\ pc[Owner[t]] \in {"sending", "sent", "asleep"}

\* The hardware has the tasks of the running batches, and is done with a task
\* that is in no place while its session still waits for it.
Handed ==
    \A t \in Tasks :
      /\ Runs(t) => hw[t] # "none"
      /\ Sending(t) \/ Pends(t) \/ Fills(t) => hw[t] = "none"
      /\ ~Placed(t) => hw[t] \in {"none", "done"}
      /\ Waited(t) /\ ~Placed(t) => hw[t] = "done"

ServerInv ==
    Types /\ Shape /\ Counted /\ Looked /\ Apart /\ Owing /\ Handed

-----------------------------------------------------------------------------
(* Lists of tasks *)

\* Linking a task at the end of a list without it.
LEMMA AppendListed ==
  ASSUME NEW S, NEW q \in Seq(S), NEW t \in S
  PROVE  /\ Append(q, t) \in Seq(S) /\ Len(Append(q, t)) = Len(q) + 1
         /\ \A x : Listed(Append(q, t), x) <=> Listed(q, x) \/ x = t
         /\ Distinct(q) /\ ~Listed(q, t) => Distinct(Append(q, t))
<1>1. /\ Append(q, t) \in Seq(S) /\ Len(Append(q, t)) = Len(q) + 1
      /\ DOMAIN q = 1 .. Len(q) /\ DOMAIN Append(q, t) = 1 .. Len(q) + 1
      /\ \A i \in 1 .. Len(q) : Append(q, t)[i] = q[i]
      /\ Append(q, t)[Len(q) + 1] = t
  OBVIOUS
<1>2. ASSUME NEW x PROVE Listed(Append(q, t), x) <=> Listed(q, x) \/ x = t
  BY <1>1 DEF Listed
<1>3. Distinct(q) /\ ~Listed(q, t) => Distinct(Append(q, t))
  BY <1>1 DEF Listed, Distinct
<1> QED BY <1>1, <1>2, <1>3

\* Taking the first task off a list in which each is once.
LEMMA TailListed ==
  ASSUME NEW S, NEW q \in Seq(S), q # << >>
  PROVE  /\ Head(q) \in S /\ Tail(q) \in Seq(S) /\ Len(Tail(q)) = Len(q) - 1
         /\ Listed(q, Head(q))
         /\ \A x : Listed(Tail(q), x) => Listed(q, x)
         /\ \A x : Listed(q, x) => x = Head(q) \/ Listed(Tail(q), x)
         /\ Distinct(q) => Distinct(Tail(q)) /\ ~Listed(Tail(q), Head(q))
<1>1. /\ Head(q) \in S /\ Tail(q) \in Seq(S) /\ Len(Tail(q)) = Len(q) - 1
      /\ Len(q) \in Nat /\ Len(q) > 0 /\ Head(q) = q[1]
      /\ DOMAIN q = 1 .. Len(q) /\ DOMAIN Tail(q) = 1 .. Len(q) - 1
      /\ \A i \in 1 .. Len(q) - 1 : Tail(q)[i] = q[i + 1]
  OBVIOUS
<1>2. Listed(q, Head(q))
  BY <1>1 DEF Listed
<1>3. ASSUME NEW x, Listed(Tail(q), x) PROVE Listed(q, x)
  <2>1. PICK i \in 1 .. Len(q) - 1 : Tail(q)[i] = x
    BY <1>1, <1>3 DEF Listed
  <2> QED BY <1>1, <2>1 DEF Listed
<1>4. ASSUME NEW x, Listed(q, x), x # Head(q) PROVE Listed(Tail(q), x)
  <2>1. PICK i \in 1 .. Len(q) : q[i] = x
    BY <1>1, <1>4 DEF Listed
  <2>2. i - 1 \in 1 .. Len(q) - 1 /\ Tail(q)[i - 1] = x
    BY <1>1, <1>4, <2>1
  <2> QED BY <1>1, <2>2 DEF Listed
<1>5. ASSUME Distinct(q) PROVE Distinct(Tail(q)) /\ ~Listed(Tail(q), Head(q))
  <2>1. Distinct(Tail(q))
    BY <1>1, <1>5 DEF Distinct
  <2>2. ASSUME NEW i \in 1 .. Len(q) - 1, Tail(q)[i] = Head(q) PROVE FALSE
    BY <1>1, <1>5, <2>2 DEF Distinct
  <2> QED BY <1>1, <2>1, <2>2 DEF Listed
<1> QED BY <1>1, <1>2, <1>3, <1>4, <1>5

\* Unlinking a task from the middle of such a list.
LEMMA UnlinkedListed ==
  ASSUME NEW S, NEW q \in Seq(S), Distinct(q), NEW t \in S, Listed(q, t)
  PROVE  /\ Unlinked(q, t) \in Seq(S) /\ Len(Unlinked(q, t)) = Len(q) - 1
         /\ \A x : Listed(Unlinked(q, t), x) <=> Listed(q, x) /\ x # t
         /\ Distinct(Unlinked(q, t))
<1> DEFINE n == CHOOSE i \in DOMAIN q : q[i] = t
           u == Unlinked(q, t)
<1>1. n \in 1 .. Len(q) /\ q[n] = t /\ Len(q) \in Nat /\ DOMAIN q = 1 .. Len(q)
  BY DEF Listed
<1>2. u = SubSeq(q, 1, n - 1) \o SubSeq(q, n + 1, Len(q))
  BY DEF Unlinked, RemoveAt
<1> HIDE DEF n, u
<1> DEFINE v == SubSeq(q, 1, n - 1)
           w == SubSeq(q, n + 1, Len(q))
<1>3. /\ v \in Seq(S) /\ Len(v) = n - 1 /\ \A i \in 1 .. n - 1 : v[i] = q[i]
  <2>1. \A i \in 1 .. n - 1 : q[i] \in S
    BY <1>1
  <2> QED BY <1>1, <2>1, SubSeqProperties
<1>4. /\ w \in Seq(S) /\ Len(w) = Len(q) - n
      /\ \A i \in 1 .. Len(q) - n : w[i] = q[n + i]
  <2>1. \A i \in n + 1 .. Len(q) : q[i] \in S
    BY <1>1
  <2>2. /\ w \in Seq(S)
        /\ Len(w) = IF n + 1 <= Len(q) THEN Len(q) - (n + 1) + 1 ELSE 0
        /\ \A i \in 1 .. Len(q) - (n + 1) + 1 : w[i] = q[n + 1 + i - 1]
    BY <1>1, <2>1, SubSeqProperties
  <2> HIDE DEF w
  <2>3. Len(w) = Len(q) - n
    <3> DEFINE k == Len(w)
               l == Len(q)
    <3>1. l \in Nat /\ n \in 1 .. l /\ k = IF n + 1 <= l THEN l - (n + 1) + 1 ELSE 0
      BY <1>1, <2>2
    <3> HIDE DEF k, l
    <3>2. k = l - n
      BY <3>1
    <3> QED BY <3>2 DEF k, l
  <2>4. ASSUME NEW i \in 1 .. Len(q) - n PROVE w[i] = q[n + i]
    <3>1. i \in 1 .. Len(q) - (n + 1) + 1 /\ n + 1 + i - 1 = n + i
      BY <1>1
    <3> QED BY <2>2, <3>1
  <2> QED BY <2>2, <2>3, <2>4
<1>5. u = v \o w
  BY <1>2
<1> HIDE DEF v, w
<1>6. /\ u \in Seq(S) /\ Len(u) = Len(q) - 1 /\ DOMAIN u = 1 .. Len(q) - 1
      /\ \A i \in 1 .. Len(q) - 1 : u[i] = IF i < n THEN q[i] ELSE q[i + 1]
  <2>1. /\ u \in Seq(S) /\ Len(u) = Len(v) + Len(w)
        /\ \A i \in 1 .. Len(v) + Len(w) :
             u[i] = IF i <= Len(v) THEN v[i] ELSE w[i - Len(v)]
    BY <1>3, <1>4, <1>5, ConcatProperties
  <2>2. ASSUME NEW i \in 1 .. Len(q) - 1, ~(i < n) PROVE u[i] = q[i + 1]
    <3>1. i - (n - 1) \in 1 .. Len(q) - n /\ n + (i - (n - 1)) = i + 1
      BY <1>1, <2>2
    <3>2. u[i] = w[i - (n - 1)]
      BY <1>1, <1>3, <1>4, <2>1, <2>2
    <3> QED BY <1>4, <3>1, <3>2
  <2>3. ASSUME NEW i \in 1 .. Len(q) - 1, i < n PROVE u[i] = q[i]
    <3>1. i \in 1 .. n - 1 /\ i \in 1 .. Len(v) + Len(w) /\ i <= Len(v)
      BY <1>1, <1>3, <1>4, <2>3
    <3> QED BY <1>3, <2>1, <3>1
  <2> QED BY <1>1, <1>3, <1>4, <2>1, <2>2, <2>3
<1>7. ASSUME NEW x, Listed(u, x) PROVE Listed(q, x) /\ x # t
  <2>1. PICK i \in 1 .. Len(q) - 1 : u[i] = x
    BY <1>6, <1>7 DEF Listed
  <2>2. CASE i < n
    BY <1>1, <1>6, <2>1, <2>2 DEF Listed, Distinct
  <2>3. CASE ~(i < n)
    <3>1. i + 1 \in 1 .. Len(q) /\ q[i + 1] = x /\ i + 1 # n
      BY <1>1, <1>6, <2>1, <2>3
    <3> QED BY <1>1, <3>1 DEF Listed, Distinct
  <2> QED BY <2>2, <2>3
<1>8. ASSUME NEW x, Listed(q, x), x # t PROVE Listed(u, x)
  <2>1. PICK i \in 1 .. Len(q) : q[i] = x
    BY <1>1, <1>8 DEF Listed
  <2>2. CASE i < n
    BY <1>1, <1>6, <2>1, <2>2 DEF Listed
  <2>3. CASE i > n
    <3>1. i - 1 \in 1 .. Len(q) - 1 /\ u[i - 1] = x
      BY <1>1, <1>6, <2>1, <2>3
    <3> QED BY <1>6, <3>1 DEF Listed
  <2> QED BY <1>1, <1>8, <2>1, <2>2, <2>3
<1>9. Distinct(u)
  <2>1. SUFFICES ASSUME NEW i \in 1 .. Len(q) - 1, NEW j \in 1 .. Len(q) - 1,
                        u[i] = u[j]
                 PROVE  i = j
    BY <1>6 DEF Distinct
  <2> DEFINE a == IF i < n THEN i ELSE i + 1
             b == IF j < n THEN j ELSE j + 1
  <2>2. a \in 1 .. Len(q) /\ b \in 1 .. Len(q) /\ q[a] = u[i] /\ q[b] = u[j]
    BY <1>1, <1>6
  <2>3. a = b
    BY <1>1, <2>1, <2>2 DEF Distinct
  <2> QED BY <1>1, <2>3
<1> QED BY <1>6, <1>7, <1>8, <1>9 DEF u

-----------------------------------------------------------------------------
(* What the steps of the thread do to the batches *)

\* The fields of a batch in a list.
LEMMA BatchFields ==
  ASSUME NEW q \in Seq(Batch), NEW i \in DOMAIN q
  PROVE  /\ q[i] \in Batch /\ q[i].tasks \in Seq(Tasks)
         /\ q[i].fill \in 0 .. MaxTaskInBatch /\ q[i].poll \in 0 .. MaxTaskInBatch
<1>1. q[i] \in Batch
  OBVIOUS
<1> QED BY <1>1 DEF Batch

\* An answer takes its task out of the first running batch and counts it there.
LEMMA AnswerEffect ==
  ASSUME Types, Shape, Looked, Apart, Answer, Head(look).ok
  PROVE  LET t == Head(look).task
         IN  /\ t \in Tasks /\ hw[t] = "done" /\ running # << >>
             /\ Listed(running[1].tasks, t)
             /\ running' \in Seq(Batch) /\ Len(running') = Len(running)
             /\ \A i \in 2 .. Len(running) : running'[i] = running[i]
             /\ running'[1].fill = running[1].fill
             /\ running'[1].poll = running[1].poll + 1
             /\ running'[1].tasks = Unlinked(running[1].tasks, t)
             /\ owed' = [owed EXCEPT ![t] = @ - 1]
             /\ pc' = [pc EXCEPT ![Owner[t]] = IF @ = "asleep" THEN "woken" ELSE @]
             /\ UNCHANGED <<waitVars, switches, pending, timer, free, tpc, left, hw, faulty>>
<1> DEFINE t == Head(look).task
           b == running[1]
           c == [b EXCEPT !.tasks = Unlinked(b.tasks, t), !.poll = b.poll + 1]
<1>1. look # << >> /\ Head(look) = look[1] /\ 1 \in DOMAIN look
  BY DEF Answer, Types
<1>2. t \in Tasks /\ hw[t] = "done" /\ running # << >> /\ Listed(b.tasks, t)
  <2>1. tpc = "answer" /\ look[1].ok /\ t = look[1].task
    BY <1>1 DEF Answer
  <2>2. look[1] \in [task : Tasks, ok : BOOLEAN]
    <3>1. look \in Seq([task : Tasks, ok : BOOLEAN])
      BY DEF Types
    <3>2. 1 \in 1 .. Len(look)
      BY <1>1, <3>1
    <3> QED BY <3>1, <3>2, ElementOfSeq
  <2>3. running # << >> /\ Listed(b.tasks, look[1].task) /\ hw[look[1].task] = "done"
    BY <1>1, <2>1 DEF Looked
  <2> QED BY <2>1, <2>2, <2>3
<1>3. 1 \in DOMAIN running /\ Len(running) \in Nat /\ DOMAIN running = 1 .. Len(running)
  BY <1>2 DEF Types
<1>4. b \in Batch /\ b.tasks \in Seq(Tasks) /\ Distinct(b.tasks)
  <2>1. running \in Seq(Batch) /\ Distinct(b.tasks)
    BY <1>3 DEF Types, Apart
  <2> QED BY <1>3, <2>1, BatchFields
<1>5. Unlinked(b.tasks, t) \in Seq(Tasks) /\ Len(Unlinked(b.tasks, t)) = Len(b.tasks) - 1
  BY <1>2, <1>4, UnlinkedListed
<1>6. b.poll + 1 \in 0 .. MaxTaskInBatch
  <2> DEFINE l == Len(b.tasks)
             f == b.fill
             p == b.poll
  <2>1. l = f - p /\ f \in 0 .. MaxTaskInBatch /\ p \in 0 .. MaxTaskInBatch
    BY <1>3, <1>4 DEF Shape, Batch
  <2>2. l - 1 \in Nat
    BY <1>5
  <2> HIDE DEF l, f, p
  <2>3. p + 1 \in 0 .. MaxTaskInBatch
    BY <2>1, <2>2, ServerAssumption
  <2> QED BY <2>3 DEF p
<1>7. c \in Batch /\ c.fill = b.fill /\ c.poll = b.poll + 1 /\ c.tasks = Unlinked(b.tasks, t)
  BY <1>4, <1>5, <1>6 DEF Batch
<1>8. /\ running' = [running EXCEPT ![1] = c]
      /\ owed' = [owed EXCEPT ![t] = @ - 1]
      /\ pc' = [pc EXCEPT ![Owner[t]] = IF @ = "asleep" THEN "woken" ELSE @]
      /\ UNCHANGED <<waitVars, switches, pending, timer, free, tpc, left, hw, faulty>>
  BY <1>3 DEF Answer, hwVars, waitVars
<1> HIDE DEF b, c
<1>9. /\ running' \in Seq(Batch) /\ Len(running') = Len(running)
      /\ running'[1] = c /\ \A i \in 2 .. Len(running) : running'[i] = running[i]
  BY <1>3, <1>7, <1>8 DEF Types
<1> QED BY <1>2, <1>7, <1>8, <1>9 DEF b

\* A batch that is recycled has no task left, and is free as a new one is.
LEMMA RecycleEffect ==
  ASSUME Types, Shape, Looked, Recycle, Answered(Head(running))
  PROVE  /\ running # << >> /\ running[1].tasks = << >>
         /\ running' = Tail(running) /\ running' \in Seq(Batch)
         /\ Len(running') = Len(running) - 1
         /\ \A i \in 1 .. Len(running) - 1 : running'[i] = running[i + 1]
         /\ free' = Append(free, Empty) /\ free' \in Seq(Batch)
         /\ Len(free') = Len(free) + 1
         /\ \A i \in 1 .. Len(free) : free'[i] = free[i]
         /\ free'[Len(free) + 1] = Empty
         /\ tpc' = "poll" /\ UNCHANGED <<userVars, pending, timer, look, left, hwVars>>
<1>1. running # << >> /\ Head(running) = running[1] /\ 1 \in DOMAIN running
  BY DEF Recycle, Looked, Types
<1>2. running[1] \in Batch /\ running[1].tasks \in Seq(Tasks)
  BY <1>1, BatchFields DEF Types
<1>3. running[1].tasks = << >>
  <2>1. Len(running[1].tasks) = running[1].fill - running[1].poll
    BY <1>1 DEF Shape
  <2>2. running[1].fill \in 0 .. MaxTaskInBatch /\ running[1].poll = running[1].fill
    BY <1>1, <1>2 DEF Answered, Batch
  <2>3. Len(running[1].tasks) = 0
    BY <2>1, <2>2, ServerAssumption
  <2> QED BY <1>2, <2>3
<1>4. /\ running' = Tail(running) /\ free' = Append(free, Empty)
      /\ tpc' = "poll" /\ UNCHANGED <<userVars, pending, timer, look, left, hwVars>>
  BY DEF Recycle, Recycled
<1>5. Empty \in Batch
  BY ServerAssumption DEF Empty, Batch
<1>6. /\ running' \in Seq(Batch) /\ Len(running') = Len(running) - 1
      /\ \A i \in 1 .. Len(running) - 1 : running'[i] = running[i + 1]
  BY <1>1, <1>4 DEF Types
<1>7. /\ free' \in Seq(Batch) /\ Len(free') = Len(free) + 1
      /\ \A i \in 1 .. Len(free) : free'[i] = free[i]
      /\ free'[Len(free) + 1] = Empty
  BY <1>4, <1>5 DEF Types
<1> QED BY <1>1, <1>3, <1>4, <1>6, <1>7

\* Sending moves a batch from the head of the free list to the end of the running
\* ones, and hands its tasks to the hardware.
LEMMA SendEffect ==
  ASSUME Types, free # << >>, NEW b \in Batch, SendBatch(b)
  PROVE  /\ running' \in Seq(Batch) /\ Len(running') = Len(running) + 1
         /\ \A i \in 1 .. Len(running) : running'[i] = running[i]
         /\ running'[Len(running) + 1] = b
         /\ free' \in Seq(Batch) /\ Len(free') = Len(free) - 1
         /\ \A i \in 1 .. Len(free) - 1 : free'[i] = free[i + 1]
         /\ hw' \in [Tasks -> {"none", "busy", "done", "failed"}]
         /\ \A s \in Tasks : Listed(b.tasks, s) => hw'[s] # "none"
         /\ \A s \in Tasks : ~Listed(b.tasks, s) => hw'[s] = hw[s]
         /\ faulty' \in BOOLEAN
<1>1. PICK lost \in SUBSET {b.tasks[i] : i \in DOMAIN b.tasks} :
        /\ running' = Append(running, b)
        /\ free' = Tail(free)
        /\ hw' = [s \in Tasks |-> IF s \in lost THEN "failed"
                                     ELSE IF Listed(b.tasks, s) THEN "busy" ELSE hw[s]]
        /\ faulty' = (faulty \/ lost # {})
  BY DEF SendBatch
<1>2. /\ running' \in Seq(Batch) /\ Len(running') = Len(running) + 1
      /\ \A i \in 1 .. Len(running) : running'[i] = running[i]
      /\ running'[Len(running) + 1] = b
  BY <1>1 DEF Types
<1>3. /\ free' \in Seq(Batch) /\ Len(free') = Len(free) - 1
      /\ \A i \in 1 .. Len(free) - 1 : free'[i] = free[i + 1]
  BY <1>1 DEF Types
<1>4. /\ hw' \in [Tasks -> {"none", "busy", "done", "failed"}]
      /\ \A s \in Tasks : Listed(b.tasks, s) => hw'[s] # "none"
  BY <1>1 DEF Types
<1>5. \A s \in Tasks : ~Listed(b.tasks, s) => s \notin lost
  BY <1>1 DEF Listed
<1>6. \A s \in Tasks : ~Listed(b.tasks, s) => hw'[s] = hw[s]
  BY <1>1, <1>5
<1>7. faulty' \in BOOLEAN
  BY <1>1
<1> QED BY <1>2, <1>3, <1>4, <1>6, <1>7

\* The batch that is filled, with the next pending task.
Filled == [Head(free) EXCEPT !.tasks = Append(@, Head(pending)), !.fill = @ + 1]

LEMMA FillEffect ==
  ASSUME Types, Shape, Looked, FillTask
  PROVE  /\ pending # << >> /\ free # << >> /\ free[1] \in Batch
         /\ Filled \in Batch /\ Filled.fill = free[1].fill + 1 /\ Filled.poll = 0
         /\ Filled.tasks = Append(free[1].tasks, Head(pending))
         /\ Len(Filled.tasks) = Filled.fill
         /\ pending' = Tail(pending) /\ left' = left - 1 /\ left > 0
         /\ tpc = "fill" /\ UNCHANGED <<userVars, timer, tpc, look>>
         /\ IF Full(Filled) THEN SendBatch(Filled)
            ELSE /\ free' = << Filled >> \o Tail(free)
                 /\ UNCHANGED <<running, hwVars>>
<1>1. /\ tpc = "fill" /\ free # << >> /\ left > 0
      /\ pending' = Tail(pending) /\ left' = left - 1
      /\ UNCHANGED <<userVars, timer, tpc, look>>
      /\ IF Full(Filled) THEN SendBatch(Filled)
         ELSE /\ free' = << Filled >> \o Tail(free)
              /\ UNCHANGED <<running, hwVars>>
  BY DEF FillTask, Filled
<1>2. pending # << >> /\ Head(pending) \in Tasks
  BY <1>1 DEF Looked, Types
<1>3. Head(free) = free[1] /\ free[1] \in Batch
  BY <1>1 DEF Types
<1>4. /\ Len(free[1].tasks) = free[1].fill /\ free[1].poll = 0
      /\ free[1].fill < MaxTaskInBatch
  BY <1>1 DEF Shape
<1>5. free[1].tasks \in Seq(Tasks) /\ free[1].fill \in 0 .. MaxTaskInBatch
  BY <1>3 DEF Batch
<1> DEFINE q == Append(free[1].tasks, Head(pending))
<1>6. q \in Seq(Tasks) /\ Len(q) = free[1].fill + 1
  BY <1>2, <1>4, <1>5
<1> HIDE DEF q
<1>7. free[1].fill + 1 \in 0 .. MaxTaskInBatch
  BY <1>4, <1>5, ServerAssumption
<1>8. Filled = [free[1] EXCEPT !.tasks = q, !.fill = free[1].fill + 1]
  BY <1>3 DEF Filled, q, Batch
<1>9. Filled \in Batch /\ Filled.tasks = q /\ Filled.fill = free[1].fill + 1 /\ Filled.poll = 0
  BY <1>3, <1>4, <1>6, <1>7, <1>8 DEF Batch
<1> QED BY <1>1, <1>2, <1>3, <1>6, <1>9 DEF q


-----------------------------------------------------------------------------
(* The steps of the sessions and of the hardware *)

UserStep(s) ==
    \/ Attach(s) \/ Detach(s) \/ SendQueue(s) \/ SendPending(s) \/ Wait(s)
    \/ WakeForNothing(s) \/ WaitDone(s)
    \/ \E t \in Tasks : Owner[t] = s /\ HwStep(t)

\* They touch no batch and nothing of the thread.
LEMMA UserTouches ==
  ASSUME NEW s \in Sessions, UserStep(s)
  PROVE  UNCHANGED <<running, free, tpc, look, left>>
  BY DEF UserStep, Attach, Detach, SendQueue, SendPending, Wait,
         WakeForNothing, WaitDone, HwStep, HwFinish, HwFail, batchVars, threadVars, userVars, hwVars

\* They keep the types.
LEMMA TypesByUser ==
  ASSUME Types, NEW s \in Sessions, UserStep(s)
  PROVE  Types'
<1> USE ServerAssumption DEF Types, userVars, waitVars, batchVars, threadVars, hwVars, Goto
<1>1. CASE Attach(s)
  BY <1>1 DEF Attach
<1>2. CASE Detach(s)
  BY <1>2 DEF Detach
<1>3. CASE SendQueue(s)
  BY <1>3 DEF SendQueue
<1>4. CASE SendPending(s)
  BY <1>4 DEF SendPending, StartTimer
<1>5. CASE Wait(s)
  BY <1>5 DEF Wait
<1>6. CASE WakeForNothing(s)
  BY <1>6 DEF WakeForNothing
<1>7. CASE WaitDone(s)
  BY <1>7 DEF WaitDone
<1>8. ASSUME NEW t \in Tasks, HwStep(t) PROVE Types'
  <2>1. hw' \in [Tasks -> {"none", "busy", "done", "failed"}]
    <3>1. hw' = [hw EXCEPT ![t] = "done"] \/ hw' = [hw EXCEPT ![t] = "failed"]
      BY <1>8 DEF HwStep, HwFinish, HwFail
    <3>2. hw \in [Tasks -> {"none", "busy", "done", "failed"}]
      OBVIOUS
    <3> HIDE DEF Types
    <3> QED BY <3>1, <3>2
  <2>3. faulty' \in BOOLEAN
    <3>1. faulty' = faulty \/ faulty' = TRUE
      BY <1>8 DEF HwStep, HwFinish, HwFail
    <3> QED BY <3>1
  <2>2. UNCHANGED <<pc, owed, current, stray, switches, pending, timer, running, free,
                    tpc, look, left>>
    BY <1>8 DEF HwStep, HwFinish, HwFail
  <2> QED BY <2>1, <2>2, <2>3
<1> HIDE DEF Types, userVars, waitVars, batchVars, threadVars, hwVars, Goto
<1> QED BY <1>1, <1>2, <1>3, <1>4, <1>5, <1>6, <1>7, <1>8 DEF UserStep

\* What each step does to what is owed and to what the hardware has: only a task
\* that is answered is sent again.
LEMMA UserHardware ==
  ASSUME Types, Owing, NEW s \in Sessions, UserStep(s)
  PROVE  \A t \in Tasks : Runs(t) =>
           /\ hw[t] = "done" => hw'[t] = "done"
           /\ hw[t] # "none" => hw'[t] # "none"
<1>1. CASE SendQueue(s)
  <2>1. PICK t \in Tasks : owed[t] = 0 /\ hw' = [hw EXCEPT ![t] = "none"]
    BY <1>1 DEF SendQueue
  <2>2. ~Runs(t)
    BY <2>1 DEF Owing, Placed
  <2> QED BY <2>1, <2>2 DEF Types
<1>2. ASSUME NEW t \in Tasks, HwStep(t)
      PROVE  \A x \in Tasks : /\ hw[x] = "done" => hw'[x] = "done"
                              /\ hw[x] # "none" => hw'[x] # "none"
  BY <1>2 DEF HwStep, HwFinish, HwFail, Types
<1>3. CASE ~SendQueue(s) /\ ~(\E t \in Tasks : HwStep(t))
  BY <1>3 DEF UserStep, Attach, Detach, SendPending, Wait, WakeForNothing, WaitDone, hwVars
<1> QED BY <1>1, <1>2, <1>3

\* They leave the batches in shape, and what the thread has looked at: a session
\* that sends takes a task that is in no batch.
LEMMA ShapeByUser ==
  ASSUME Types, Shape, Looked, Owing, NEW s \in Sessions, UserStep(s)
  PROVE  Shape' /\ Looked'
<1>1. UNCHANGED <<running, free, tpc, look, left>>
  BY UserTouches
<1>2. Len(pending') >= Len(pending)
  <2>1. CASE SendPending(s)
    BY <2>1 DEF SendPending, Types
  <2>2. CASE ~SendPending(s)
    BY <2>2 DEF UserStep, Attach, Detach, SendQueue, Wait, WakeForNothing, WaitDone,
                HwStep, HwFinish, HwFail, Types
  <2> QED BY <2>1, <2>2
<1>3. \A x \in Tasks : Runs(x) /\ hw[x] = "done" => hw'[x] = "done"
  BY UserHardware
<1>4. Shape'
  BY <1>1 DEF Shape
<1>5. ASSUME NEW k \in DOMAIN look, look[k].ok
      PROVE  hw'[look[k].task] = "done"
  <2>1. /\ Listed(running[1].tasks, look[k].task) /\ hw[look[k].task] = "done"
        /\ tpc = "answer" /\ running # << >>
    BY <1>5 DEF Looked
  <2>2. look[k].task \in Tasks
    <3>1. look \in Seq([task : Tasks, ok : BOOLEAN]) /\ k \in 1 .. Len(look)
      BY DEF Types
    <3>2. look[k] \in [task : Tasks, ok : BOOLEAN]
      BY <3>1, ElementOfSeq
    <3> QED BY <3>2
  <2>3. 1 \in DOMAIN running
    BY <2>1 DEF Types
  <2> QED BY <1>3, <2>1, <2>2, <2>3 DEF Runs
<1>6. Looked'
  BY <1>1, <1>2, <1>5 DEF Looked, Types
<1> QED BY <1>4, <1>6

\* Attach adds one session and one to the count; detach adds to it as well.
LEMMA CountedByUser ==
  ASSUME Types, Counted, NEW s \in Sessions, UserStep(s)
  PROVE  Counted'
<1>1. UNCHANGED <<running, free>>
  BY UserTouches
<1>2. IsFiniteSet(Attached) /\ Cardinality(Attached) \in Nat
  <2>1. Attached \subseteq Sessions
    BY DEF Attached
  <2> QED BY <2>1, FS_Subset, FS_CardinalityType, ServerAssumption
<1>3. CASE Attach(s)
  <2>1. Attached' = Attached \cup {s} /\ switches' = switches + 1
    BY <1>3 DEF Attach, Attached, Goto, Types
  <2>2. Cardinality(Attached') <= Cardinality(Attached) + 1
    <3>1. Cardinality(Attached \cup {s}) =
             IF s \in Attached THEN Cardinality(Attached) ELSE Cardinality(Attached) + 1
      BY <1>2, FS_AddElement
    <3> QED BY <1>2, <2>1, <3>1
  <2>3. Cardinality(Attached') \in Nat
    <3>1. Attached' \subseteq Sessions
      BY <2>1 DEF Attached
    <3> QED BY <3>1, FS_Subset, FS_CardinalityType, ServerAssumption
  <2> QED BY <1>1, <1>2, <2>1, <2>2, <2>3, ServerAssumption DEF Counted, Types
<1>4. CASE Detach(s)
  <2>1. Attached' \subseteq Attached /\ switches' = switches + 1
    BY <1>4 DEF Detach, Attached, Goto, Types
  <2>2. Cardinality(Attached') <= Cardinality(Attached) /\ Cardinality(Attached') \in Nat
    BY <1>2, <2>1, FS_Subset, FS_CardinalityType
  <2> QED BY <1>1, <1>2, <2>1, <2>2, ServerAssumption DEF Counted, Types
<1>5. CASE ~Attach(s) /\ ~Detach(s)
  <2>1. \A x \in Sessions : pc'[x] = "off" <=> pc[x] = "off"
    BY <1>5 DEF UserStep, SendQueue, SendPending, Wait,
         WakeForNothing, WaitDone, HwStep, HwFinish, HwFail,
         userVars, Goto, Types
  <2>2. Attached' = Attached
    BY <2>1 DEF Attached
  <2>3. switches' = switches
    BY <1>5 DEF UserStep, SendQueue, SendPending, Wait,
         WakeForNothing, WaitDone, HwStep, HwFinish, HwFail,
         userVars
  <2> QED BY <1>1, <2>2, <2>3 DEF Counted
<1> QED BY <1>3, <1>4, <1>5

\* A task moves from its session to the end of the pending list.
LEMMA PlacesByUser ==
  ASSUME Types, NEW s \in Sessions, UserStep(s)
  PROVE  /\ \A t \in Tasks : (Runs(t)' <=> Runs(t)) /\ (Fills(t)' <=> Fills(t))
         /\ \A t \in Tasks : Pends(t)' <=> Pends(t) \/ (SendPending(s) /\ t = current[s])
         /\ Distinct(pending) /\ (SendPending(s) => ~Pends(current[s])) => Distinct(pending')
<1>1. UNCHANGED <<running, free>>
  BY UserTouches
<1>2. CASE SendPending(s)
  <2>1. pending' = Append(pending, current[s]) /\ pending \in Seq(Tasks) /\ current[s] \in Tasks
    BY <1>2 DEF SendPending, Types
  <2>2. /\ \A x : Listed(pending', x) <=> Listed(pending, x) \/ x = current[s]
        /\ Distinct(pending) /\ ~Listed(pending, current[s]) => Distinct(pending')
    BY <2>1, AppendListed
  <2> QED BY <1>1, <1>2, <2>2 DEF Pends, Runs, Fills
<1>3. CASE ~SendPending(s)
  <2>1. pending' = pending
    BY <1>3 DEF UserStep, Attach, Detach, SendQueue, Wait, WakeForNothing, WaitDone,
                HwStep, HwFinish, HwFail
  <2> QED BY <1>1, <1>3, <2>1 DEF Pends, Runs, Fills
<1> QED BY <1>2, <1>3

\* A task begins to be sent when nothing is owed for it, and is sent once.
LEMMA SendingByUser ==
  ASSUME Types, Owing, NEW s \in Sessions, UserStep(s), NEW t \in Tasks
  PROVE  /\ SendPending(s) =>
              /\ Sending(t)' <=> Sending(t) /\ t # current[s]
              /\ Sending(current[s])
         /\ SendQueue(s) =>
              /\ Sending(t)' <=> Sending(t) \/ t = current'[s]
              /\ current'[s] \in Tasks /\ ~Placed(current'[s])
              /\ Owner[current'[s]] = s
              /\ ~Sending(t) \/ Owner[t] # s
              /\ owed' = [owed EXCEPT ![current'[s]] = @ + 1]
              /\ hw' = [hw EXCEPT ![current'[s]] = "none"]
              /\ current' = [current EXCEPT ![s] = current'[s]]
         /\ ~SendPending(s) /\ ~SendQueue(s) =>
              /\ Sending(t)' <=> Sending(t)
              /\ current' = current
<1> USE DEF Types, Goto
<1>0. Owner[t] \in Sessions /\ current[s] \in Tasks /\ Owner[current[s]] = s
  BY ServerAssumption DEF Owing
<1>1. ASSUME SendPending(s)
      PROVE  (Sending(t)' <=> Sending(t) /\ t # current[s]) /\ Sending(current[s])
  <2>1. /\ pc[s] = "sending" /\ pc' = [pc EXCEPT ![s] = "sent"] /\ current' = current
    BY <1>1 DEF SendPending, waitVars
  <2> QED BY <1>0, <2>1 DEF Sending
<1>2. ASSUME SendQueue(s)
      PROVE  /\ Sending(t)' <=> Sending(t) \/ t = current'[s]
             /\ current'[s] \in Tasks /\ ~Placed(current'[s])
             /\ Owner[current'[s]] = s
             /\ ~Sending(t) \/ Owner[t] # s
             /\ owed' = [owed EXCEPT ![current'[s]] = @ + 1]
             /\ hw' = [hw EXCEPT ![current'[s]] = "none"]
             /\ current' = [current EXCEPT ![s] = current'[s]]
  <2>1. PICK u \in Tasks :
          /\ Owner[u] = s /\ owed[u] = 0
          /\ current' = [current EXCEPT ![s] = u]
          /\ owed' = [owed EXCEPT ![u] = @ + 1]
          /\ hw' = [hw EXCEPT ![u] = "none"]
    BY <1>2 DEF SendQueue
  <2>2. current'[s] = u /\ pc[s] = "idle" /\ pc' = [pc EXCEPT ![s] = "sending"]
    BY <1>2, <2>1 DEF SendQueue
  <2>3. ~Placed(u)
    BY <2>1 DEF Owing
  <2>4. ~Sending(t) \/ Owner[t] # s
    BY <2>2 DEF Sending
  <2>5. Sending(t)' <=> Sending(t) \/ t = u
    <3>1. CASE Owner[t] = s
      BY <1>0, <2>1, <2>2, <2>4, <3>1 DEF Sending
    <3>2. CASE Owner[t] # s
      BY <1>0, <2>1, <2>2, <3>2 DEF Sending
    <3> QED BY <3>1, <3>2
  <2> QED BY <2>1, <2>2, <2>3, <2>4, <2>5
<1>3. ASSUME ~SendPending(s), ~SendQueue(s)
      PROVE  (Sending(t)' <=> Sending(t)) /\ current' = current
  <2>1. current' = current
    BY <1>3 DEF UserStep, Attach, Detach, Wait, WakeForNothing, WaitDone, HwStep,
                HwFinish, HwFail, waitVars, userVars
  <2>2. \A x \in Sessions : pc'[x] = "sending" <=> pc[x] = "sending"
    BY <1>3 DEF UserStep, Attach, Detach, Wait, WakeForNothing, WaitDone, HwStep,
                HwFinish, HwFail, userVars
  <2> QED BY <1>0, <2>1, <2>2 DEF Sending
<1> QED BY <1>1, <1>2, <1>3

\* The steps of the sessions keep a task in one place.
LEMMA ApartByUser ==
  ASSUME Types, Apart, Owing, NEW s \in Sessions, UserStep(s)
  PROVE  Apart'
<1>1. UNCHANGED <<running, free>>
  BY UserTouches
<1>2. /\ \A t \in Tasks : (Runs(t)' <=> Runs(t)) /\ (Fills(t)' <=> Fills(t))
      /\ \A t \in Tasks : Pends(t)' <=> Pends(t) \/ (SendPending(s) /\ t = current[s])
      /\ Distinct(pending) /\ (SendPending(s) => ~Pends(current[s])) => Distinct(pending')
  BY PlacesByUser
<1>3. current[s] \in Tasks
  BY DEF Types
<1>4. Distinct(pending')
  <2>1. SendPending(s) => ~Pends(current[s])
    BY <1>3, SendingByUser DEF Apart
  <2> QED BY <1>2, <2>1 DEF Apart
<1>5. ASSUME NEW t \in Tasks
      PROVE  /\ Sending(t)' => ~Pends(t)' /\ ~Runs(t)' /\ ~Fills(t)'
             /\ Pends(t)' => ~Runs(t)' /\ ~Fills(t)'
             /\ Runs(t)' => ~Fills(t)'
  <2> USE DEF Apart
  <2>1. CASE SendPending(s)
    BY <1>2, <1>3, <2>1, SendingByUser
  <2>2. CASE SendQueue(s)
    <3>1. ~SendPending(s)
      BY <2>2 DEF SendQueue, SendPending, Goto
    <3>2. Sending(t)' <=> Sending(t) \/ t = current'[s]
      BY <2>2, SendingByUser
    <3>3. ~Placed(current'[s])
      BY <2>2, SendingByUser
    <3> QED BY <1>2, <3>1, <3>2, <3>3 DEF Placed
  <2>3. CASE ~SendPending(s) /\ ~SendQueue(s)
    BY <1>2, <2>3, SendingByUser
  <2> QED BY <2>1, <2>2, <2>3
<1> QED BY <1>1, <1>4, <1>5 DEF Apart

\* A task is somewhere from when it is sent on.
LEMMA PlacedByUser ==
  ASSUME Types, Owing, NEW s \in Sessions, UserStep(s), NEW t \in Tasks
  PROVE  Placed(t)' <=> Placed(t) \/ (SendQueue(s) /\ t = current'[s])
<1>1. /\ (Runs(t)' <=> Runs(t)) /\ (Fills(t)' <=> Fills(t))
      /\ Pends(t)' <=> Pends(t) \/ (SendPending(s) /\ t = current[s])
  BY PlacesByUser
<1>2. CASE SendPending(s)
  <2>1. ~SendQueue(s)
    BY <1>2 DEF SendQueue, SendPending, Goto
  <2>2. (Sending(t)' <=> Sending(t) /\ t # current[s]) /\ Sending(current[s])
    BY <1>2, SendingByUser
  <2> QED BY <1>1, <1>2, <2>1, <2>2 DEF Placed
<1>3. CASE SendQueue(s)
  <2>1. ~SendPending(s)
    BY <1>3 DEF SendQueue, SendPending, Goto
  <2>2. Sending(t)' <=> Sending(t) \/ t = current'[s]
    BY <1>3, SendingByUser
  <2> QED BY <1>1, <1>3, <2>1, <2>2 DEF Placed
<1>4. CASE ~SendPending(s) /\ ~SendQueue(s)
  BY <1>1, <1>4, SendingByUser DEF Placed
<1> QED BY <1>2, <1>3, <1>4

\* And what is owed.
LEMMA OwingByUser ==
  ASSUME Types, Apart, Owing, NEW s \in Sessions, UserStep(s)
  PROVE  Owing'
<1>0. \A t \in Tasks : Owner[t] \in Sessions
  BY ServerAssumption
<1> USE DEF Types, Goto
<1>1. ASSUME NEW x \in Sessions PROVE Owner[current'[x]] = x
  <2>1. CASE SendQueue(s)
    <3>1. /\ current' = [current EXCEPT ![s] = current'[s]] /\ Owner[current'[s]] = s
      BY <2>1, SendingByUser, <1>0 DEF SendQueue
    <3> QED BY <3>1 DEF Owing
  <2>2. CASE ~SendQueue(s)
    <3>1. current' = current
      BY <2>2 DEF UserStep, Attach, Detach, SendPending, Wait, WakeForNothing, WaitDone,
                  HwStep, HwFinish, HwFail, waitVars, userVars
    <3> QED BY <3>1 DEF Owing
  <2> QED BY <2>1, <2>2
<1>2. ASSUME NEW t \in Tasks
      PROVE  owed'[t] = IF Placed(t)' THEN 1 ELSE 0
  <2>1. CASE SendQueue(s)
    <3>1. /\ current'[s] \in Tasks /\ ~Placed(current'[s])
          /\ owed' = [owed EXCEPT ![current'[s]] = @ + 1]
      BY <2>1, SendingByUser
    <3>2. owed[current'[s]] = 0 /\ owed[t] = IF Placed(t) THEN 1 ELSE 0
      BY <3>1 DEF Owing
    <3>3. Placed(t)' <=> Placed(t) \/ t = current'[s]
      BY <2>1, PlacedByUser
    <3> QED BY <3>1, <3>2, <3>3
  <2>2. CASE ~SendQueue(s)
    <3>1. (Placed(t)' <=> Placed(t)) /\ owed[t] = IF Placed(t) THEN 1 ELSE 0
      BY <2>2, PlacedByUser DEF Owing
    <3>2. owed'[t] = owed[t]
      <4>1. CASE Attach(s)
        <5>1. /\ pc[s] = "off"
              /\ owed' = [x \in Tasks |-> IF Owner[x] = s THEN 0 ELSE owed[x]]
          BY <4>1 DEF Attach
        <5>2. Owner[t] = s => owed[t] = 0
          BY <5>1 DEF Owing
        <5> QED BY <5>1, <5>2
      <4>2. CASE ~Attach(s)
        BY <2>2, <4>2 DEF UserStep, Detach, SendPending, Wait, WakeForNothing, WaitDone,
                          HwStep, HwFinish, HwFail, userVars
      <4> QED BY <4>1, <4>2
    <3> QED BY <3>1, <3>2
  <2> QED BY <2>1, <2>2
<1>3. ASSUME NEW t \in Tasks, Placed(t)'
      PROVE  /\ pc'[Owner[t]] # "off"
             /\ Owner[t] \notin stray' =>
                  current'[Owner[t]] = t /\ pc'[Owner[t]] \in {"sending", "sent", "asleep"}
  <2> DEFINE o == Owner[t]
  <2>1. o \in Sessions
    BY <1>0
  <2>2. Placed(t) =>
          /\ pc[o] # "off" /\ owed[t] = 1
          /\ o \notin stray => current[o] = t /\ pc[o] \in {"sending", "sent", "asleep"}
    BY DEF Owing
  <2>3. AllAnswered(s) => ~(Placed(t) /\ o = s)
    BY <2>2 DEF AllAnswered
  <2>4. Placed(t)' <=> Placed(t) \/ (SendQueue(s) /\ t = current'[s])
    BY PlacedByUser
  <2> HIDE DEF o
  <2>5. CASE SendQueue(s)
    <3>1. /\ pc[s] = "idle" /\ pc' = [pc EXCEPT ![s] = "sending"]
          /\ stray' = IF AllAnswered(s) THEN stray \ {s} ELSE stray
      BY <2>5 DEF SendQueue
    <3>2. /\ current' = [current EXCEPT ![s] = current'[s]] /\ Owner[current'[s]] = s
      BY <2>5, SendingByUser
    <3>3. CASE t = current'[s]
      BY <3>1, <3>2, <3>3 DEF o
    <3>4. CASE t # current'[s] /\ o = s
      BY <1>3, <2>2, <2>3, <2>4, <3>1, <3>4 DEF o
    <3>5. CASE t # current'[s] /\ o # s
      BY <1>3, <2>1, <2>2, <2>4, <3>1, <3>2, <3>5 DEF o
    <3> QED BY <3>3, <3>4, <3>5
  <2>6. CASE Attach(s)
    <3>1. /\ pc[s] = "off" /\ pc' = [pc EXCEPT ![s] = "idle"] /\ UNCHANGED <<current, stray>>
          /\ ~SendQueue(s)
      BY <2>6 DEF Attach, waitVars, SendQueue
    <3> QED BY <1>3, <2>1, <2>2, <2>4, <3>1 DEF o
  <2>7. CASE Detach(s) \/ (Wait(s) /\ ~MustWait(s))
    <3>1. /\ AllAnswered(s) /\ UNCHANGED <<current, stray>> /\ ~SendQueue(s)
          /\ \A x \in Sessions : x # s => pc'[x] = pc[x]
      BY <2>7 DEF Detach, Wait, MustWait, waitVars, SendQueue
    <3> QED BY <1>3, <2>1, <2>2, <2>3, <2>4, <3>1 DEF o
  <2>8. CASE SendPending(s) \/ (Wait(s) /\ MustWait(s))
    <3>1. /\ UNCHANGED <<current, stray>> /\ ~SendQueue(s)
          /\ \A x \in Sessions : x # s => pc'[x] = pc[x]
          /\ pc'[s] \in {"sent", "asleep"}
      BY <2>8 DEF SendPending, Wait, MustWait, waitVars, SendQueue
    <3> QED BY <1>3, <2>1, <2>2, <2>4, <3>1 DEF o
  <2>9. CASE WakeForNothing(s)
    <3>1. /\ current' = current /\ stray' = stray \cup {s} /\ ~SendQueue(s)
          /\ pc' = [pc EXCEPT ![s] = "woken"]
      BY <2>9 DEF WakeForNothing, SendQueue
    <3> QED BY <1>3, <2>1, <2>2, <2>4, <3>1 DEF o
  <2>10. CASE WaitDone(s)
    <3>1. /\ UNCHANGED <<current, stray>> /\ ~SendQueue(s)
          /\ pc[s] = "woken" /\ pc' = [pc EXCEPT ![s] = "idle"]
      BY <2>10 DEF WaitDone, waitVars, SendQueue
    <3> QED BY <1>3, <2>1, <2>2, <2>4, <3>1 DEF o
  <2>11. CASE \E x \in Tasks : HwStep(x)
    <3>1. UNCHANGED <<pc, current, stray>> /\ Placed(t)
      <4>1. UNCHANGED <<pc, current, stray, pending>>
        BY <2>11 DEF HwStep, HwFinish, HwFail, userVars, waitVars
      <4>2. UNCHANGED <<running, free>>
        BY UserTouches
      <4> QED BY <1>3, <4>1, <4>2 DEF Placed, Sending, Pends, Runs, Fills
    <3> QED BY <2>2, <3>1 DEF o
  <2> QED BY <2>5, <2>6, <2>7, <2>8, <2>9, <2>10, <2>11 DEF UserStep
<1> QED BY <1>1, <1>2, <1>3 DEF Owing

\* And what the hardware has.
LEMMA HandedByUser ==
  ASSUME Types, Apart, Owing, Handed, NEW s \in Sessions, UserStep(s)
  PROVE  Handed'
<1>0. \A t \in Tasks : Owner[t] \in Sessions
  BY ServerAssumption
<1> SUFFICES ASSUME NEW t \in Tasks
             PROVE  /\ Runs(t)' => hw'[t] # "none"
                    /\ (Sending(t) \/ Pends(t) \/ Fills(t))' => hw'[t] = "none"
                    /\ ~Placed(t)' => hw'[t] \in {"none", "done"}
                    /\ Waited(t)' /\ ~Placed(t)' => hw'[t] = "done"
  BY DEF Handed
<1>1. /\ (Runs(t)' <=> Runs(t)) /\ (Fills(t)' <=> Fills(t))
      /\ Pends(t)' <=> Pends(t) \/ (SendPending(s) /\ t = current[s])
      /\ Placed(t)' <=> Placed(t) \/ (SendQueue(s) /\ t = current'[s])
  BY PlacesByUser, PlacedByUser
<1>2. /\ Runs(t) => hw[t] # "none"
      /\ Sending(t) \/ Pends(t) \/ Fills(t) => hw[t] = "none"
      /\ ~Placed(t) => hw[t] \in {"none", "done"}
      /\ Waited(t) /\ ~Placed(t) => hw[t] = "done"
  BY DEF Handed
<1>3. Runs(t)' => hw'[t] # "none"
  BY <1>1, <1>2, UserHardware
<1>4. CASE SendQueue(s)
  <2>1. /\ current'[s] \in Tasks /\ Owner[current'[s]] = s
        /\ hw' = [hw EXCEPT ![current'[s]] = "none"]
        /\ current' = [current EXCEPT ![s] = current'[s]]
        /\ Sending(t)' <=> Sending(t) \/ t = current'[s]
    BY <1>4, SendingByUser
  <2>2. pc[s] = "idle" /\ pc' = [pc EXCEPT ![s] = "sending"] /\ ~SendPending(s)
    BY <1>4 DEF SendQueue, SendPending, Goto
  <2>3. CASE t = current'[s]
    BY <1>1, <1>3, <1>4, <2>1, <2>3 DEF Types
  <2>4. CASE t # current'[s]
    <3>1. hw'[t] = hw[t] /\ (Sending(t)' <=> Sending(t)) /\ (Placed(t)' <=> Placed(t))
      BY <1>1, <2>1, <2>4 DEF Types
    <3>2. Waited(t)' => Waited(t)
      <4>1. CASE Owner[t] = s
        BY <2>1, <2>4, <4>1 DEF Waited
      <4>2. CASE Owner[t] # s
        BY <1>0, <2>1, <2>2, <4>2 DEF Waited, Types
      <4> QED BY <4>1, <4>2
    <3> QED BY <1>1, <1>2, <1>3, <2>2, <3>1, <3>2
  <2> QED BY <2>3, <2>4
<1>5. CASE ~SendQueue(s)
  <2>1. Placed(t)' <=> Placed(t)
    BY <1>1, <1>5
  <2>2. Waited(t)' => Waited(t)
    <3>1. current' = current
      BY <1>5 DEF UserStep, Attach, Detach, SendPending, Wait, WakeForNothing, WaitDone,
                  HwStep, HwFinish, HwFail, waitVars, userVars
    <3>2. \A x \in Sessions : pc'[x] \in {"sending", "sent", "asleep", "woken"} =>
            pc[x] \in {"sending", "sent", "asleep", "woken"}
      BY <1>5 DEF UserStep, Attach, Detach, SendPending, Wait, WakeForNothing, WaitDone,
                  HwStep, HwFinish, HwFail, userVars, Types, Goto
    <3> QED BY <1>0, <3>1, <3>2 DEF Waited
  <2>3. (Sending(t) \/ Pends(t) \/ Fills(t))' => Sending(t) \/ Pends(t) \/ Fills(t)
    <3>1. CASE SendPending(s)
      <4>1. current[s] \in Tasks
        BY DEF Types
      <4> QED BY <1>1, <3>1, <4>1, SendingByUser
    <3>2. CASE ~SendPending(s)
      BY <1>1, <1>5, <3>2, SendingByUser
    <3> QED BY <3>1, <3>2
  <2>4. CASE \E x \in Tasks : HwStep(x)
    <3>1. PICK x \in Tasks : HwStep(x)
      BY <2>4
    <3>2. hw[x] = "busy" /\ \A y \in Tasks : y # x => hw'[y] = hw[y]
      BY <3>1 DEF HwStep, HwFinish, HwFail, Types
    <3>3. CASE t = x
      BY <1>2, <1>3, <2>1, <2>3, <3>2, <3>3
    <3>4. CASE t # x
      BY <1>2, <1>3, <2>1, <2>2, <2>3, <3>2, <3>4
    <3> QED BY <3>3, <3>4
  <2>5. CASE ~(\E x \in Tasks : HwStep(x))
    <3>1. hw' = hw
      BY <1>5, <2>5 DEF UserStep, Attach, Detach, SendPending, Wait, WakeForNothing,
                        WaitDone, hwVars
    <3> QED BY <1>2, <1>3, <2>1, <2>2, <2>3, <3>1
  <2> QED BY <2>4, <2>5
<1> QED BY <1>4, <1>5

-----------------------------------------------------------------------------
(* The steps of the thread: where the tasks are *)

\* The running batches hold each task once.
RunsOnce ==
    /\ \A i \in DOMAIN running : Distinct(running[i].tasks)
    /\ \A i, j \in DOMAIN running : \A s \in Tasks :
         Listed(running[i].tasks, s) /\ Listed(running[j].tasks, s) => i = j

\* No task is in an empty batch.
LEMMA EmptyHoldsNone ==
  /\ \A x : ~Listed(Empty.tasks, x)
  /\ Distinct(Empty.tasks)
  BY DEF Empty, Listed, Distinct

\* A batch that is sent brings its tasks to the running ones, and leaves none in
\* the free ones.
LEMMA SendPlaces ==
  ASSUME Types, Shape, Apart, free # << >>, NEW b \in Batch, SendBatch(b),
         Distinct(b.tasks), \A x \in Tasks : Listed(b.tasks, x) => ~Runs(x)
  PROVE  /\ \A x \in Tasks : Runs(x)' <=> Runs(x) \/ Listed(b.tasks, x)
         /\ \A x \in Tasks : ~Fills(x)'
         /\ free' # << >> => Distinct(free'[1].tasks)
         /\ RunsOnce'
<1> DEFINE n == Len(running)
<1>1. /\ n \in Nat /\ DOMAIN running = 1 .. n /\ DOMAIN running' = 1 .. n + 1
      /\ \A i \in 1 .. n : running'[i] = running[i]
      /\ running'[n + 1] = b
  BY SendEffect DEF Types
<1>2. free' # << >> => free'[1] = Empty
  <2>1. /\ free' \in Seq(Batch) /\ Len(free') = Len(free) - 1
        /\ \A i \in 1 .. Len(free) - 1 : free'[i] = free[i + 1]
    BY SendEffect
  <2>2. ASSUME free' # << >> PROVE free'[1] = free[2] /\ 2 \in DOMAIN free
    BY <2>1, <2>2 DEF Types
  <2> QED BY <2>2 DEF Shape
<1> HIDE DEF n
<1>3. ASSUME NEW x \in Tasks PROVE Runs(x)' <=> Runs(x) \/ Listed(b.tasks, x)
  <2>1. ASSUME NEW i \in 1 .. n + 1, Listed(running'[i].tasks, x)
        PROVE  Runs(x) \/ Listed(b.tasks, x)
    BY <1>1, <2>1 DEF Runs
  <2>2. ASSUME NEW i \in 1 .. n, Listed(running[i].tasks, x)
        PROVE  i \in 1 .. n + 1 /\ Listed(running'[i].tasks, x)
    BY <1>1, <2>2
  <2>3. n + 1 \in 1 .. n + 1
    BY <1>1
  <2> QED BY <1>1, <2>1, <2>2, <2>3 DEF Runs
<1>4. ASSUME NEW x \in Tasks PROVE ~Fills(x)'
  BY <1>2, EmptyHoldsNone DEF Fills
<1>5. free' # << >> => Distinct(free'[1].tasks)
  BY <1>2, EmptyHoldsNone
<1>6. ASSUME NEW i \in 1 .. n + 1 PROVE Distinct(running'[i].tasks)
  BY <1>1 DEF Apart
<1>7. ASSUME NEW i \in 1 .. n + 1, NEW j \in 1 .. n + 1, NEW x \in Tasks,
             Listed(running'[i].tasks, x), Listed(running'[j].tasks, x)
      PROVE  i = j
  <2>1. CASE i \in 1 .. n /\ j \in 1 .. n
    BY <1>1, <1>7, <2>1 DEF Apart
  <2>2. CASE i \in 1 .. n /\ j = n + 1
    BY <1>1, <1>7, <2>2 DEF Runs
  <2>3. CASE j \in 1 .. n /\ i = n + 1
    BY <1>1, <1>7, <2>3 DEF Runs
  <2> QED BY <1>1, <2>1, <2>2, <2>3
<1>8. RunsOnce'
  BY <1>1, <1>6, <1>7 DEF RunsOnce
<1> QED BY <1>3, <1>4, <1>5, <1>8

\* An answered task is in no place any more.
LEMMA AnswerPlaces ==
  ASSUME Types, Shape, Looked, Apart, Answer, Head(look).ok
  PROVE  /\ \A x \in Tasks : Runs(x)' <=> Runs(x) /\ x # Head(look).task
         /\ Runs(Head(look).task)
         /\ \A x \in Tasks : (Pends(x)' <=> Pends(x)) /\ (Fills(x)' <=> Fills(x))
         /\ RunsOnce'
<1> DEFINE t == Head(look).task
           n == Len(running)
<1>1. /\ t \in Tasks /\ running # << >> /\ Listed(running[1].tasks, t)
      /\ running' \in Seq(Batch) /\ Len(running') = n
      /\ \A i \in 2 .. n : running'[i] = running[i]
      /\ running'[1].tasks = Unlinked(running[1].tasks, t)
      /\ UNCHANGED <<pending, free>>
  BY AnswerEffect
<1>2. /\ n \in Nat /\ DOMAIN running = 1 .. n /\ DOMAIN running' = 1 .. n /\ 1 \in 1 .. n
  BY <1>1 DEF Types
<1>3. Distinct(running[1].tasks) /\ running[1].tasks \in Seq(Tasks)
  <2>1. running \in Seq(Batch) /\ 1 \in DOMAIN running
    BY <1>2 DEF Types
  <2> QED BY <1>2, <2>1, BatchFields DEF Apart
<1>4. /\ \A x : Listed(running'[1].tasks, x) <=> Listed(running[1].tasks, x) /\ x # t
      /\ Distinct(running'[1].tasks)
  BY <1>1, <1>3, UnlinkedListed
<1> HIDE DEF n, t
<1>5. ASSUME NEW i \in 1 .. n, NEW x \in Tasks
      PROVE  /\ Listed(running'[i].tasks, x) <=> Listed(running[i].tasks, x) /\ x # t
             /\ Distinct(running'[i].tasks)
  <2>1. CASE i = 1
    BY <1>4, <2>1
  <2>2. CASE i # 1
    <3>1. i \in 2 .. n
      BY <1>2, <2>2
    <3>2. running'[i] = running[i]
      BY <1>1, <3>1
    <3>3. ~Listed(running[i].tasks, t)
      BY <1>1, <1>2, <2>2 DEF Apart
    <3> QED BY <1>2, <3>2, <3>3 DEF Apart
  <2> QED BY <2>1, <2>2
<1>6. \A x \in Tasks : Runs(x)' <=> Runs(x) /\ x # t
  BY <1>2, <1>5 DEF Runs
<1>7. Runs(t)
  BY <1>1, <1>2 DEF Runs
<1>8. \A x \in Tasks : (Pends(x)' <=> Pends(x)) /\ (Fills(x)' <=> Fills(x))
  BY <1>1 DEF Pends, Fills
<1>9. RunsOnce'
  <2>1. \A i \in 1 .. n : Distinct(running'[i].tasks)
    BY <1>1, <1>5
  <2>2. ASSUME NEW i \in 1 .. n, NEW j \in 1 .. n, NEW x \in Tasks,
               Listed(running'[i].tasks, x), Listed(running'[j].tasks, x)
        PROVE  i = j
    <3>1. Listed(running[i].tasks, x) /\ Listed(running[j].tasks, x)
      BY <1>5, <2>2
    <3> QED BY <1>2, <3>1 DEF Apart
  <2> QED BY <1>2, <2>1, <2>2 DEF RunsOnce
<1> QED BY <1>6, <1>7, <1>8, <1>9 DEF t

\* Recycling moves no task.
LEMMA RecyclePlaces ==
  ASSUME Types, Shape, Looked, Apart, Recycle, Answered(Head(running))
  PROVE  /\ \A x \in Tasks : /\ Runs(x)' <=> Runs(x)
                             /\ Pends(x)' <=> Pends(x)
                             /\ Fills(x)' <=> Fills(x)
         /\ free' # << >> => Distinct(free'[1].tasks)
         /\ RunsOnce'
<1> DEFINE n == Len(running)
<1>1. /\ running # << >> /\ running[1].tasks = << >>
      /\ running' \in Seq(Batch) /\ Len(running') = n - 1
      /\ \A i \in 1 .. n - 1 : running'[i] = running[i + 1]
      /\ \A i \in 1 .. Len(free) : free'[i] = free[i]
      /\ free' \in Seq(Batch) /\ Len(free') = Len(free) + 1
      /\ free'[Len(free) + 1] = Empty
      /\ pending' = pending
  BY RecycleEffect
<1>2. /\ n \in Nat /\ DOMAIN running = 1 .. n /\ DOMAIN running' = 1 .. n - 1
      /\ 1 \in 1 .. n
  BY <1>1 DEF Types
<1>3. IF free = << >> THEN free'[1] = Empty ELSE free'[1] = free[1]
  <2>1. CASE free = << >>
    BY <1>1, <2>1
  <2>2. CASE free # << >>
    <3>1. 1 \in 1 .. Len(free)
      BY <2>2 DEF Types
    <3> QED BY <1>1, <2>2, <3>1
  <2> QED BY <2>1, <2>2
<1>4. free' # << >>
  <2>1. Len(free') > 0
    BY <1>1 DEF Types
  <2> QED BY <2>1
<1> HIDE DEF n
<1>5. ASSUME NEW x \in Tasks, Runs(x) PROVE Runs(x)'
  <2>1. PICK i \in 1 .. n : Listed(running[i].tasks, x)
    BY <1>2, <1>5 DEF Runs
  <2>2. i # 1
    BY <1>1, <2>1 DEF Listed
  <2>3. i - 1 \in 1 .. n - 1 /\ (i - 1) + 1 = i
    BY <1>2, <2>2
  <2>4. running'[i - 1] = running[i]
    BY <1>1, <2>3
  <2> QED BY <1>2, <2>1, <2>3, <2>4 DEF Runs
<1>6. ASSUME NEW x \in Tasks, Runs(x)' PROVE Runs(x)
  <2>1. PICK i \in 1 .. n - 1 : Listed(running'[i].tasks, x)
    BY <1>2, <1>6 DEF Runs
  <2>2. i + 1 \in 1 .. n /\ running'[i] = running[i + 1]
    BY <1>1, <1>2
  <2> QED BY <1>2, <2>1, <2>2 DEF Runs
<1>7. \A x \in Tasks : (Pends(x)' <=> Pends(x)) /\ (Fills(x)' <=> Fills(x))
  BY <1>1, <1>3, <1>4, EmptyHoldsNone DEF Pends, Fills
<1>8. Distinct(free'[1].tasks)
  BY <1>3, EmptyHoldsNone DEF Apart
<1>9. RunsOnce'
  <2>1. ASSUME NEW i \in 1 .. n - 1
        PROVE  i + 1 \in 1 .. n /\ running'[i] = running[i + 1]
    BY <1>1, <1>2
  <2>2. \A i \in 1 .. n - 1 : Distinct(running'[i].tasks)
    BY <1>2, <2>1 DEF Apart
  <2>3. ASSUME NEW i \in 1 .. n - 1, NEW j \in 1 .. n - 1, NEW x \in Tasks,
               Listed(running'[i].tasks, x), Listed(running'[j].tasks, x)
        PROVE  i = j
    <3>1. i + 1 = j + 1
      BY <1>2, <2>1, <2>3 DEF Apart
    <3> QED BY <1>2, <3>1
  <2> QED BY <1>2, <2>2, <2>3 DEF RunsOnce
<1> QED BY <1>5, <1>6, <1>7, <1>8, <1>9

\* The task at the head of the pending list goes to the batch that is filled, and
\* with it to the running batches when the batch is full.
LEMMA FillPlaces ==
  ASSUME Types, Shape, Looked, Apart, FillTask
  PROVE  LET h == Head(pending)
         IN  /\ h \in Tasks /\ Pends(h) /\ Distinct(pending')
             /\ \A x \in Tasks : Pends(x)' <=> Pends(x) /\ x # h
             /\ IF Full(Filled)
                THEN \A x \in Tasks : /\ Runs(x)' <=> Runs(x) \/ Fills(x) \/ x = h
                                      /\ ~Fills(x)'
                ELSE \A x \in Tasks : /\ Runs(x)' <=> Runs(x)
                                      /\ Fills(x)' <=> Fills(x) \/ x = h
             /\ free' # << >> => Distinct(free'[1].tasks)
             /\ RunsOnce'
<1> DEFINE h == Head(pending)
<1>1. /\ pending # << >> /\ pending \in Seq(Tasks) /\ pending' = Tail(pending)
      /\ free # << >> /\ free \in Seq(Batch) /\ 1 \in DOMAIN free
      /\ Filled \in Batch /\ Filled.tasks = Append(free[1].tasks, h)
      /\ IF Full(Filled) THEN SendBatch(Filled)
         ELSE free' = << Filled >> \o Tail(free) /\ running' = running
  <2>1. free \in Seq(Batch) /\ pending \in Seq(Tasks)
    BY DEF Types
  <2> HIDE DEF h
  <2>2. free # << >> => 1 \in DOMAIN free
    BY <2>1
  <2> QED BY <2>1, <2>2, FillEffect DEF h
<1>2. /\ h \in Tasks /\ Listed(pending, h)
      /\ \A x : Listed(Tail(pending), x) => Listed(pending, x)
      /\ \A x : Listed(pending, x) => x = h \/ Listed(Tail(pending), x)
      /\ Distinct(Tail(pending)) /\ ~Listed(Tail(pending), h)
  <2>1. Distinct(pending)
    BY DEF Apart
  <2> QED BY <1>1, <2>1, TailListed
<1>3. \A x \in Tasks : Pends(x)' <=> Pends(x) /\ x # h
  BY <1>1, <1>2 DEF Pends
<1>4. free[1].tasks \in Seq(Tasks) /\ Distinct(free[1].tasks)
  BY <1>1, BatchFields DEF Apart
<1>5. Pends(h) /\ ~Fills(h) /\ ~Runs(h)
  BY <1>2 DEF Apart, Pends
<1> HIDE DEF h
<1>6. /\ \A x : Listed(Filled.tasks, x) <=> Listed(free[1].tasks, x) \/ x = h
      /\ Distinct(Filled.tasks)
  <2>1. ~Listed(free[1].tasks, h)
    BY <1>1, <1>5 DEF Fills
  <2> QED BY <1>1, <1>2, <1>4, <2>1, AppendListed
<1>7. \A x \in Tasks : Listed(Filled.tasks, x) <=> Fills(x) \/ x = h
  BY <1>1, <1>6 DEF Fills
<1>8. CASE Full(Filled)
  <2>1. \A x \in Tasks : Listed(Filled.tasks, x) => ~Runs(x)
    BY <1>5, <1>7 DEF Apart
  <2>2. /\ \A x \in Tasks : Runs(x)' <=> Runs(x) \/ Listed(Filled.tasks, x)
        /\ \A x \in Tasks : ~Fills(x)'
        /\ free' # << >> => Distinct(free'[1].tasks)
        /\ RunsOnce'
    BY <1>1, <1>6, <1>8, <2>1, SendPlaces
  <2> QED BY <1>1, <1>2, <1>3, <1>5, <1>7, <1>8, <2>2 DEF h
<1>9. CASE ~Full(Filled)
  <2>1. free' # << >> /\ free'[1] = Filled
    BY <1>1, <1>9
  <2>2. \A x \in Tasks : (Fills(x)' <=> Fills(x) \/ x = h) /\ (Runs(x)' <=> Runs(x))
    BY <1>1, <1>7, <1>9, <2>1 DEF Fills, Runs
  <2>3. RunsOnce'
    BY <1>1, <1>9 DEF RunsOnce, Apart
  <2> QED BY <1>1, <1>2, <1>3, <1>5, <1>6, <1>9, <2>1, <2>2, <2>3 DEF h
<1> QED BY <1>8, <1>9

\* Flushing sends the batch that is partly filled.
LEMMA FlushPlaces ==
  ASSUME Types, Shape, Apart, Flush, ToFlush(Head(free))
  PROVE  /\ free # << >> /\ free[1] \in Batch /\ SendBatch(free[1])
         /\ \A x \in Tasks : /\ Runs(x)' <=> Runs(x) \/ Fills(x)
                             /\ ~Fills(x)' /\ (Pends(x)' <=> Pends(x))
         /\ free' # << >> => Distinct(free'[1].tasks)
         /\ RunsOnce'
<1>1. /\ free # << >> /\ free \in Seq(Batch) /\ 1 \in DOMAIN free
      /\ Head(free) = free[1] /\ free[1] \in Batch
      /\ SendBatch(free[1]) /\ pending' = pending
  BY DEF Flush, Types
<1>2. \A x \in Tasks : Listed(free[1].tasks, x) <=> Fills(x)
  BY <1>1 DEF Fills
<1>3. Distinct(free[1].tasks) /\ \A x \in Tasks : Listed(free[1].tasks, x) => ~Runs(x)
  BY <1>1, <1>2 DEF Apart
<1>4. /\ \A x \in Tasks : Runs(x)' <=> Runs(x) \/ Listed(free[1].tasks, x)
      /\ \A x \in Tasks : ~Fills(x)'
      /\ free' # << >> => Distinct(free'[1].tasks)
      /\ RunsOnce'
  BY <1>1, <1>3, SendPlaces
<1>5. \A x \in Tasks : Pends(x)' <=> Pends(x)
  BY <1>1 DEF Pends
<1> QED BY <1>1, <1>2, <1>4, <1>5

\* The steps of the thread that move no task and change no batch.
QuietStep ==
    \/ Poll \/ PollError \/ Count \/ FinishFull
    \/ Answer /\ ~Head(look).ok
    \/ Recycle /\ ~Answered(Head(running))
    \/ Flush /\ ~ToFlush(Head(free))

MovingStep ==
    \/ Answer /\ Head(look).ok
    \/ Recycle /\ Answered(Head(running))
    \/ Flush /\ ToFlush(Head(free))
    \/ FillTask

LEMMA ThreadSteps == TimerStep => QuietStep \/ MovingStep \/ AddBatch
  BY DEF TimerStep, QuietStep, MovingStep

LEMMA QuietTouches ==
  ASSUME QuietStep
  PROVE  UNCHANGED <<pc, owed, current, stray, switches, pending, running, free, hw>>
  BY DEF QuietStep, Poll, PollError, Count, FinishFull, Answer, Recycle, Flush, Rest,
         userVars, waitVars, batchVars, hwVars

\* The thread wakes sessions, and does nothing else to them.
LEMMA ThreadWakes ==
  ASSUME Types, TimerStep
  PROVE  /\ UNCHANGED <<current, stray, switches>>
         /\ \A s \in Sessions : pc'[s] = pc[s] \/ (pc[s] = "asleep" /\ pc'[s] = "woken")
         /\ \A t \in Tasks : (Sending(t)' <=> Sending(t)) /\ (Waited(t)' <=> Waited(t))
<1>1. UNCHANGED <<current, stray, switches>>
  BY DEF TimerStep, Poll, PollError, Answer, Recycle, Count, AddBatch, FillTask, Flush,
         FinishFull, userVars, waitVars
<1>2. \A s \in Sessions : pc'[s] = pc[s] \/ (pc[s] = "asleep" /\ pc'[s] = "woken")
  BY DEF TimerStep, Poll, PollError, Answer, Recycle, Count, AddBatch, FillTask, Flush,
         FinishFull, userVars, Types
<1>3. ASSUME NEW t \in Tasks
      PROVE  (Sending(t)' <=> Sending(t)) /\ (Waited(t)' <=> Waited(t))
  <2>1. Owner[t] \in Sessions
    BY ServerAssumption
  <2> QED BY <1>1, <1>2, <2>1 DEF Sending, Waited
<1> QED BY <1>1, <1>2, <1>3

\* The thread moves the tasks that are linked, and doubles none.
LEMMA ApartByThread ==
  ASSUME Types, Shape, Looked, Apart, TimerStep
  PROVE  Apart'
<1> DEFINE FreeOnce == free # << >> => Distinct(free[1].tasks)
           OnePlace == \A x \in Tasks :
                         /\ Sending(x) => ~Pends(x) /\ ~Runs(x) /\ ~Fills(x)
                         /\ Pends(x) => ~Runs(x) /\ ~Fills(x)
                         /\ Runs(x) => ~Fills(x)
<1>0. \A x \in Tasks : Sending(x)' <=> Sending(x)
  BY ThreadWakes
<1>1. Distinct(pending) /\ RunsOnce /\ FreeOnce /\ OnePlace
  BY DEF Apart, RunsOnce
<1>2. SUFFICES Distinct(pending)' /\ RunsOnce' /\ FreeOnce' /\ OnePlace'
  BY DEF Apart, RunsOnce
<1>3. CASE QuietStep
  BY <1>0, <1>1, <1>3, QuietTouches DEF RunsOnce, Pends, Runs, Fills
<1>4. CASE AddBatch
  <2>1. free' = << Empty >> /\ free = << >> /\ UNCHANGED <<pending, running>>
    BY <1>4 DEF AddBatch
  <2>2. /\ \A x \in Tasks : ~Fills(x)' /\ (Runs(x)' <=> Runs(x)) /\ (Pends(x)' <=> Pends(x))
        /\ FreeOnce'
    BY <2>1, EmptyHoldsNone DEF Fills, Runs, Pends
  <2> QED BY <1>0, <1>1, <2>1, <2>2 DEF RunsOnce
<1>5. CASE Answer /\ Head(look).ok
  <2>1. /\ \A x \in Tasks : Runs(x)' <=> Runs(x) /\ x # Head(look).task
        /\ \A x \in Tasks : (Pends(x)' <=> Pends(x)) /\ (Fills(x)' <=> Fills(x))
        /\ RunsOnce'
    BY <1>5, AnswerPlaces
  <2>2. UNCHANGED <<pending, free>>
    BY <1>5, AnswerEffect
  <2> QED BY <1>0, <1>1, <2>1, <2>2
<1>6. CASE Recycle /\ Answered(Head(running))
  <2>1. /\ \A x \in Tasks : /\ Runs(x)' <=> Runs(x)
                            /\ Pends(x)' <=> Pends(x)
                            /\ Fills(x)' <=> Fills(x)
        /\ FreeOnce' /\ RunsOnce'
    BY <1>6, RecyclePlaces
  <2>2. UNCHANGED pending
    BY <1>6, RecycleEffect
  <2> QED BY <1>0, <1>1, <2>1, <2>2
<1>7. CASE Flush /\ ToFlush(Head(free))
  <2>1. UNCHANGED pending
    BY <1>7 DEF Flush
  <2> QED BY <1>0, <1>1, <1>7, <2>1, FlushPlaces
<1>8. CASE FillTask
  BY <1>0, <1>1, <1>8, FillPlaces
<1> QED BY <1>3, <1>4, <1>5, <1>6, <1>7, <1>8, ThreadSteps DEF MovingStep

\* The thread answers what is owed, and hands to the hardware what it sends.
LEMMA OwingByThread ==
  ASSUME Types, Shape, Looked, Apart, Owing, Handed, TimerStep
  PROVE  Owing' /\ Handed'
<1>0. /\ UNCHANGED <<current, stray>>
      /\ \A s \in Sessions : pc'[s] = pc[s] \/ (pc[s] = "asleep" /\ pc'[s] = "woken")
      /\ \A t \in Tasks : (Sending(t)' <=> Sending(t)) /\ (Waited(t)' <=> Waited(t))
      /\ \A t \in Tasks : Owner[t] \in Sessions
  BY ThreadWakes, ServerAssumption
<1>1. ASSUME \A x \in Tasks : (Placed(x)' <=> Placed(x)), UNCHANGED <<pc, owed>>
      PROVE  Owing'
  BY <1>0, <1>1 DEF Owing
<1>2. ASSUME \A x \in Tasks : /\ Runs(x)' <=> Runs(x)
                              /\ Pends(x)' <=> Pends(x)
                              /\ Fills(x)' <=> Fills(x),
             UNCHANGED <<pc, owed, hw>>
      PROVE  Owing' /\ Handed'
  <2>1. \A x \in Tasks : Placed(x)' <=> Placed(x)
    BY <1>0, <1>2 DEF Placed
  <2> QED BY <1>0, <1>1, <1>2, <2>1 DEF Handed
<1>3. CASE QuietStep
  <2>1. \A x \in Tasks : /\ Runs(x)' <=> Runs(x)
                         /\ Pends(x)' <=> Pends(x)
                         /\ Fills(x)' <=> Fills(x)
    BY <1>3, QuietTouches DEF Pends, Runs, Fills
  <2> QED BY <1>2, <1>3, <2>1, QuietTouches
<1>4. CASE AddBatch
  <2>1. free' = << Empty >> /\ free = << >> /\ UNCHANGED <<pc, owed, pending, running, hw>>
    BY <1>4 DEF AddBatch, userVars, hwVars
  <2>2. \A x \in Tasks : /\ Runs(x)' <=> Runs(x)
                         /\ Pends(x)' <=> Pends(x)
                         /\ Fills(x)' <=> Fills(x)
    BY <2>1, EmptyHoldsNone DEF Pends, Runs, Fills
  <2> QED BY <1>2, <2>1, <2>2
<1>5. CASE Answer /\ Head(look).ok
  <2>0. PICK t \in Tasks : t = Head(look).task
    BY <1>5, AnswerEffect
  <2>1. /\ \A x \in Tasks : Runs(x)' <=> Runs(x) /\ x # t
        /\ Runs(t) /\ \A x \in Tasks : (Pends(x)' <=> Pends(x)) /\ (Fills(x)' <=> Fills(x))
    BY <1>5, <2>0, AnswerPlaces
  <2>2. /\ t \in Tasks /\ hw[t] = "done" /\ hw' = hw
        /\ owed' = [owed EXCEPT ![t] = @ - 1]
        /\ pc' = [pc EXCEPT ![Owner[t]] = IF @ = "asleep" THEN "woken" ELSE @]
    BY <1>5, <2>0, AnswerEffect
  <2>3. ~Sending(t) /\ ~Pends(t) /\ ~Fills(t)
    BY <2>1, <2>2 DEF Apart
  <2>4. owed \in [Tasks -> Nat] /\ owed[t] = 1
    BY <2>1, <2>2 DEF Types, Owing, Placed
  <2>5. ~Placed(t)' /\ owed'[t] = 0
    <3>1. ~Runs(t)' /\ ~Pends(t)' /\ ~Fills(t)' /\ ~Sending(t)'
      BY <1>0, <2>1, <2>2, <2>3
    <3>2. owed'[t] = 0
      BY <2>2, <2>4
    <3> QED BY <3>1, <3>2 DEF Placed
  <2>6. ASSUME NEW x \in Tasks, x # t
        PROVE  owed'[x] = owed[x] /\ (Placed(x)' <=> Placed(x))
    BY <1>0, <2>1, <2>2, <2>4, <2>6 DEF Placed
  <2>7. ASSUME NEW x \in Tasks, Placed(x)'
        PROVE  /\ pc'[Owner[x]] # "off"
               /\ Owner[x] \notin stray' =>
                    current'[Owner[x]] = x /\ pc'[Owner[x]] \in {"sending", "sent", "asleep"}
    <3>1. x # t
      BY <2>5, <2>7, Zenon
    <3>5. Placed(x)
      BY <2>6, <2>7, <3>1
    <3>2. /\ pc[Owner[x]] # "off"
          /\ Owner[x] \notin stray =>
               current[Owner[x]] = x /\ pc[Owner[x]] \in {"sending", "sent", "asleep"}
      BY <3>5 DEF Owing
    <3>3. CASE Owner[x] = Owner[t]
      <4>1. Placed(t)
        BY <2>1 DEF Placed
      <4>2. Owner[t] \notin stray => current[Owner[t]] = t
        BY <2>2, <4>1 DEF Owing
      <4>3. Owner[x] \in stray
        BY <3>1, <3>2, <3>3, <4>2
      <4> QED BY <1>0, <3>2, <4>3
    <3>4. CASE Owner[x] # Owner[t]
      <4>1. pc'[Owner[x]] = pc[Owner[x]]
        BY <1>0, <2>2, <3>4 DEF Types
      <4> QED BY <1>0, <3>2, <4>1
    <3> QED BY <3>3, <3>4
  <2>8. Owing'
    <3>1. ASSUME NEW x \in Tasks
          PROVE  owed'[x] = IF Placed(x)' THEN 1 ELSE 0
      <4>1. owed[x] = IF Placed(x) THEN 1 ELSE 0
        BY DEF Owing
      <4>2. CASE x = t
        BY <2>5, <4>2
      <4>3. CASE x # t
        BY <2>6, <4>1, <4>3
      <4> QED BY <4>2, <4>3
    <3>2. \A s \in Sessions : Owner[current'[s]] = s
      BY <1>0 DEF Owing
    <3> QED BY <2>7, <3>1, <3>2 DEF Owing
  <2>9. Handed'
    <3>1. ASSUME NEW x \in Tasks
          PROVE  /\ Runs(x)' => hw'[x] # "none"
                 /\ (Sending(x) \/ Pends(x) \/ Fills(x))' => hw'[x] = "none"
                 /\ ~Placed(x)' => hw'[x] \in {"none", "done"}
                 /\ Waited(x)' /\ ~Placed(x)' => hw'[x] = "done"
      <4>1. CASE x = t
        BY <1>0, <2>1, <2>2, <2>3, <4>1
      <4>2. CASE x # t
        BY <1>0, <2>1, <2>2, <2>6, <4>2 DEF Handed
      <4> QED BY <4>1, <4>2
    <3> QED BY <3>1 DEF Handed
  <2> QED BY <2>8, <2>9
<1>6. CASE Recycle /\ Answered(Head(running))
  <2>1. \A x \in Tasks : /\ Runs(x)' <=> Runs(x)
                         /\ Pends(x)' <=> Pends(x)
                         /\ Fills(x)' <=> Fills(x)
    BY <1>6, RecyclePlaces
  <2>2. UNCHANGED <<pc, owed, hw>>
    BY <1>6, RecycleEffect DEF userVars, hwVars
  <2> QED BY <1>2, <2>1, <2>2
<1>7. CASE Flush /\ ToFlush(Head(free))
  <2>1. UNCHANGED <<pc, owed>>
    BY <1>7 DEF Flush, userVars
  <2>2. /\ free # << >> /\ free[1] \in Batch /\ SendBatch(free[1])
        /\ \A x \in Tasks : /\ Runs(x)' <=> Runs(x) \/ Fills(x)
                            /\ ~Fills(x)' /\ (Pends(x)' <=> Pends(x))
    BY <1>7, FlushPlaces
  <2>3. /\ \A x \in Tasks : Fills(x) => hw'[x] # "none"
        /\ \A x \in Tasks : ~Fills(x) => hw'[x] = hw[x]
    BY <2>2, SendEffect DEF Fills
  <2>4. \A x \in Tasks : Placed(x)' <=> Placed(x)
    BY <1>0, <2>2 DEF Placed
  <2>5. Owing'
    BY <1>1, <2>1, <2>4
  <2>6. ASSUME NEW x \in Tasks
        PROVE  /\ Runs(x)' => hw'[x] # "none"
               /\ (Sending(x) \/ Pends(x) \/ Fills(x))' => hw'[x] = "none"
               /\ ~Placed(x)' => hw'[x] \in {"none", "done"}
               /\ Waited(x)' /\ ~Placed(x)' => hw'[x] = "done"
    <3>1. CASE Fills(x)
      <4>1. ~Sending(x) /\ ~Pends(x) /\ Placed(x)
        BY <3>1 DEF Apart, Placed
      <4> QED BY <1>0, <2>2, <2>3, <2>4, <3>1, <4>1
    <3>2. CASE ~Fills(x)
      BY <1>0, <2>2, <2>3, <2>4, <3>2 DEF Handed
    <3> QED BY <3>1, <3>2
  <2> QED BY <2>5, <2>6 DEF Handed
<1>8. CASE FillTask
  <2> DEFINE h == Head(pending)
  <2>1. /\ h \in Tasks /\ Pends(h)
        /\ \A x \in Tasks : Pends(x)' <=> Pends(x) /\ x # h
        /\ IF Full(Filled)
           THEN \A x \in Tasks : /\ Runs(x)' <=> Runs(x) \/ Fills(x) \/ x = h
                                 /\ ~Fills(x)'
           ELSE \A x \in Tasks : /\ Runs(x)' <=> Runs(x)
                                 /\ Fills(x)' <=> Fills(x) \/ x = h
    BY <1>8, FillPlaces
  <2>2. UNCHANGED <<pc, owed>>
    BY <1>8 DEF FillTask, userVars
  <2> HIDE DEF h
  <2>3. \A x \in Tasks : Placed(x)' <=> Placed(x)
    BY <1>0, <2>1 DEF Placed
  <2>4. Owing'
    BY <1>1, <2>2, <2>3
  <2>5. ASSUME Full(Filled)
        PROVE  /\ \A x \in Tasks : Fills(x) \/ x = h => hw'[x] # "none"
               /\ \A x \in Tasks : ~Fills(x) /\ x # h => hw'[x] = hw[x]
    <3>1. /\ free # << >> /\ free \in Seq(Batch) /\ 1 \in DOMAIN free /\ Filled \in Batch
          /\ Filled.tasks = Append(free[1].tasks, h) /\ SendBatch(Filled)
      BY <1>8, <2>5, FillEffect DEF Types, h
    <3>2. free[1].tasks \in Seq(Tasks)
      BY <3>1, BatchFields
    <3>3. \A x \in Tasks : Listed(Filled.tasks, x) <=> Fills(x) \/ x = h
      BY <2>1, <3>1, <3>2, AppendListed DEF Fills
    <3> QED BY <3>1, <3>3, SendEffect
  <2>6. ~Full(Filled) => hw' = hw
    BY <1>8, FillEffect DEF hwVars
  <2>7. ASSUME NEW x \in Tasks
        PROVE  /\ Runs(x)' => hw'[x] # "none"
               /\ (Sending(x) \/ Pends(x) \/ Fills(x))' => hw'[x] = "none"
               /\ ~Placed(x)' => hw'[x] \in {"none", "done"}
               /\ Waited(x)' /\ ~Placed(x)' => hw'[x] = "done"
    <3>1. /\ Runs(x) => hw[x] # "none"
          /\ Sending(x) \/ Pends(x) \/ Fills(x) => hw[x] = "none"
          /\ ~Placed(x) => hw[x] \in {"none", "done"}
          /\ Waited(x) /\ ~Placed(x) => hw[x] = "done"
      BY DEF Handed
    <3>2. CASE ~Full(Filled)
      BY <1>0, <2>1, <2>3, <2>6, <3>1, <3>2
    <3>3. CASE Full(Filled) /\ (Fills(x) \/ x = h)
      <4>1. ~Sending(x) /\ Placed(x) /\ (Pends(x) => x = h)
        BY <2>1, <3>3 DEF Apart, Placed
      <4> QED BY <1>0, <2>1, <2>3, <2>5, <3>3, <4>1
    <3>4. CASE Full(Filled) /\ ~(Fills(x) \/ x = h)
      BY <1>0, <2>1, <2>3, <2>5, <3>1, <3>4
    <3> QED BY <3>2, <3>3, <3>4
  <2> QED BY <2>4, <2>7 DEF Handed
<1> QED BY <1>3, <1>4, <1>5, <1>6, <1>7, <1>8, ThreadSteps DEF MovingStep

-----------------------------------------------------------------------------
(* The steps of the thread: the batches, and what it looks at *)

\* What the poll of a batch answers: each of its tasks, once.
LEMMA AnswersLooked ==
  ASSUME Types, NEW b \in Batch
  PROVE  /\ Answers(b) \in Seq([task : Tasks, ok : BOOLEAN])
         /\ \A k \in DOMAIN Answers(b) :
              /\ Listed(b.tasks, Answers(b)[k].task)
              /\ Answers(b)[k].ok => hw[Answers(b)[k].task] = "done"
         /\ Distinct(b.tasks) =>
              \A j, k \in DOMAIN Answers(b) :
                Answers(b)[j].task = Answers(b)[k].task => j = k
<1> DEFINE q == b.tasks
           n == Len(q)
<1>1. q \in Seq(Tasks) /\ n \in Nat /\ DOMAIN q = 1 .. n
  BY DEF Batch
<1>2. \A k \in 1 .. n : q[k] \in Tasks
  BY <1>1
<1>3. Answers(b) = [k \in 1 .. n |-> [task |-> q[k], ok |-> hw[q[k]] = "done"]]
  BY <1>1 DEF Answers
<1> HIDE DEF q, n
<1>4. \A k \in 1 .. n : Answers(b)[k] \in [task : Tasks, ok : BOOLEAN]
  BY <1>2, <1>3
<1>5. Answers(b) \in [1 .. n -> [task : Tasks, ok : BOOLEAN]]
  BY <1>3, <1>4
<1>6. Answers(b) \in Seq([task : Tasks, ok : BOOLEAN])
  <2> DEFINE L == [task : Tasks, ok : BOOLEAN]
             a == Answers(b)
  <2>1. a \in [1 .. n -> L]
    BY <1>5
  <2> HIDE DEF L, a
  <2>2. a \in Seq(L)
    BY <1>1, <2>1
  <2> QED BY <2>2 DEF L, a
<1>7. ASSUME NEW k \in 1 .. n
      PROVE  /\ Answers(b)[k].task = q[k]
             /\ Answers(b)[k].ok => hw[q[k]] = "done"
  <2> DEFINE finished == hw[q[k]] = "done"
  <2>1. Answers(b)[k] = [task |-> q[k], ok |-> finished]
    BY <1>3
  <2> HIDE DEF finished
  <2>2. Answers(b)[k].task = q[k] /\ Answers(b)[k].ok = finished
    BY <2>1
  <2>3. finished => hw[q[k]] = "done"
    BY DEF finished
  <2> QED BY <2>2, <2>3, Zenon
<1>8. DOMAIN Answers(b) = 1 .. n
  BY <1>3
<1>9. \A k \in 1 .. n : Listed(q, q[k])
  BY <1>1 DEF Listed
<1>10. Distinct(q) =>
         \A j, k \in 1 .. n : Answers(b)[j].task = Answers(b)[k].task => j = k
  BY <1>1, <1>7 DEF Distinct
<1> QED BY <1>6, <1>7, <1>8, <1>9, <1>10 DEF q

\* The steps of the thread keep the types.
LEMMA TypesByThread ==
  ASSUME Types, Shape, Looked, Apart, Owing, TimerStep
  PROVE  Types'
<1> DEFINE L == [task : Tasks, ok : BOOLEAN]
<1>1. CASE Poll
  <2>1. CASE running = << >>
    BY <1>1, <2>1 DEF Poll, Types, userVars, waitVars, batchVars, hwVars
  <2>2. CASE running # << >>
    <3>1. Head(running) \in Batch
      BY <2>2 DEF Types
    <3>2. look' \in Seq(L)
      BY <1>1, <2>2, <3>1, AnswersLooked DEF Poll
    <3> HIDE DEF L
    <3>3. /\ tpc' \in {"rest", "poll", "answer", "count", "fill"}
          /\ UNCHANGED <<userVars, pending, timer, batchVars, left, hwVars>>
      BY <1>1, <2>2 DEF Poll
    <3> QED BY <3>2, <3>3 DEF Types, L, userVars, waitVars, batchVars, hwVars
  <2> QED BY <2>1, <2>2
<1>2. CASE PollError
  BY <1>2 DEF PollError, Types, userVars, waitVars, batchVars
<1>3. CASE Count
  BY <1>3 DEF Count, Types, userVars, waitVars, batchVars, hwVars
<1>4. CASE FinishFull
  BY <1>4 DEF FinishFull, Rest, Types, userVars, waitVars, batchVars, hwVars
<1>5. CASE AddBatch
  <2>1. << Empty >> \in Seq(Batch)
    BY ServerAssumption DEF Empty, Batch
  <2> QED BY <1>5, <2>1 DEF AddBatch, Types, userVars, waitVars, threadVars, hwVars
<1>6. CASE Answer
  <2>1. look # << >> /\ look' = Tail(look) /\ look \in Seq(L)
    BY <1>6 DEF Answer, Types
  <2>2. look' \in Seq(L)
    <3> HIDE DEF L
    <3> QED BY <2>1
  <2>3. CASE Head(look).ok
    <3> DEFINE t == Head(look).task
    <3>1. /\ t \in Tasks /\ running' \in Seq(Batch)
          /\ owed' = [owed EXCEPT ![t] = @ - 1]
          /\ pc' = [pc EXCEPT ![Owner[t]] = IF @ = "asleep" THEN "woken" ELSE @]
          /\ UNCHANGED <<waitVars, switches, pending, timer, free, tpc, left, hw, faulty>>
      BY <1>6, <2>3, AnswerEffect
    <3>2. owed[t] = 1 /\ Owner[t] \in Sessions
      BY <1>6, <2>3, <3>1, AnswerPlaces, ServerAssumption DEF Owing, Placed
    <3> HIDE DEF t
    <3> QED BY <2>2, <3>1, <3>2 DEF Types, waitVars
  <2>4. CASE ~Head(look).ok
    <3>1. UNCHANGED <<pc, owed, waitVars, switches, running, pending, timer, free, tpc, left, hw, faulty>>
      BY <1>6, <2>4 DEF Answer, hwVars
    <3> QED BY <2>2, <3>1 DEF Types, waitVars
  <2> QED BY <2>3, <2>4
<1>7. CASE Recycle
  <2>1. CASE Answered(Head(running))
    <3>1. /\ running' \in Seq(Batch) /\ free' \in Seq(Batch) /\ tpc' = "poll"
          /\ UNCHANGED <<userVars, pending, timer, look, left, hwVars>>
      BY <1>7, <2>1, RecycleEffect
    <3> QED BY <3>1 DEF Types, userVars, waitVars, hwVars
  <2>2. CASE ~Answered(Head(running))
    BY <1>7, <2>2 DEF Recycle, Types, userVars, waitVars, batchVars, hwVars
  <2> QED BY <2>1, <2>2
<1>8. CASE Flush
  <2>1. /\ tpc' = "rest" /\ look' = << >> /\ left' = 0
        /\ UNCHANGED <<userVars, pending, timer>>
    BY <1>8 DEF Flush, Rest
  <2>2. CASE ToFlush(Head(free))
    <3>1. free # << >> /\ free[1] \in Batch /\ SendBatch(free[1])
      BY <1>8, <2>2, FlushPlaces
    <3>2. /\ running' \in Seq(Batch) /\ free' \in Seq(Batch) /\ faulty' \in BOOLEAN
          /\ hw' \in [Tasks -> {"none", "busy", "done", "failed"}]
      BY <3>1, SendEffect
    <3> QED BY <2>1, <3>2 DEF Types, userVars, waitVars
  <2>3. CASE ~ToFlush(Head(free))
    BY <1>8, <2>1, <2>3 DEF Flush, Types, userVars, waitVars, batchVars, hwVars
  <2> QED BY <2>2, <2>3
<1>9. CASE FillTask
  <2>1. /\ pending # << >> /\ free # << >> /\ Filled \in Batch
        /\ pending' = Tail(pending) /\ left' = left - 1 /\ left > 0
        /\ UNCHANGED <<userVars, timer, tpc, look>>
        /\ IF Full(Filled) THEN SendBatch(Filled)
           ELSE /\ free' = << Filled >> \o Tail(free)
                /\ UNCHANGED <<running, hwVars>>
    BY <1>9, FillEffect
  <2>2. pending' \in Seq(Tasks) /\ left' \in Nat
    BY <2>1 DEF Types
  <2>3. /\ running' \in Seq(Batch) /\ free' \in Seq(Batch) /\ faulty' \in BOOLEAN
        /\ hw' \in [Tasks -> {"none", "busy", "done", "failed"}]
    <3>1. CASE Full(Filled)
      BY <2>1, <3>1, SendEffect
    <3>2. CASE ~Full(Filled)
      <4>1. free' = << Filled >> \o Tail(free) /\ UNCHANGED <<running, hw, faulty>>
        BY <2>1, <3>2 DEF hwVars
      <4>2. Tail(free) \in Seq(Batch) /\ << Filled >> \in Seq(Batch)
        BY <2>1 DEF Types
      <4>3. free' \in Seq(Batch)
        BY <4>1, <4>2, ConcatProperties
      <4> QED BY <4>1, <4>3 DEF Types
    <3> QED BY <3>1, <3>2
  <2> QED BY <2>1, <2>2, <2>3 DEF Types, userVars, waitVars
<1> QED BY <1>1, <1>2, <1>3, <1>4, <1>5, <1>6, <1>7, <1>8, <1>9 DEF TimerStep

\* The thread leaves no batch behind that is partly filled, or answered.
LEMMA ShapeByThread ==
  ASSUME Types, Shape, Looked, Apart, TimerStep
  PROVE  Shape'
<1> DEFINE n == Len(running)
           m == Len(free)
<1>0. /\ n \in Nat /\ DOMAIN running = 1 .. n /\ m \in Nat /\ DOMAIN free = 1 .. m
      /\ running # << >> <=> n > 0
      /\ free # << >> <=> m > 0
  BY DEF Types
<1> DEFINE Run(r) == r.fill > 0 /\ Len(r.tasks) = r.fill - r.poll
           Filling(b) == /\ Len(b.tasks) = b.fill /\ b.poll = 0
                         /\ b.fill < MaxTaskInBatch
<1>1. Len(Empty.tasks) = 0 /\ Filling(Empty)
  BY ServerAssumption DEF Empty
<1> HIDE DEF n, m
<1>2. CASE Poll
  BY <1>2 DEF Poll, Polls, Shape, batchVars
<1>3. CASE PollError
  BY <1>3 DEF PollError, Polls, Shape, batchVars
<1>4. CASE Count
  BY <1>4 DEF Count, Shape, batchVars
<1>5. CASE FinishFull
  BY <1>5 DEF FinishFull, Rest, Shape, batchVars, NoBatch
<1>6. CASE AddBatch
  BY <1>6, <1>1 DEF AddBatch, Shape, threadVars
<1>7. CASE Answer
  <2>1. tpc = "answer" /\ tpc' = tpc /\ UNCHANGED free
    BY <1>7 DEF Answer
  <2>2. CASE Head(look).ok
    <3> DEFINE t == Head(look).task
    <3>1. /\ t \in Tasks /\ running # << >> /\ Listed(running[1].tasks, t)
          /\ running' \in Seq(Batch) /\ Len(running') = n
          /\ \A i \in 2 .. n : running'[i] = running[i]
          /\ running'[1].fill = running[1].fill
          /\ running'[1].poll = running[1].poll + 1
          /\ running'[1].tasks = Unlinked(running[1].tasks, t)
      BY <1>7, <2>2, AnswerEffect DEF n
    <3> HIDE DEF t
    <3>2. 1 \in 1 .. n /\ DOMAIN running' = 1 .. n
      BY <1>0, <3>1
    <3>3. /\ running[1].fill \in 0 .. MaxTaskInBatch /\ running[1].poll \in 0 .. MaxTaskInBatch
          /\ running[1].tasks \in Seq(Tasks) /\ Distinct(running[1].tasks)
      BY <1>0, <3>2, BatchFields DEF Types, Apart
    <3>4. Len(running'[1].tasks) = Len(running[1].tasks) - 1
      BY <3>1, <3>3, UnlinkedListed
    <3>5. Run(running[1]) /\ \A i \in 2 .. n : Run(running[i]) /\ running[i].poll = 0
      BY <1>0, <3>2 DEF Shape
    <3>6. running'[1].fill > 0 /\ Len(running'[1].tasks) = running'[1].fill - running'[1].poll
      BY <3>1, <3>3, <3>4, <3>5, ServerAssumption
    <3>7. ASSUME NEW i \in 1 .. n
          PROVE  /\ running'[i].fill > 0
                 /\ Len(running'[i].tasks) = running'[i].fill - running'[i].poll
                 /\ i > 1 => running'[i].poll = 0
      <4>1. CASE i = 1
        BY <3>6, <4>1
      <4>2. CASE i # 1
        <5>1. i \in 2 .. n
          BY <1>0, <4>2
        <5> QED BY <3>1, <3>5, <5>1
      <4> QED BY <4>1, <4>2
    <3> QED BY <2>1, <3>2, <3>7 DEF Shape
  <2>3. CASE ~Head(look).ok
    <3>1. UNCHANGED running
      BY <1>7, <2>3 DEF Answer
    <3> QED BY <2>1, <3>1 DEF Shape
  <2> QED BY <2>2, <2>3
<1>8. CASE Recycle
  <2>1. tpc = "answer" /\ tpc' \in {"poll", "count"} /\ running # << >>
    BY <1>8 DEF Recycle, Looked
  <2>2. CASE Answered(Head(running))
    <3>1. /\ running' \in Seq(Batch) /\ Len(running') = n - 1
          /\ \A i \in 1 .. n - 1 : running'[i] = running[i + 1]
          /\ free' \in Seq(Batch) /\ Len(free') = m + 1
          /\ \A i \in 1 .. m : free'[i] = free[i]
          /\ free'[m + 1] = Empty
      BY <1>8, <2>2, RecycleEffect DEF n, m
    <3>2. DOMAIN running' = 1 .. n - 1 /\ DOMAIN free' = 1 .. m + 1
      BY <1>0, <2>1, <3>1
    <3>3. \A i \in 1 .. m : free[i] = Empty
      BY <1>0, <2>1 DEF Shape
    <3>4. \A i \in 1 .. m + 1 : free'[i] = Empty
      BY <1>0, <3>1, <3>3
    <3>5. ASSUME NEW i \in 1 .. n - 1
          PROVE  /\ running'[i] = running[i + 1] /\ running'[i].poll = 0
                 /\ running'[i].fill > 0 /\ Len(running'[i].tasks) = running'[i].fill
      <4>1. i + 1 \in 1 .. n /\ i + 1 > 1 /\ running'[i] = running[i + 1]
        BY <1>0, <3>1
      <4>2. running[i + 1].fill \in 0 .. MaxTaskInBatch
        BY <1>0, <4>1, BatchFields DEF Types
      <4> QED BY <1>0, <4>1, <4>2, ServerAssumption DEF Shape
    <3>6. ASSUME NEW i \in 1 .. n - 1
          PROVE  /\ running'[i].poll = 0 /\ running'[i].fill > 0
                 /\ Len(running'[i].tasks) = running'[i].fill - running'[i].poll
      <4>1. running'[i].fill \in 0 .. MaxTaskInBatch
        BY <3>1, <3>2, BatchFields
      <4> QED BY <3>5, <4>1, ServerAssumption
    <3>7. running' # << >> => 1 \in 1 .. n - 1
      BY <1>0, <3>1
    <3>8. free' # << >> => 1 \in 1 .. m + 1
      BY <1>0
    <3> QED BY <1>1, <2>1, <3>2, <3>4, <3>6, <3>7, <3>8 DEF Shape
  <2>3. CASE ~Answered(Head(running))
    <3>1. UNCHANGED <<running, free>> /\ Head(running) = running[1] /\ 1 \in 1 .. n
      BY <1>0, <1>8, <2>1, <2>3 DEF Recycle, batchVars
    <3>2. /\ running[1].fill \in 0 .. MaxTaskInBatch /\ running[1].poll \in 0 .. MaxTaskInBatch
          /\ running[1].tasks \in Seq(Tasks)
      BY <1>0, <3>1, BatchFields DEF Types
    <3>3. running[1].poll < running[1].fill
      <4>1. Len(running[1].tasks) = running[1].fill - running[1].poll
        BY <1>0, <3>1 DEF Shape
      <4>2. Len(running[1].tasks) \in Nat
        BY <3>2
      <4>3. running[1].poll # running[1].fill
        BY <2>3, <3>1 DEF Answered
      <4> QED BY <3>2, <4>1, <4>2, <4>3, ServerAssumption
    <3> QED BY <2>1, <3>1, <3>3 DEF Shape
  <2> QED BY <2>2, <2>3
<1>9. CASE Flush /\ ~ToFlush(Head(free))
  <2>1. UNCHANGED <<running, free>> /\ tpc = "fill" /\ free # << >> /\ ~(Head(free).fill > 0)
    BY <1>9 DEF Flush, ToFlush, batchVars
  <2>2. /\ free[1].fill \in 0 .. MaxTaskInBatch /\ Head(free) = free[1]
        /\ free[1].tasks \in Seq(Tasks) /\ free[1] \in Batch
    BY <1>0, <2>1, BatchFields DEF Types
  <2>3. free[1].fill = 0
    BY <2>1, <2>2, ServerAssumption
  <2>4. free[1].tasks = << >> /\ free[1].poll = 0
    BY <2>1, <2>2, <2>3 DEF Shape
  <2>5. free[1] = Empty
    BY <2>2, <2>3, <2>4 DEF Empty, Batch
  <2> QED BY <2>1, <2>5 DEF Shape
<1>10. ASSUME NEW b \in Batch, SendBatch(b), Filling(b) \/ (b.poll = 0 /\ Len(b.tasks) = b.fill),
              b.fill > 0, free # << >>, tpc = "fill"
       PROVE  Shape'
  <2>1. /\ running' \in Seq(Batch) /\ Len(running') = n + 1
        /\ \A i \in 1 .. n : running'[i] = running[i]
        /\ running'[n + 1] = b
        /\ free' \in Seq(Batch) /\ Len(free') = m - 1
        /\ \A i \in 1 .. m - 1 : free'[i] = free[i + 1]
    BY <1>10, SendEffect DEF n, m
  <2>2. DOMAIN running' = 1 .. n + 1 /\ DOMAIN free' = 1 .. m - 1
    BY <1>0, <1>10, <2>1
  <2>3. b.poll = 0 /\ Len(b.tasks) = b.fill - b.poll
    <3>1. b.fill \in 0 .. MaxTaskInBatch
      BY DEF Batch
    <3> QED BY <1>10, <3>1, ServerAssumption
  <2>4. ASSUME NEW i \in 1 .. n + 1
        PROVE  /\ running'[i].fill > 0
               /\ Len(running'[i].tasks) = running'[i].fill - running'[i].poll
               /\ i > 1 => running'[i].poll = 0
    <3>1. CASE i = n + 1
      BY <1>10, <2>1, <2>3, <3>1
    <3>2. CASE i \in 1 .. n
      BY <1>0, <2>1, <3>2 DEF Shape
    <3> QED BY <1>0, <3>1, <3>2
  <2>5. running'[1].poll < running'[1].fill
    <3>1. CASE n = 0
      <4>1. running'[1] = b
        <5>1. n + 1 = 1
          BY <3>1
        <5> QED BY <2>1, <5>1
      <4> QED BY <1>10, <2>3, <4>1
    <3>2. CASE n > 0
      <4>1. 1 \in 1 .. n
        BY <1>0, <3>2
      <4> QED BY <1>0, <1>10, <2>1, <3>2, <4>1 DEF Shape
    <3> QED BY <1>0, <3>1, <3>2
  <2>6. ASSUME NEW i \in 1 .. m - 1 PROVE free'[i] = Empty
    <3>1. i + 1 \in 1 .. m /\ i + 1 # 1
      BY <1>0
    <3> QED BY <1>0, <2>1, <3>1 DEF Shape
  <2>7. free' # << >> => 1 \in 1 .. m - 1
    BY <1>0, <2>1, <2>2
  <2> QED BY <1>1, <2>2, <2>4, <2>5, <2>6, <2>7 DEF Shape
<1>11. CASE Flush /\ ToFlush(Head(free))
  <2>1. free # << >> /\ free[1] \in Batch /\ SendBatch(free[1]) /\ tpc = "fill"
    BY <1>11, FlushPlaces DEF Flush
  <2>2. Filling(free[1]) /\ free[1].fill > 0
    BY <1>11, <2>1 DEF Shape, ToFlush, Types
  <2> QED BY <1>10, <2>1, <2>2
<1>12. CASE FillTask
  <2>1. /\ free # << >> /\ Filled \in Batch /\ tpc = "fill" /\ tpc' = tpc
        /\ Filled.fill = free[1].fill + 1 /\ Filled.poll = 0
        /\ Len(Filled.tasks) = Filled.fill
        /\ IF Full(Filled) THEN SendBatch(Filled)
           ELSE free' = << Filled >> \o Tail(free) /\ UNCHANGED running
    BY <1>12, FillEffect
  <2>2. Filled.fill \in 0 .. MaxTaskInBatch /\ Filled.fill > 0
    <3>1. free[1].fill \in 0 .. MaxTaskInBatch
      BY <1>0, <2>1, BatchFields DEF Types
    <3>2. Filled.fill \in 0 .. MaxTaskInBatch
      BY <2>1 DEF Batch
    <3> QED BY <2>1, <3>1, <3>2, ServerAssumption
  <2>3. CASE Full(Filled)
    BY <1>10, <2>1, <2>2, <2>3
  <2>4. CASE ~Full(Filled)
    <3>1. Filling(Filled)
      BY <2>1, <2>2, <2>4, ServerAssumption DEF Full
    <3>2. Tail(free) \in Seq(Batch) /\ Len(Tail(free)) = m - 1
          /\ \A i \in 1 .. m - 1 : Tail(free)[i] = free[i + 1]
      BY <1>0, <2>1 DEF Types, m
    <3>3. /\ free' \in Seq(Batch) /\ Len(free') = m /\ free'[1] = Filled
          /\ \A i \in 2 .. m : free'[i] = free[i]
      <4>1. << Filled >> \in Seq(Batch) /\ Len(<< Filled >>) = 1 /\ << Filled >>[1] = Filled
        BY <2>1
      <4>2. /\ free' \in Seq(Batch) /\ Len(free') = 1 + Len(Tail(free))
            /\ \A i \in 1 .. 1 + Len(Tail(free)) :
                 free'[i] = IF i <= 1 THEN << Filled >>[i] ELSE Tail(free)[i - 1]
        BY <2>1, <2>4, <3>2, <4>1, ConcatProperties
      <4>3. Len(free') = m /\ free'[1] = Filled
        BY <1>0, <2>1, <3>2, <4>1, <4>2
      <4>4. ASSUME NEW i \in 2 .. m PROVE free'[i] = free[i]
        <5>1. i - 1 \in 1 .. m - 1 /\ ~(i <= 1) /\ i \in 1 .. 1 + Len(Tail(free))
              /\ (i - 1) + 1 = i
          BY <1>0, <3>2
        <5> QED BY <3>2, <4>2, <5>1
      <4> QED BY <4>2, <4>3, <4>4
    <3>4. DOMAIN free' = 1 .. m
      BY <3>3
    <3>5. \A i \in 1 .. m : free'[i] # Empty => i = 1
      <4>1. \A i \in 2 .. m : free[i] = Empty
        BY <1>0 DEF Shape
      <4> QED BY <1>0, <3>3, <4>1
    <3> QED BY <2>1, <2>4, <3>1, <3>3, <3>4, <3>5 DEF Shape
  <2> QED BY <2>3, <2>4
<1> QED BY <1>2, <1>3, <1>4, <1>5, <1>6, <1>7, <1>8, <1>9, <1>11, <1>12 DEF TimerStep

\* What the thread has looked at stays true until it has dealt with it: an answer
\* removes the task of its session only.
LEMMA LookedByThread ==
  ASSUME Types, Shape, Looked, Apart, Owing, TimerStep
  PROVE  Looked'
<1> DEFINE L == [task : Tasks, ok : BOOLEAN]
<1>1. CASE Poll
  <2>1. tpc \in {"rest", "poll"} /\ look = << >> /\ left = 0
    BY <1>1 DEF Poll, Polls, Looked
  <2>2. UNCHANGED <<running, left, hw>>
    BY <1>1 DEF Poll, batchVars, hwVars
  <2>3. CASE running = << >>
    <3>1. tpc' = "count" /\ look' = << >>
      BY <1>1, <2>1, <2>3 DEF Poll
    <3> QED BY <2>1, <2>2, <3>1 DEF Looked
  <2>4. CASE running # << >>
    <3>1. /\ tpc' = "answer" /\ look' = Answers(running[1])
          /\ running[1] \in Batch /\ 1 \in DOMAIN running
      BY <1>1, <2>4 DEF Poll, Types
    <3>2. Distinct(running[1].tasks)
      BY <3>1 DEF Apart
    <3> QED BY <2>1, <2>2, <2>4, <3>1, <3>2, AnswersLooked DEF Looked
  <2> QED BY <2>3, <2>4
<1>2. CASE PollError
  BY <1>2 DEF PollError, Polls, Looked, batchVars
<1>3. CASE Count
  BY <1>3 DEF Count, Looked, batchVars, hwVars, Types
<1>4. CASE FinishFull
  BY <1>4 DEF FinishFull, Rest, Looked, batchVars, hwVars
<1>5. CASE AddBatch
  BY <1>5 DEF AddBatch, Looked, threadVars, hwVars
<1>6. CASE Answer
  <2>1. /\ tpc = "answer" /\ tpc' = tpc /\ look # << >> /\ look' = Tail(look)
        /\ left' = left /\ hw' = hw
    BY <1>6 DEF Answer, hwVars
  <2>2. look \in Seq(L) /\ running # << >>
    BY <2>1 DEF Types, Looked
  <2> DEFINE l == Len(look)
  <2>3. /\ l \in Nat /\ DOMAIN look = 1 .. l /\ DOMAIN look' = 1 .. l - 1
        /\ Head(look) = look[1] /\ \A k \in 1 .. l - 1 : look'[k] = look[k + 1]
    <3> HIDE DEF L
    <3> QED BY <2>1, <2>2
  <2> HIDE DEF l
  <2>4. ASSUME NEW k \in 1 .. l - 1
        PROVE  /\ k + 1 \in 1 .. l /\ look'[k] = look[k + 1] /\ look[k + 1] \in L
               /\ look[k + 1].task # Head(look).task
    <3>1. 1 \in 1 .. l /\ k + 1 \in 1 .. l /\ k + 1 # 1
      BY <2>3
    <3>2. look[k + 1] \in L
      <4> HIDE DEF L
      <4> QED BY <2>2, <2>3, <3>1
    <3> QED BY <2>3, <3>1, <3>2 DEF Looked
  <2>5. running' # << >> /\ \A x \in Tasks :
          Listed(running[1].tasks, x) /\ x # Head(look).task => Listed(running'[1].tasks, x)
    <3>1. CASE Head(look).ok
      <4> DEFINE t == Head(look).task
      <4>1. /\ t \in Tasks /\ running # << >> /\ Listed(running[1].tasks, t)
            /\ running' \in Seq(Batch) /\ Len(running') = Len(running)
            /\ running'[1].tasks = Unlinked(running[1].tasks, t)
        BY <1>6, <3>1, AnswerEffect
      <4>2. 1 \in DOMAIN running /\ running' # << >>
        BY <4>1 DEF Types
      <4>3. running[1].tasks \in Seq(Tasks) /\ Distinct(running[1].tasks)
        BY <4>2, BatchFields DEF Types, Apart
      <4>4. \A x : Listed(running'[1].tasks, x) <=> Listed(running[1].tasks, x) /\ x # t
        BY <4>1, <4>3, UnlinkedListed
      <4> QED BY <4>2, <4>4
    <3>2. CASE ~Head(look).ok
      BY <1>6, <2>2, <3>2 DEF Answer
    <3> QED BY <3>1, <3>2
  <2>6. ASSUME NEW k \in 1 .. l - 1
        PROVE  /\ Listed(running'[1].tasks, look'[k].task)
               /\ look'[k].ok => hw'[look'[k].task] = "done"
    <3>1. look[k + 1].task \in Tasks
      BY <2>4
    <3>2. /\ Listed(running[1].tasks, look[k + 1].task)
          /\ look[k + 1].ok => hw[look[k + 1].task] = "done"
      BY <2>3, <2>4 DEF Looked
    <3> QED BY <2>1, <2>4, <2>5, <3>1, <3>2
  <2>7. ASSUME NEW j \in 1 .. l - 1, NEW k \in 1 .. l - 1,
               look'[j].task = look'[k].task
        PROVE  j = k
    <3>1. /\ j + 1 \in DOMAIN look /\ k + 1 \in DOMAIN look
          /\ look[j + 1].task = look[k + 1].task
      BY <2>3, <2>4, <2>7
    <3>2. j + 1 = k + 1
      BY <3>1 DEF Looked
    <3> QED BY <2>3, <3>2
  <2>8. left' = 0
    BY <2>1 DEF Looked
  <2> QED BY <2>1, <2>3, <2>5, <2>6, <2>7, <2>8 DEF Looked
<1>7. CASE Recycle
  <2>1. /\ tpc = "answer" /\ look = << >> /\ left' = left /\ hw' = hw /\ left = 0
        /\ running # << >>
    BY <1>7 DEF Recycle, hwVars, Looked
  <2>2. CASE Answered(Head(running))
    <3>1. tpc' = "poll" /\ look' = look
      BY <1>7, <2>2, RecycleEffect
    <3> QED BY <2>1, <3>1 DEF Looked
  <2>3. CASE ~Answered(Head(running))
    BY <1>7, <2>1, <2>3 DEF Recycle, Looked, batchVars
  <2> QED BY <2>2, <2>3
<1>8. CASE Flush
  BY <1>8 DEF Flush, Rest, Looked
<1>9. CASE FillTask
  <2>1. /\ tpc = "fill" /\ tpc' = tpc /\ look' = look /\ pending # << >>
        /\ pending' = Tail(pending) /\ left' = left - 1
    BY <1>9, FillEffect
  <2>2. look = << >> /\ left <= Len(pending)
    BY <2>1 DEF Looked
  <2>3. left' <= Len(pending')
    BY <2>1, <2>2 DEF Types
  <2> QED BY <2>1, <2>2, <2>3 DEF Looked
<1> QED BY <1>1, <1>2, <1>3, <1>4, <1>5, <1>6, <1>7, <1>8, <1>9 DEF TimerStep

\* The thread makes a batch only when there are fewer than the count allows.
LEMMA CountedByThread ==
  ASSUME Types, Shape, Looked, Apart, Counted, TimerStep
  PROVE  Counted'
<1>1. switches' = switches /\ Attached' = Attached
  BY ThreadWakes DEF Attached
<1> SUFFICES Len(running') + Len(free') <= switches
  BY <1>1 DEF Counted
<1> DEFINE n == Len(running)
           m == Len(free)
<1>2. n \in Nat /\ m \in Nat /\ n + m <= switches /\ switches \in Nat
  BY ServerAssumption DEF Types, Counted
<1>3. CASE QuietStep
  BY <1>2, <1>3, QuietTouches
<1>4. CASE AddBatch
  BY <1>2, <1>4 DEF AddBatch, NoBatch, AtMost
<1>5. CASE Answer /\ Head(look).ok
  <2>1. Len(running') = n /\ free' = free
    BY <1>5, AnswerEffect
  <2> QED BY <1>2, <2>1
<1>6. CASE Recycle /\ Answered(Head(running))
  <2>1. Len(running') = n - 1 /\ Len(free') = m + 1
    BY <1>6, RecycleEffect
  <2> HIDE DEF n, m
  <2> QED BY <1>2, <2>1
<1>7. ASSUME NEW b \in Batch, SendBatch(b), free # << >>
      PROVE  Len(running') + Len(free') <= switches
  <2>1. Len(running') = n + 1 /\ Len(free') = m - 1
    BY <1>7, SendEffect
  <2> HIDE DEF n, m
  <2> QED BY <1>2, <2>1
<1>8. CASE Flush /\ ToFlush(Head(free))
  BY <1>7, <1>8, FlushPlaces
<1>9. CASE FillTask
  <2>1. /\ free # << >> /\ Filled \in Batch
        /\ IF Full(Filled) THEN SendBatch(Filled)
           ELSE free' = << Filled >> \o Tail(free) /\ UNCHANGED running
    BY <1>9, FillEffect
  <2>2. CASE ~Full(Filled)
    <3>1. << Filled >> \in Seq(Batch) /\ Tail(free) \in Seq(Batch) /\ Len(Tail(free)) = m - 1
      BY <2>1 DEF Types
    <3>2. Len(free') = 1 + (m - 1)
      BY <2>1, <2>2, <3>1, ConcatProperties
    <3> HIDE DEF n, m
    <3> QED BY <1>2, <2>1, <2>2, <3>2 DEF n
  <2> QED BY <1>7, <2>1, <2>2
<1> QED BY <1>3, <1>4, <1>5, <1>6, <1>8, <1>9, ThreadSteps DEF MovingStep

-----------------------------------------------------------------------------
(* The theorems *)

\* At first nobody is attached.
LEMMA InitHolds == Init => ServerInv
<1> SUFFICES ASSUME Init PROVE ServerInv
  OBVIOUS
<1>1. Types
  <2>1. /\ pending = << >> /\ pending \in Seq(Tasks)
        /\ running = << >> /\ running \in Seq(Batch)
        /\ free = << >> /\ free \in Seq(Batch)
        /\ look = << >> /\ look \in Seq([task : Tasks, ok : BOOLEAN])
    BY DEF Init
  <2>2. switches \in 0 .. MaxSwitches
    BY ServerAssumption DEF Init
  <2>3. current \in [Sessions -> Tasks]
    BY ServerAssumption DEF Init
  <2> QED BY <2>1, <2>2, <2>3 DEF Init, Types
<1>2. Shape /\ Looked
  BY DEF Init, Shape, Looked
<1>3. Counted
  <2>1. Attached = {}
    BY DEF Init, Attached
  <2>2. Cardinality(Attached) = 0
    BY <2>1, FS_EmptySet
  <2> QED BY <2>2 DEF Init, Counted
<1>4. \A s \in Sessions : Owner[current[s]] = s /\ current[s] \in Tasks
  BY ServerAssumption DEF Init
<1>5. \A t \in Tasks : Owner[t] \in Sessions
  BY ServerAssumption
<1>6. Apart /\ Owing /\ Handed
  BY <1>4, <1>5 DEF Init, Apart, Owing, Handed, Placed, Sending, Waited, Pends, Runs,
                    Fills, Listed, Distinct
<1> QED BY <1>1, <1>2, <1>3, <1>6 DEF ServerInv

\* Every step keeps the invariant.
LEMMA ServerInvKept == ServerInv /\ [Next]_vars => ServerInv'
<1> SUFFICES ASSUME ServerInv, [Next]_vars PROVE ServerInv'
  OBVIOUS
<1> USE DEF ServerInv
<1>1. CASE TimerStep
  BY <1>1, TypesByThread, ShapeByThread, CountedByThread, LookedByThread, ApartByThread,
     OwingByThread
<1>2. ASSUME NEW s \in Sessions, UserStep(s) PROVE ServerInv'
  BY <1>2, TypesByUser, ShapeByUser, CountedByUser, ApartByUser, OwingByUser,
     HandedByUser
<1>3. CASE UNCHANGED vars
  BY <1>3 DEF vars, userVars, waitVars, batchVars, threadVars, hwVars, Types, Shape,
     Counted, Attached, Looked, Apart, Owing, Handed, Placed, Sending, Waited, Pends,
     Runs, Fills
<1>4. ASSUME NEW t \in Tasks, HwStep(t) PROVE \E s \in Sessions : UserStep(s)
  BY <1>4, ServerAssumption DEF UserStep
<1> QED BY <1>1, <1>2, <1>3, <1>4 DEF Next, CallStep, UserStep

\* The inductive invariant holds in every state.
THEOREM ServerInvHolds == Spec => []ServerInv
  BY InitHolds, ServerInvKept, PTL DEF Spec

\* Each running batch, when it is not being answered, keeps a task, and while no
\* session has left one behind each is of a session of its own: with one more session
\* pending there are fewer batches than sessions, and the count allows another.
LEMMA RoomForPending ==
  ASSUME ServerInv, tpc # "answer", pending # << >>, stray = {}
  PROVE  ~NoBatch
<1> USE DEF ServerInv
<1> DEFINE n == Len(running)
           f == [i \in 1 .. n + 1 |->
                   IF i <= n THEN running[i].tasks[1] ELSE pending[1]]
<1>1. n \in Nat /\ DOMAIN running = 1 .. n /\ 1 \in DOMAIN pending
  BY DEF Types
<1>2. pending[1] \in Tasks /\ Pends(pending[1])
  BY <1>1 DEF Types, Pends, Listed
<1>3. ASSUME NEW i \in 1 .. n
      PROVE  /\ running[i].tasks[1] \in Tasks
             /\ Listed(running[i].tasks, running[i].tasks[1])
             /\ Runs(running[i].tasks[1])
  <2>1. /\ running[i].fill \in 0 .. MaxTaskInBatch /\ running[i].poll \in 0 .. MaxTaskInBatch
        /\ running[i].tasks \in Seq(Tasks)
    BY <1>1, BatchFields DEF Types
  <2>2. Len(running[i].tasks) = running[i].fill - running[i].poll /\ running[i].fill > 0
    BY <1>1 DEF Shape
  <2>3. running[i].poll < running[i].fill
    <3>1. CASE i = 1
      <4>1. running # << >>
        BY <1>1 DEF Types
      <4> QED BY <3>1, <4>1 DEF Shape
    <3>2. CASE i > 1
      BY <1>1, <2>2, <3>2 DEF Shape
    <3> QED BY <1>1, <3>1, <3>2
  <2>4. Len(running[i].tasks) > 0
    BY <2>1, <2>2, <2>3, ServerAssumption
  <2>5. 1 \in DOMAIN running[i].tasks
    BY <2>1, <2>4
  <2> QED BY <1>1, <2>1, <2>5 DEF Listed, Runs
<1> HIDE DEF n
<1>4. \A i \in 1 .. n + 1 : f[i] \in Tasks /\ Placed(f[i])
  BY <1>1, <1>2, <1>3 DEF Placed
<1>5. \A i, j \in 1 .. n + 1 : f[i] = f[j] => i = j
  <2>1. ASSUME NEW i \in 1 .. n, NEW j \in 1 .. n,
               running[i].tasks[1] = running[j].tasks[1]
        PROVE  i = j
    BY <1>1, <1>3, <2>1 DEF Apart
  <2>2. ASSUME NEW i \in 1 .. n PROVE running[i].tasks[1] # pending[1]
    BY <1>2, <1>3 DEF Apart
  <2> QED BY <1>1, <2>1, <2>2
<1> HIDE DEF f
<1> DEFINE g == [i \in 1 .. n + 1 |-> Owner[f[i]]]
<1>6. g \in Injection(1 .. n + 1, Attached)
  <2>1. ASSUME NEW i \in 1 .. n + 1
        PROVE  g[i] \in Attached /\ current[g[i]] = f[i]
    BY <1>4, ServerAssumption DEF Owing, Attached
  <2>2. ASSUME NEW i \in 1 .. n + 1, NEW j \in 1 .. n + 1, g[i] = g[j] PROVE i = j
    <3>1. f[i] = f[j]
      BY <2>1, <2>2
    <3> QED BY <1>5, <3>1
  <2> QED BY <2>1, <2>2 DEF Injection, IsInjective
<1> HIDE DEF g
<1>7. n + 1 <= Cardinality(Attached)
  <2>1. Attached \subseteq Sessions
    BY DEF Attached
  <2>2. IsFiniteSet(Attached)
    BY <2>1, FS_Subset, ServerAssumption
  <2>3. Cardinality(1 .. n + 1) = n + 1 /\ IsFiniteSet(1 .. n + 1)
    BY <1>1, FS_Interval
  <2>4. Cardinality(1 .. n + 1) <= Cardinality(Attached)
    BY <1>6, <2>2, FS_Injection
  <2> QED BY <2>3, <2>4
<1>8. Cardinality(Attached) <= switches /\ Cardinality(Attached) \in Nat /\ switches \in Nat
  <2>1. Attached \subseteq Sessions
    BY DEF Attached
  <2> QED BY <2>1, FS_Subset, FS_CardinalityType, ServerAssumption DEF Counted, Types
<1>9. n < switches
  BY <1>1, <1>7, <1>8
<1> QED BY <1>1, <1>8, <1>9 DEF NoBatch, AtMost, n

\* The batches are kept: their types, no more of them than the count of switches
\* allows, recycled with no task in them, none partly filled left behind, and room
\* for whoever is pending.
THEOREM BatchesAreKept == Spec => []BatchesKept
<1>1. ServerInv => BatchesKept
  <2> SUFFICES ASSUME ServerInv PROVE BatchesKept
    OBVIOUS
  <2>1. tpc \in {"rest", "fill"} /\ pending # << >> /\ stray = {} => ~NoBatch
    BY RoomForPending
  <2>2. \A i \in DOMAIN free :
          free[i] # Empty => i = 1 /\ tpc = "fill" /\ Len(free[i].tasks) = free[i].fill
    BY DEF ServerInv, Shape
  <2> QED BY <2>1, <2>2 DEF ServerInv, Types, Shape, Counted, BatchesKept
<1> QED BY <1>1, ServerInvHolds, PTL

\* An answer is owed for a task exactly while it is in one place, and none otherwise:
\* no task is lost or answered twice, whichever waits wake up for nothing.
THEOREM TasksAreAccounted == Spec => []TasksAccounted
<1>1. ServerInv => TasksAccounted
  <2> SUFFICES ASSUME ServerInv PROVE TasksAccounted
    OBVIOUS
  <2> USE DEF ServerInv
  <2> DEFINE n == Len(running)
             m == Len(free)
             all == running \o free
             in(s) == {i \in DOMAIN all : Listed(all[i].tasks, s)}
  <2>1. /\ n \in Nat /\ m \in Nat /\ DOMAIN running = 1 .. n /\ DOMAIN free = 1 .. m
        /\ free # << >> <=> m > 0
    BY DEF Types
  <2>2. DOMAIN all = 1 .. n + m /\ \A i \in 1 .. n + m :
          all[i] = IF i <= n THEN running[i] ELSE free[i - n]
    <3>1. /\ all \in Seq(Batch) /\ Len(all) = n + m
          /\ \A i \in 1 .. n + m : all[i] = IF i <= n THEN running[i] ELSE free[i - n]
      BY ConcatProperties DEF Types
    <3> QED BY <3>1
  <2> HIDE DEF n, m, all
  <2>3. \A i \in 1 .. n : i \in 1 .. n + m /\ all[i] = running[i]
    BY <2>1, <2>2
  <2>4. ASSUME NEW i \in 1 .. n + m, i > n, i # n + 1
        PROVE  all[i] = Empty
    <3>1. i - n \in 1 .. m /\ i - n # 1 /\ all[i] = free[i - n]
      BY <2>1, <2>2, <2>4
    <3> QED BY <2>1, <3>1 DEF Shape
  <2>5. m > 0 => n + 1 \in 1 .. n + m /\ all[n + 1] = free[1]
    BY <2>1, <2>2
  <2>6. ASSUME NEW i \in 1 .. n + m PROVE Distinct(all[i].tasks)
    <3>1. CASE i \in 1 .. n
      BY <2>1, <2>3, <3>1 DEF Apart
    <3>2. CASE i = n + 1
      BY <2>1, <2>5, <3>2 DEF Apart
    <3>3. CASE i > n /\ i # n + 1
      BY <2>4, <3>3, EmptyHoldsNone
    <3> QED BY <2>1, <3>1, <3>2, <3>3
  <2>7. Distinct(pending) /\ left <= Len(pending)
    <3>1. Len(pending) \in Nat
      BY DEF Types
    <3> QED BY <3>1 DEF Apart, Looked
  <2>8. ASSUME NEW s \in Tasks
        PROVE  Cardinality(in(s)) = IF Runs(s) \/ Fills(s) THEN 1 ELSE 0
    <3>1. CASE Runs(s)
      <4>1. PICK k \in 1 .. n : Listed(running[k].tasks, s)
        BY <2>1, <3>1 DEF Runs
      <4>2. k \in in(s)
        BY <2>2, <2>3, <4>1
      <4>3. ASSUME NEW i \in in(s) PROVE i = k
        <5>1. i \in 1 .. n + m /\ Listed(all[i].tasks, s)
          BY <2>2
        <5>2. CASE i \in 1 .. n
          BY <2>1, <2>3, <4>1, <5>1, <5>2 DEF Apart
        <5>3. CASE i = n + 1
          BY <2>1, <2>5, <3>1, <5>1, <5>3 DEF Apart, Fills
        <5>4. CASE i > n /\ i # n + 1
          BY <2>4, <5>1, <5>4, EmptyHoldsNone
        <5> QED BY <2>1, <5>1, <5>2, <5>3, <5>4
      <4>4. in(s) = {k}
        BY <4>2, <4>3
      <4> QED BY <3>1, <4>4, FS_Singleton
    <3>2. CASE Fills(s)
      <4>1. m > 0 /\ Listed(free[1].tasks, s) /\ ~Runs(s)
        BY <2>1, <3>2 DEF Fills, Apart
      <4>2. n + 1 \in in(s)
        BY <2>2, <2>5, <4>1
      <4>3. ASSUME NEW i \in in(s) PROVE i = n + 1
        <5>1. i \in 1 .. n + m /\ Listed(all[i].tasks, s)
          BY <2>2
        <5>2. CASE i \in 1 .. n
          BY <2>1, <2>3, <4>1, <5>1, <5>2 DEF Runs
        <5>4. CASE i > n /\ i # n + 1
          BY <2>4, <5>1, <5>4, EmptyHoldsNone
        <5> QED BY <2>1, <5>1, <5>2, <5>4
      <4>4. in(s) = {n + 1}
        BY <4>2, <4>3
      <4> QED BY <3>2, <4>4, FS_Singleton
    <3>3. CASE ~Runs(s) /\ ~Fills(s)
      <4>1. ASSUME NEW i \in in(s) PROVE FALSE
        <5>1. i \in 1 .. n + m /\ Listed(all[i].tasks, s)
          BY <2>2
        <5>2. CASE i \in 1 .. n
          BY <2>1, <2>3, <3>3, <5>1, <5>2 DEF Runs
        <5>3. CASE i = n + 1
          BY <2>1, <2>5, <3>3, <5>1, <5>3 DEF Fills
        <5>4. CASE i > n /\ i # n + 1
          BY <2>4, <5>1, <5>4, EmptyHoldsNone
        <5> QED BY <2>1, <5>1, <5>2, <5>3, <5>4
      <4>2. in(s) = {}
        BY <4>1
      <4> QED BY <3>3, <4>2, FS_EmptySet
    <3> QED BY <3>1, <3>2, <3>3
  <2>9. ASSUME NEW s \in Tasks
        PROVE  /\ \A i \in in(s) : Distinct(all[i].tasks)
               /\ owed[s] <= 1
               /\ owed[s] = (IF Sending(s) THEN 1 ELSE 0)
                              + (IF Listed(pending, s) THEN 1 ELSE 0) + Cardinality(in(s))
               /\ owed[s] = 0 \/ Waited(s) \/ Owner[s] \in stray
    <3>1. \A i \in in(s) : Distinct(all[i].tasks)
      BY <2>2, <2>6
    <3> HIDE DEF in
    <3>2. owed[s] = IF Placed(s) THEN 1 ELSE 0
      BY DEF Owing
    <3>3. /\ Sending(s) => ~Pends(s) /\ ~Runs(s) /\ ~Fills(s)
          /\ Pends(s) => ~Runs(s) /\ ~Fills(s)
      BY DEF Apart
    <3>4. Pends(s) <=> Listed(pending, s)
      BY DEF Pends
    <3>5. Placed(s) => Waited(s) \/ Owner[s] \in stray
      BY DEF Owing, Waited
    <3>6. owed[s] \in {0, 1}
      BY <3>2
    <3>7. owed[s] = (IF Sending(s) THEN 1 ELSE 0)
                      + (IF Listed(pending, s) THEN 1 ELSE 0) + Cardinality(in(s))
      BY <2>8, <3>2, <3>3, <3>4 DEF Placed
    <3> QED BY <3>1, <3>2, <3>5, <3>6, <3>7
  <2> QED BY <2>7, <2>9 DEF TasksAccounted, all
<1> QED BY <1>1, ServerInvHolds, PTL

-----------------------------------------------------------------------------
(* The promise of the device *)

TaskMap == [t \in Tasks |-> TaskState(t)]
WaitedMap == {t \in Tasks : Waited(t)}
DeviceMap == <<TaskMap, WaitedMap, stray>>

\* The state of a task, by cases.
LEMMA TaskStates ==
  ASSUME Types, NEW t \in Tasks
  PROVE  /\ owed[t] = 0 /\ ~Waited(t) => TaskState(t) = "none"
         /\ owed[t] # 0 \/ Waited(t) =>
              /\ TaskState(t) # "none"
              /\ hw[t] = "none" => TaskState(t) = "sent"
              /\ hw[t] = "busy" => TaskState(t) = "busy"
              /\ hw[t] = "done" => TaskState(t) = "finished"
              /\ hw[t] = "failed" => TaskState(t) = "failed"
<1>1. hw[t] \in {"none", "busy", "done", "failed"}
  BY DEF Types
<1> QED BY <1>1 DEF TaskState

\* It depends on what the task is owed, on the hardware and on its session's wait.
LEMMA TaskKept ==
  ASSUME NEW t \in Tasks, owed'[t] = owed[t], hw'[t] = hw[t], Waited(t)' <=> Waited(t)
  PROVE  TaskState(t)' = TaskState(t)
  BY DEF TaskState

\* The first state is the device's: no task is sent, and nobody waits.
LEMMA DeviceInit == Init => Device!Init
<1> SUFFICES ASSUME Init PROVE Device!Init
  OBVIOUS
<1>1. ASSUME NEW t \in Tasks PROVE ~Waited(t) /\ owed[t] = 0
  <2>1. Owner[t] \in Sessions
    BY ServerAssumption
  <2> QED BY <2>1 DEF Init, Waited
<1> QED BY <1>1 DEF Init, Device!Init, TaskState

\* A step that changes the state of one task is a move of the device.
LEMMA OneMoves ==
  ASSUME NEW t \in Tasks, NEW from, NEW to, TaskState(t) = from, TaskState(t)' = to,
         \A x \in Tasks : x # t => TaskState(x)' = TaskState(x)
  PROVE  Device!Move(t, from, to)
<1>1. TaskMap[t] = from
  BY DEF TaskMap
<1>2. TaskMap' = [TaskMap EXCEPT ![t] = to]
  BY DEF TaskMap
<1> QED BY <1>1, <1>2 DEF Device!Move, TaskMap

\* A step that changes none is not seen.
LEMMA NoneMoves ==
  ASSUME \A x \in Tasks : TaskState(x)' = TaskState(x)
  PROVE  TaskMap' = TaskMap
  BY DEF TaskMap

LEMMA NobodyElseWaits ==
  ASSUME \A x \in Tasks : Waited(x)' <=> Waited(x)
  PROVE  WaitedMap' = WaitedMap
  BY DEF WaitedMap

\* Sending a batch starts its tasks, some of which may fail at once.
LEMMA SendStarts ==
  ASSUME Types, Handed, Owing, NEW b \in Batch, SendBatch(b), owed' = owed, stray' = stray,
         \A x \in Tasks : Waited(x)' <=> Waited(x),
         \A x \in Tasks : Listed(b.tasks, x) => Pends(x) \/ Fills(x)
  PROVE  Device!Next
<1>1. PICK lost \in SUBSET {b.tasks[i] : i \in DOMAIN b.tasks} :
        hw' = [s \in Tasks |-> IF s \in lost THEN "failed"
                                  ELSE IF Listed(b.tasks, s) THEN "busy" ELSE hw[s]]
  BY DEF SendBatch
<1> DEFINE B == {s \in Tasks : Listed(b.tasks, s)}
<1>2. lost \subseteq B
  <2>1. b.tasks \in Seq(Tasks)
    BY DEF Batch
  <2> QED BY <2>1 DEF Listed
<1>3. \A x \in B : owed[x] # 0 /\ hw[x] = "none"
  BY DEF Handed, Owing, Placed
<1>4. \A x \in B : TaskState(x) = "sent"
  BY <1>3, TaskStates
<1>5. ASSUME NEW x \in Tasks
      PROVE  TaskState(x)' = IF x \in lost THEN "failed"
                             ELSE IF x \in B THEN "busy" ELSE TaskState(x)
  <2>1. CASE x \in lost
    BY <1>1, <1>2, <1>3, <2>1 DEF TaskState
  <2>2. CASE x \in B /\ x \notin lost
    BY <1>1, <1>3, <2>2 DEF TaskState
  <2>3. CASE x \notin B
    <3>1. hw'[x] = hw[x]
      BY <1>1, <1>2, <2>3
    <3> QED BY <1>2, <2>3, <3>1, TaskKept
  <2> QED BY <2>1, <2>2, <2>3
<1>6. WaitedMap' = WaitedMap
  BY NobodyElseWaits
<1>7. Device!Start(B, lost)
  BY <1>2, <1>4, <1>5, <1>6 DEF Device!Start, WaitedMap
<1>8. B \in SUBSET Tasks /\ lost \in SUBSET Tasks
  BY <1>2
<1> QED BY <1>7, <1>8 DEF Device!Next

\* A task is sent by a session that waits for none, and whose promise holds again
\* when none is under way.
LEMMA SendSeen ==
  ASSUME ServerInv, NEW s \in Sessions, SendQueue(s)
  PROVE  Device!Next
<1> USE DEF ServerInv
<1>0. \A x \in Tasks : Owner[x] \in Sessions
  BY ServerAssumption
<1>1. PICK u \in Tasks :
        /\ Owner[u] = s /\ owed[u] = 0
        /\ current' = [current EXCEPT ![s] = u]
        /\ owed' = [owed EXCEPT ![u] = @ + 1]
        /\ hw' = [hw EXCEPT ![u] = "none"]
  BY DEF SendQueue
<1>2. /\ pc[s] = "idle" /\ pc' = [pc EXCEPT ![s] = "sending"]
      /\ stray' = IF AllAnswered(s) THEN stray \ {s} ELSE stray
  BY DEF SendQueue, Goto
<1>3. \A x \in Tasks : Waited(x) => Owner[x] # s
  BY <1>2 DEF Waited
<1>4. ASSUME NEW x \in Tasks PROVE Waited(x)' <=> Waited(x) \/ x = u
  <2>1. CASE Owner[x] = s
    BY <1>0, <1>1, <1>2, <1>3, <2>1 DEF Waited, Types
  <2>2. CASE Owner[x] # s
    BY <1>0, <1>1, <1>2, <2>2 DEF Waited, Types
  <2> QED BY <2>1, <2>2
<1>5. ASSUME NEW x \in Tasks, x # u PROVE TaskState(x)' = TaskState(x)
  <2>1. owed'[x] = owed[x] /\ hw'[x] = hw[x] /\ (Waited(x)' <=> Waited(x))
    BY <1>1, <1>4, <1>5 DEF Types
  <2> QED BY <2>1, TaskKept
<1>6. TaskState(u) = "none"
  BY <1>1, <1>3, TaskStates
<1>7. TaskState(u)' = "sent"
  <2>1. hw'[u] = "none" /\ Waited(u)'
    BY <1>1, <1>4 DEF Types
  <2> QED BY <2>1 DEF TaskState
<1>8. Device!Move(u, "none", "sent")
  BY <1>5, <1>6, <1>7, OneMoves
<1>9. AllAnswered(s) <=> \A x \in Tasks : Owner[x] = Owner[u] => TaskMap[x] = "none"
  <2>1. ASSUME NEW x \in Tasks, Owner[x] = s
        PROVE  owed[x] = 0 <=> TaskMap[x] = "none"
    BY <1>3, <2>1, TaskStates DEF TaskMap
  <2> QED BY <1>1, <2>1 DEF AllAnswered
<1>10. WaitedMap' = WaitedMap \cup {u} /\ \A x \in WaitedMap : Owner[x] # Owner[u]
  BY <1>1, <1>3, <1>4 DEF WaitedMap
<1>11. stray' = IF \A x \in Tasks : Owner[x] = Owner[u] => TaskMap[x] = "none"
                THEN stray \ {Owner[u]} ELSE stray
  BY <1>1, <1>2, <1>9
<1>12. Device!Send(u)
  BY <1>8, <1>10, <1>11 DEF Device!Send, WaitedMap, TaskMap
<1> QED BY <1>12 DEF Device!Next

\* A session goes on with its task finished, unless a wake-up has misled it.
LEMMA ReturnSeen ==
  ASSUME ServerInv, NEW s \in Sessions, WaitDone(s)
  PROVE  Device!Next
<1> USE DEF ServerInv
<1>0. \A x \in Tasks : Owner[x] \in Sessions
  BY ServerAssumption
<1>1. PICK u \in Tasks : u = current[s]
  BY DEF Types
<1>2. /\ pc[s] = "woken" /\ pc' = [pc EXCEPT ![s] = "idle"] /\ hw' = hw /\ owed' = owed
      /\ UNCHANGED <<current, stray>> /\ Owner[u] = s
  BY <1>1 DEF WaitDone, Goto, waitVars, hwVars, Owing
<1>3. Waited(u)
  BY <1>1, <1>2 DEF Waited
<1>4. ASSUME NEW x \in Tasks PROVE Waited(x)' <=> Waited(x) /\ x # u
  <2>1. CASE Owner[x] = s
    BY <1>0, <1>1, <1>2, <2>1 DEF Waited, Types
  <2>2. CASE Owner[x] # s
    BY <1>0, <1>1, <1>2, <2>2 DEF Waited, Types
  <2> QED BY <2>1, <2>2
<1>5. ASSUME NEW x \in Tasks, x # u PROVE TaskState(x)' = TaskState(x)
  <2>1. Waited(x)' <=> Waited(x)
    BY <1>4, <1>5
  <2> QED BY <1>2, <2>1, TaskKept
<1>6. WaitedMap' = WaitedMap \ {u} /\ u \in WaitedMap
  BY <1>3, <1>4 DEF WaitedMap
<1>7. CASE owed[u] = 0
  <2>1. hw[u] = "done"
    BY <1>3, <1>7 DEF Handed, Owing
  <2>2. TaskState(u) = "finished"
    BY <1>3, <2>1, TaskStates
  <2>3. TaskState(u)' = "none"
    BY <1>2, <1>4, <1>7 DEF TaskState
  <2>4. Device!Move(u, "finished", "none")
    BY <1>5, <2>2, <2>3, OneMoves
  <2>5. Device!Return(u)
    BY <1>2, <1>6, <2>4 DEF Device!Return, WaitedMap
  <2> QED BY <2>5 DEF Device!Next
<1>8. CASE owed[u] # 0
  <2>1. s \in stray
    BY <1>2, <1>8 DEF Owing
  <2>2. TaskState(u)' = TaskState(u)
    BY <1>2, <1>8 DEF TaskState
  <2>3. TaskMap' = TaskMap
    BY <1>5, <2>2, NoneMoves
  <2>4. Device!Leave(u)
    BY <1>2, <1>6, <2>1, <2>3 DEF Device!Leave, WaitedMap, TaskMap
  <2> QED BY <2>4 DEF Device!Next
<1> QED BY <1>7, <1>8

\* The hardware finishes or fails a task that is started.
LEMMA HardwareSeen ==
  ASSUME ServerInv, NEW t \in Tasks, HwStep(t)
  PROVE  Device!Next
<1> USE DEF ServerInv
<1>1. /\ hw[t] = "busy" /\ owed' = owed /\ stray' = stray
      /\ \A x \in Tasks : Waited(x)' <=> Waited(x)
  BY DEF HwStep, HwFinish, HwFail, userVars, waitVars, Waited
<1>2. owed[t] # 0
  <2>1. Placed(t)
    BY <1>1 DEF Handed
  <2> QED BY <2>1 DEF Owing
<1>3. TaskState(t) = "busy"
  BY <1>1, <1>2, TaskStates
<1>4. ASSUME NEW to, hw' = [hw EXCEPT ![t] = to], NEW result,
             \/ to = "done" /\ result = "finished"
             \/ to = "failed" /\ result = "failed"
      PROVE  Device!Move(t, "busy", result)
  <2>1. ASSUME NEW x \in Tasks, x # t PROVE TaskState(x)' = TaskState(x)
    <3>1. hw'[x] = hw[x]
      BY <1>4, <2>1 DEF Types
    <3> QED BY <1>1, <3>1, TaskKept
  <2>2. hw'[t] = to
    BY <1>4 DEF Types
  <2>3. TaskState(t)' = result
    BY <1>1, <1>2, <1>4, <2>2 DEF TaskState
  <2> QED BY <1>3, <2>1, <2>3, OneMoves
<1>5. WaitedMap' = WaitedMap
  BY <1>1, NobodyElseWaits
<1>6. CASE HwFinish(t)
  <2>1. Device!Move(t, "busy", "finished")
    BY <1>4, <1>6 DEF HwFinish
  <2>2. Device!Finish(t)
    BY <1>1, <1>5, <2>1 DEF Device!Finish, WaitedMap
  <2> QED BY <2>2 DEF Device!Next
<1>7. CASE HwFail(t)
  <2>1. Device!Move(t, "busy", "failed")
    BY <1>4, <1>7 DEF HwFail
  <2>2. Device!Fail(t)
    BY <1>1, <1>5, <2>1 DEF Device!Fail, WaitedMap
  <2> QED BY <2>2 DEF Device!Next
<1> QED BY <1>6, <1>7 DEF HwStep

\* What the sessions do else is not seen, but for a wake-up for nothing.
LEMMA SessionSeen ==
  ASSUME ServerInv, NEW s \in Sessions, UserStep(s)
  PROVE  Device!Next \/ UNCHANGED DeviceMap
<1> USE DEF ServerInv
<1>0. \A x \in Tasks : Owner[x] \in Sessions
  BY ServerAssumption
<1>1. CASE Attach(s) \/ Detach(s) \/ SendPending(s) \/ Wait(s) \/ WakeForNothing(s)
  <2> DEFINE Waits == {"sending", "sent", "asleep", "woken"}
  <2>1. hw' = hw /\ current' = current
    BY <1>1 DEF Attach, Detach, SendPending, Wait, WakeForNothing, hwVars, waitVars
  <2>2. \A x \in Sessions : pc'[x] \in Waits <=> pc[x] \in Waits
    BY <1>1 DEF Attach, Detach, SendPending, Wait, WakeForNothing, Goto, Types
  <2> HIDE DEF Waits
  <2>3. \A x \in Tasks : Waited(x)' <=> Waited(x)
    BY <1>0, <2>1, <2>2 DEF Waited, Waits
  <2>4. \A x \in Tasks : owed'[x] = owed[x]
    <3>1. CASE Attach(s)
      <4>1. pc[s] = "off" /\ owed' = [x \in Tasks |-> IF Owner[x] = s THEN 0 ELSE owed[x]]
        BY <3>1 DEF Attach, Goto
      <4>2. \A x \in Tasks : Owner[x] = s => owed[x] = 0
        BY <4>1 DEF Owing
      <4> QED BY <4>1, <4>2
    <3>2. CASE ~Attach(s)
      BY <1>1, <3>2 DEF Detach, SendPending, Wait, WakeForNothing
    <3> QED BY <3>1, <3>2
  <2>5. TaskMap' = TaskMap
    BY <2>1, <2>3, <2>4, TaskKept, NoneMoves
  <2>6. WaitedMap' = WaitedMap
    BY <2>3, NobodyElseWaits
  <2>7. CASE WakeForNothing(s)
    <3>1. stray' = stray \cup {s}
      BY <2>7 DEF WakeForNothing
    <3>2. Device!WakeForNothing(s)
      BY <2>5, <2>6, <3>1 DEF Device!WakeForNothing, TaskMap, WaitedMap
    <3> QED BY <3>2 DEF Device!Next
  <2>8. CASE ~WakeForNothing(s)
    <3>1. stray' = stray
      BY <1>1, <2>8 DEF Attach, Detach, SendPending, Wait, waitVars
    <3> QED BY <2>5, <2>6, <3>1 DEF DeviceMap
  <2> QED BY <2>7, <2>8
<1>2. CASE SendQueue(s)
  BY <1>2, SendSeen
<1>3. CASE WaitDone(s)
  BY <1>3, ReturnSeen
<1>4. ASSUME NEW t \in Tasks, HwStep(t) PROVE Device!Next
  BY <1>4, HardwareSeen
<1> QED BY <1>1, <1>2, <1>3, <1>4 DEF UserStep

\* The thread starts tasks, and takes away the finished ones nobody waits for.
LEMMA ThreadSeen ==
  ASSUME ServerInv, TimerStep
  PROVE  Device!Next \/ UNCHANGED DeviceMap
<1> USE DEF ServerInv
<1>1. stray' = stray /\ \A x \in Tasks : Waited(x)' <=> Waited(x)
  BY ThreadWakes
<1>2. WaitedMap' = WaitedMap
  BY <1>1, NobodyElseWaits
<1>3. ASSUME owed' = owed, hw' = hw PROVE UNCHANGED DeviceMap
  <2>1. \A x \in Tasks : TaskState(x)' = TaskState(x)
    BY <1>1, <1>3, TaskKept
  <2> QED BY <1>1, <1>2, <2>1, NoneMoves DEF DeviceMap
<1>4. CASE QuietStep \/ AddBatch
  <2>1. owed' = owed /\ hw' = hw
    BY <1>4, QuietTouches DEF AddBatch, userVars, hwVars
  <2> QED BY <1>3, <2>1
<1>5. CASE Answer /\ Head(look).ok
  <2>1. PICK u \in Tasks : u = Head(look).task
    BY <1>5, AnswerEffect
  <2>2. hw[u] = "done" /\ hw' = hw /\ owed' = [owed EXCEPT ![u] = @ - 1] /\ Runs(u)
    BY <1>5, <2>1, AnswerEffect, AnswerPlaces
  <2>3. owed[u] = 1 /\ owed'[u] = 0
    BY <2>2 DEF Owing, Placed, Types
  <2>4. TaskState(u) = "finished"
    BY <2>2, <2>3, TaskStates
  <2>5. ASSUME NEW x \in Tasks, x # u PROVE TaskState(x)' = TaskState(x)
    <3>1. owed'[x] = owed[x]
      BY <2>2, <2>5 DEF Types
    <3> QED BY <1>1, <2>2, <3>1, TaskKept
  <2>6. CASE Waited(u)
    <3>1. TaskState(u)' = TaskState(u)
      BY <1>1, <2>2, <2>3, <2>6 DEF TaskState
    <3>2. TaskMap' = TaskMap
      BY <2>5, <3>1, NoneMoves
    <3> QED BY <1>1, <1>2, <3>2 DEF DeviceMap
  <2>7. CASE ~Waited(u)
    <3>1. TaskState(u)' = "none"
      BY <1>1, <2>3, <2>7 DEF TaskState
    <3>2. Device!Move(u, "finished", "none")
      BY <2>4, <2>5, <3>1, OneMoves
    <3>3. Device!Forget(u)
      BY <1>1, <1>2, <2>7, <3>2 DEF Device!Forget, WaitedMap
    <3> QED BY <3>3 DEF Device!Next
  <2> QED BY <2>6, <2>7
<1>6. CASE Recycle /\ Answered(Head(running))
  <2>1. owed' = owed /\ hw' = hw
    BY <1>6, RecycleEffect DEF userVars, hwVars
  <2> QED BY <1>3, <2>1
<1>7. CASE Flush /\ ToFlush(Head(free))
  <2>1. free # << >> /\ free[1] \in Batch /\ SendBatch(free[1]) /\ owed' = owed
    BY <1>7, FlushPlaces DEF Flush, userVars
  <2>2. \A x \in Tasks : Listed(free[1].tasks, x) => Pends(x) \/ Fills(x)
    BY <2>1 DEF Fills
  <2> QED BY <1>1, <2>1, <2>2, SendStarts
<1>8. CASE FillTask
  <2>0. PICK h \in Tasks : h = Head(pending) /\ Pends(h)
    BY <1>8, FillPlaces
  <2>1. /\ free # << >> /\ free \in Seq(Batch) /\ 1 \in DOMAIN free /\ Filled \in Batch
        /\ Filled.tasks = Append(free[1].tasks, h) /\ owed' = owed
        /\ IF Full(Filled) THEN SendBatch(Filled) ELSE hw' = hw
    <3>1. free \in Seq(Batch) /\ (free # << >> => 1 \in DOMAIN free)
      BY DEF Types
    <3> QED BY <1>8, <2>0, <3>1, FillEffect DEF userVars, hwVars
  <2>2. free[1].tasks \in Seq(Tasks)
    BY <2>1, BatchFields
  <2>3. \A x \in Tasks : Listed(Filled.tasks, x) => Pends(x) \/ Fills(x)
    BY <2>0, <2>1, <2>2, AppendListed DEF Fills
  <2>4. CASE Full(Filled)
    BY <1>1, <2>1, <2>3, <2>4, SendStarts
  <2>5. CASE ~Full(Filled)
    BY <1>3, <2>1, <2>5
  <2> QED BY <2>4, <2>5
<1> QED BY <1>4, <1>5, <1>6, <1>7, <1>8, ThreadSteps DEF MovingStep

\* Every step of the server is a step of the device, or one it does not see.
LEMMA DeviceStep == ServerInv /\ [Next]_vars => [Device!Next]_DeviceMap
<1> SUFFICES ASSUME ServerInv, [Next]_vars PROVE Device!Next \/ UNCHANGED DeviceMap
  OBVIOUS
<1>1. ASSUME NEW s \in Sessions, UserStep(s) PROVE Device!Next \/ UNCHANGED DeviceMap
  BY <1>1, SessionSeen
<1>2. CASE TimerStep
  BY <1>2, ThreadSeen
<1>3. CASE UNCHANGED vars
  BY <1>3 DEF vars, userVars, waitVars, hwVars, DeviceMap, TaskMap, TaskState, WaitedMap,
              Waited
<1>4. ASSUME NEW t \in Tasks, HwStep(t) PROVE \E s \in Sessions : UserStep(s)
  BY <1>4, ServerAssumption DEF UserStep
<1> QED BY <1>1, <1>2, <1>3, <1>4 DEF Next, CallStep, UserStep

\* The server keeps the promise of the device: each task is given to the hardware
\* once, and wait_task returns only for a task that is finished, whatever the order
\* of the signals, the polls and the errors - but for a session whose wait, or an
\* earlier one whose task was still unanswered, has woken up for nothing.
THEOREM ServerImplementsDevice == Spec => ImplementsDevice
<1>1. ServerInv /\ [Next]_vars => [Device!Next]_DeviceMap
  BY DeviceStep
<1> QED BY <1>1, DeviceInit, ServerInvHolds, PTL
        DEF Spec, ImplementsDevice, Device!Spec, Device!vars, DeviceMap, TaskMap, WaitedMap
=============================================================================
