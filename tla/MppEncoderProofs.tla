--------------------------- MODULE MppEncoderProofs ---------------------------
(***************************************************************************)
(* Proofs about the two parts of an encoder that are specified here: the   *)
(* task queue behind its ports (MppTaskQueue), and what its thread does    *)
(* with reference frames (MppEncH264).  Nothing is shared between the two. *)
(*                                                                         *)
(* The task queue, for any number of tasks and any finite sets of threads  *)
(* on the two ports: lists, counters and statuses agree, no wake-up is     *)
(* lost, and the queue implements a two-sided channel.                     *)
(*                                                                         *)
(* The references, for every set of configurations and of IDR distances:   *)
(* an IDR frame that was asked for is served, whatever fails, is dropped   *)
(* or is skipped in between.  The wish is a flag that outlives the frame   *)
(* it was made for, so the argument is an invariant about the frame in     *)
(* work: as long as the wish stands, the frame between its encoding and    *)
(* its end is an IDR frame, in the reference manager and in the slice      *)
(* header.  Only a frame that is sent takes the wish back, because what    *)
(* may be dropped or skipped is no IDR frame and a failed frame leaves the *)
(* wish alone.                                                             *)
(***************************************************************************)
EXTENDS MppTaskQueue, MppEncH264, FiniteSetTheorems, TLAPS

-----------------------------------------------------------------------------
(* Facts about the lists *)

LEMMA AppendFacts ==
    ASSUME NEW S, NEW s \in Seq(S), NEW e \in S
    PROVE  /\ Append(s, e) \in Seq(S)
           /\ Len(Append(s, e)) = Len(s) + 1
           /\ Elems(Append(s, e)) = Elems(s) \cup {e}
           /\ NoRepeats(s) /\ e \notin Elems(s) => NoRepeats(Append(s, e))
<1>1. Append(s, e) \in Seq(S) /\ Len(Append(s, e)) = Len(s) + 1
  OBVIOUS
<1>2. DOMAIN Append(s, e) = 1 .. (Len(s) + 1) /\ DOMAIN s = 1 .. Len(s)
  OBVIOUS
<1>3. /\ \A i \in 1 .. Len(s) : Append(s, e)[i] = s[i]
      /\ Append(s, e)[Len(s) + 1] = e
  OBVIOUS
<1>4. Len(s) \in Nat
  OBVIOUS
<1>5. Elems(Append(s, e)) = Elems(s) \cup {e}
  BY <1>2, <1>3, <1>4 DEF Elems
<1>6. NoRepeats(s) /\ e \notin Elems(s) => NoRepeats(Append(s, e))
  BY <1>2, <1>3, <1>4 DEF Elems, NoRepeats
<1> QED BY <1>1, <1>5, <1>6

LEMMA TailFacts ==
    ASSUME NEW S, NEW s \in Seq(S), s # << >>
    PROVE  /\ Tail(s) \in Seq(S)
           /\ Len(Tail(s)) = Len(s) - 1
           /\ Head(s) \in S
           /\ Head(s) \in Elems(s)
           /\ NoRepeats(s) => /\ NoRepeats(Tail(s))
                              /\ Elems(Tail(s)) = Elems(s) \ {Head(s)}
<1>1. Tail(s) \in Seq(S) /\ Len(Tail(s)) = Len(s) - 1
  OBVIOUS
<1>2. Len(s) \in Nat /\ Len(s) > 0 /\ DOMAIN s = 1 .. Len(s)
  OBVIOUS
<1>3. DOMAIN Tail(s) = 1 .. (Len(s) - 1)
  BY <1>2
<1>4. \A i \in 1 .. (Len(s) - 1) : Tail(s)[i] = s[i + 1]
  BY <1>2
<1>5. Head(s) = s[1] /\ 1 \in DOMAIN s /\ s[1] \in S
  BY <1>2
<1>6. Head(s) \in Elems(s) /\ Head(s) \in S
  BY <1>5 DEF Elems
<1>7. ASSUME NoRepeats(s)
      PROVE  NoRepeats(Tail(s)) /\ Elems(Tail(s)) = Elems(s) \ {Head(s)}
  <2>1. NoRepeats(Tail(s))
    BY <1>2, <1>3, <1>4, <1>7 DEF NoRepeats
  <2>2. \A x \in Elems(Tail(s)) : x \in Elems(s) /\ x # Head(s)
    BY <1>2, <1>3, <1>4, <1>5, <1>7 DEF NoRepeats, Elems
  <2>3. ASSUME NEW x \in Elems(s), x # Head(s)
        PROVE  x \in Elems(Tail(s))
    <3>1. PICK i \in 1 .. Len(s) : x = s[i]
      BY <1>2 DEF Elems
    <3>2. i # 1
      BY <1>5, <2>3, <3>1
    <3>3. i - 1 \in 1 .. (Len(s) - 1) /\ Tail(s)[i - 1] = s[i]
      BY <1>2, <1>4, <3>1, <3>2
    <3> QED BY <1>3, <3>1, <3>3 DEF Elems
  <2> QED BY <2>1, <2>2, <2>3
<1> QED BY <1>1, <1>6, <1>7

LEMMA EmptyListIff ==
    ASSUME NEW S, NEW s \in Seq(S)
    PROVE  Len(s) \in Nat /\ (Len(s) > 0 <=> s # << >>)
OBVIOUS

-----------------------------------------------------------------------------
(* The inductive invariant.  The asserts on the lists need the status, the  *)
(* lists, the counters and the ownership together: a handler reads one of   *)
(* them and changes another.                                                *)

NothingBeforeSetup == phase = "inited" => \A t \in Tasks : status[t] = "NONE"

ListInv ==
    /\ TypeOK
    /\ StatusMatchesList
    /\ CountMatchesList
    /\ ExclusiveHold
    /\ NothingBeforeSetup

\* The variables the list invariant is about, without the threads' positions.
listVars == <<phase, queue, hold, count, status, held>>

\* The tables of mpp_port_init.
LEMMA PortFacts ==
    /\ \A c \in Clients : PortOf(c) \in Ports
    /\ \A p \in Ports : /\ Peer(p) \in Ports /\ Peer(p) # p
                        /\ StatusCurr(p) \in Statuses
                        /\ NextOnDequeue(p) \in Statuses
                        /\ NextOnEnqueue(p) = StatusCurr(Peer(p))
                        /\ StatusCurr(p) # "NONE" /\ NextOnDequeue(p) # "NONE"
    /\ \A p, q \in Ports : /\ StatusCurr(p) = StatusCurr(q) => p = q
                           /\ NextOnDequeue(p) = NextOnDequeue(q) => p = q
                           /\ StatusCurr(p) # NextOnDequeue(q)
BY DEF PortOf, Ports, Peer, StatusCurr, NextOnDequeue, NextOnEnqueue, Statuses

LEMMA HoldFinite ==
    ASSUME TypeOK, NEW p \in Ports
    PROVE  IsFiniteSet(hold[p]) /\ Cardinality(hold[p]) \in Nat
<1>1. IsFiniteSet(Tasks)
  BY TaskCountAssumption, FS_Interval DEF Tasks
<1>2. hold[p] \subseteq Tasks
  BY DEF TypeOK
<1> QED BY <1>1, <1>2, FS_Subset, FS_CardinalityType

LEMMA ListInit == Init => ListInv
<1> SUFFICES ASSUME Init PROVE ListInv
  OBVIOUS
<1>1. TypeOK
  BY DEF Init, TypeOK, PcStates
<1>2. StatusMatchesList
  <2> SUFFICES ASSUME NEW p \in Ports
               PROVE  /\ \A t \in Tasks :
                            /\ t \in Elems(queue[p]) <=> status[t] = StatusCurr(p)
                            /\ t \in hold[p] <=> status[t] = NextOnDequeue(p)
                      /\ NoRepeats(queue[p])
    BY DEF StatusMatchesList
  <2>1. queue[p] = << >> /\ hold[p] = {} /\ \A t \in Tasks : status[t] = "NONE"
    BY DEF Init
  <2>2. Elems(<< >>) = {} /\ NoRepeats(<< >>)
    BY DEF Elems, NoRepeats
  <2> QED BY <2>1, <2>2, PortFacts
<1>3. CountMatchesList
  BY PortFacts, FS_EmptySet DEF Init, CountMatchesList
<1>4. ExclusiveHold
  BY PortFacts DEF Init, ExclusiveHold
<1>5. NothingBeforeSetup
  BY DEF Init, NothingBeforeSetup
<1> QED BY <1>1, <1>2, <1>3, <1>4, <1>5 DEF ListInv

\* Everything but setup, dequeue and enqueue moves threads and no task.
LEMMA ListUnchanged ==
    ASSUME ListInv,
           pc' \in [Clients -> PcStates],
           phase' = "inited" => phase = "inited",
           phase' \in {"inited", "ready", "freed"},
           UNCHANGED <<queue, hold, count, status, held>>
    PROVE  ListInv'
<1>1. TypeOK'
  BY DEF ListInv, TypeOK
<1>2. StatusMatchesList' /\ CountMatchesList' /\ ExclusiveHold'
  BY DEF ListInv, StatusMatchesList, CountMatchesList, ExclusiveHold
<1>3. NothingBeforeSetup'
  BY DEF ListInv, NothingBeforeSetup
<1> QED BY <1>1, <1>2, <1>3 DEF ListInv

LEMMA ListSetup == ASSUME ListInv, Setup PROVE ListInv'
<1> DEFINE all == [i \in Tasks |-> i]
<1>1. /\ all \in Seq(Tasks) /\ Len(all) = TaskCount
      /\ Elems(all) = Tasks /\ NoRepeats(all)
  BY TaskCountAssumption DEF Tasks, Elems, NoRepeats
<1>2. /\ queue'["INPUT"] = all /\ queue'["OUTPUT"] = queue["OUTPUT"]
      /\ hold' = hold /\ pc' = pc /\ held' = held
      /\ status' = [t \in Tasks |-> "INPUT_PORT"]
      /\ count' = [count EXCEPT !["INPUT_PORT"] = TaskCount]
      /\ phase = "inited" /\ phase' = "ready"
      /\ queue' = [queue EXCEPT !["INPUT"] = all]
  BY DEF Setup, ListInv, TypeOK, Ports
<1>3. \A t \in Tasks : status[t] = "NONE"
  BY <1>2 DEF ListInv, NothingBeforeSetup
<1>4. /\ hold = [p \in Ports |-> {}]
      /\ \A c \in Clients : held[c] = {}
  BY <1>3, PortFacts DEF ListInv, TypeOK, StatusMatchesList, ExclusiveHold
<1>5. Elems(queue["OUTPUT"]) = {} /\ queue["OUTPUT"] \in Seq(Tasks)
  BY <1>3, PortFacts DEF ListInv, TypeOK, StatusMatchesList, Ports, Elems
<1>6. TypeOK'
  BY <1>1, <1>2, TaskCountAssumption DEF ListInv, TypeOK, Statuses
<1>7. StatusMatchesList'
  <2>1. \A t \in Tasks : t \in Elems(queue'["INPUT"]) <=> status'[t] = "INPUT_PORT"
    BY <1>1, <1>2
  <2>2. \A t \in Tasks : t \in Elems(queue'["OUTPUT"]) <=> status'[t] = "OUTPUT_PORT"
    BY <1>2, <1>5
  <2>3. \A p \in Ports, t \in Tasks : t \in hold'[p] <=> status'[t] = NextOnDequeue(p)
    BY <1>2, <1>4 DEF NextOnDequeue
  <2>4. \A p \in Ports : NoRepeats(queue'[p])
    BY <1>1, <1>2 DEF ListInv, StatusMatchesList, Ports
  <2>5. StatusCurr("INPUT") = "INPUT_PORT" /\ StatusCurr("OUTPUT") = "OUTPUT_PORT"
    BY DEF StatusCurr
  <2> QED BY <2>1, <2>2, <2>3, <2>4, <2>5 DEF StatusMatchesList, Ports, Elems, NoRepeats
<1>8. CountMatchesList'
  BY <1>1, <1>2, PortFacts
  DEF ListInv, TypeOK, CountMatchesList, Ports, Statuses, StatusCurr, NextOnDequeue
<1>9. ExclusiveHold' /\ NothingBeforeSetup'
  BY <1>2 DEF ListInv, ExclusiveHold, NothingBeforeSetup
<1> QED BY <1>6, <1>7, <1>8, <1>9 DEF ListInv

LEMMA ListDequeue == ASSUME ListInv, NEW c \in Clients, Dequeue(c) PROVE ListInv'
<1> DEFINE p == PortOf(c)
           t == Head(queue[p])
<1>1. p \in Ports /\ StatusCurr(p) \in Statuses /\ NextOnDequeue(p) \in Statuses
  BY PortFacts
<1>2. queue[p] \in Seq(Tasks) /\ count[StatusCurr(p)] = Len(queue[p]) /\ NoRepeats(queue[p])
  BY <1>1 DEF ListInv, TypeOK, CountMatchesList, StatusMatchesList
<1>3. queue[p] # << >>
  BY <1>2, EmptyListIff DEF Dequeue
<1>4. /\ t \in Tasks /\ t \in Elems(queue[p])
      /\ Tail(queue[p]) \in Seq(Tasks) /\ Len(Tail(queue[p])) = Len(queue[p]) - 1
      /\ NoRepeats(Tail(queue[p])) /\ Elems(Tail(queue[p])) = Elems(queue[p]) \ {t}
  BY <1>2, <1>3, TailFacts
<1>5. status[t] = StatusCurr(p)
  BY <1>1, <1>4 DEF ListInv, StatusMatchesList
<1>6. \A q \in Ports : t \notin hold[q]
  BY <1>1, <1>4, <1>5, PortFacts DEF ListInv, StatusMatchesList
<1>7. /\ queue' = [queue EXCEPT ![p] = Tail(queue[p])]
      /\ hold' = [hold EXCEPT ![p] = hold[p] \cup {t}]
      /\ count' = [count EXCEPT ![StatusCurr(p)] = @ - 1, ![NextOnDequeue(p)] = @ + 1]
      /\ status' = [status EXCEPT ![t] = NextOnDequeue(p)]
      /\ held' = [held EXCEPT ![c] = held[c] \cup {t}]
      /\ pc' = [pc EXCEPT ![c] = "idle"]
      /\ phase = "ready" /\ phase' = phase
  BY DEF Dequeue, DelHead, CountMove
<1>8. Len(queue[p]) \in Nat /\ Len(queue[p]) > 0
  BY <1>2, <1>3, EmptyListIff
<1>9. TypeOK'
  <2>1. queue' \in [Ports -> Seq(Tasks)]
    BY <1>1, <1>4, <1>7 DEF ListInv, TypeOK
  <2>2. hold' \in [Ports -> SUBSET Tasks] /\ held' \in [Clients -> SUBSET Tasks]
    BY <1>1, <1>4, <1>7 DEF ListInv, TypeOK
  <2>3. count' \in [Statuses -> Nat]
    <3>1. count \in [Statuses -> Nat] /\ count[StatusCurr(p)] > 0
      BY <1>2, <1>8 DEF ListInv, TypeOK
    <3>2. StatusCurr(p) # NextOnDequeue(p)
      BY <1>1, PortFacts
    <3> HIDE DEF p, t
    <3> QED BY <1>1, <1>7, <3>1, <3>2
  <2>4. status' \in [Tasks -> Statuses \cup {"NONE"}]
    BY <1>1, <1>4, <1>7 DEF ListInv, TypeOK
  <2>5. pc' \in [Clients -> PcStates] /\ phase' \in {"inited", "ready", "freed"}
    BY <1>7 DEF ListInv, TypeOK, PcStates
  <2> QED BY <2>1, <2>2, <2>3, <2>4, <2>5 DEF TypeOK
<1>10. StatusMatchesList'
  <2> SUFFICES ASSUME NEW q \in Ports
               PROVE  /\ \A u \in Tasks :
                            /\ u \in Elems(queue'[q]) <=> status'[u] = StatusCurr(q)
                            /\ u \in hold'[q] <=> status'[u] = NextOnDequeue(q)
                      /\ NoRepeats(queue'[q])
    BY DEF StatusMatchesList, Elems, NoRepeats
  <2>1. \A u \in Tasks : status'[u] = IF u = t THEN NextOnDequeue(p) ELSE status[u]
    BY <1>7 DEF ListInv, TypeOK
  <2>2. /\ Elems(queue'[q]) = Elems(queue[q]) \ {t}
        /\ NoRepeats(queue'[q])
    <3>1. CASE q = p
      BY <1>1, <1>4, <1>7, <3>1 DEF ListInv, TypeOK
    <3>2. CASE q # p
      <4>1. queue'[q] = queue[q]
        BY <1>7, <3>2 DEF ListInv, TypeOK
      <4>2. t \notin Elems(queue[q])
        BY <1>1, <1>4, <1>5, <3>2, PortFacts DEF ListInv, StatusMatchesList
      <4> QED BY <4>1, <4>2 DEF ListInv, StatusMatchesList
    <3> QED BY <3>1, <3>2
  <2>3. hold'[q] = IF q = p THEN hold[q] \cup {t} ELSE hold[q]
    BY <1>7 DEF ListInv, TypeOK
  <2>4. \A u \in Tasks : /\ u \in Elems(queue[q]) <=> status[u] = StatusCurr(q)
                         /\ u \in hold[q] <=> status[u] = NextOnDequeue(q)
    BY DEF ListInv, StatusMatchesList
  <2> HIDE DEF p, t
  <2>5. ASSUME NEW u \in Tasks
        PROVE  u \in Elems(queue'[q]) <=> status'[u] = StatusCurr(q)
    <3>1. CASE u = t
      BY <1>1, <2>1, <2>2, <3>1, PortFacts
    <3>2. CASE u # t
      <4>1. status'[u] = status[u]
        BY <2>1, <3>2
      <4>2. u \in Elems(queue'[q]) <=> u \in Elems(queue[q])
        BY <2>2, <3>2
      <4> QED BY <2>4, <4>1, <4>2
    <3> QED BY <3>1, <3>2
  <2>6. ASSUME NEW u \in Tasks
        PROVE  u \in hold'[q] <=> status'[u] = NextOnDequeue(q)
    <3>1. CASE u = t
      BY <1>1, <1>6, <2>1, <2>3, <3>1, PortFacts
    <3>2. CASE u # t
      <4>1. status'[u] = status[u]
        BY <2>1, <3>2
      <4>2. u \in hold'[q] <=> u \in hold[q]
        BY <2>3, <3>2
      <4> QED BY <2>4, <4>1, <4>2
    <3> QED BY <3>1, <3>2
  <2> QED BY <2>2, <2>5, <2>6
<1>11. CountMatchesList'
  <2> SUFFICES ASSUME NEW q \in Ports
               PROVE  /\ count'[StatusCurr(q)] = Len(queue'[q])
                      /\ count'[NextOnDequeue(q)] = Cardinality(hold'[q])
    BY DEF CountMatchesList
  <2>1. /\ count[StatusCurr(q)] = Len(queue[q]) /\ count[StatusCurr(q)] \in Nat
        /\ count[NextOnDequeue(q)] = Cardinality(hold[q]) /\ count[NextOnDequeue(q)] \in Nat
        /\ StatusCurr(q) \in Statuses /\ NextOnDequeue(q) \in Statuses
    BY PortFacts DEF ListInv, TypeOK, CountMatchesList
  <2>2. TypeOK
    BY DEF ListInv
  <2>3. CASE q = p
    <3>1. Cardinality(hold[p] \cup {t}) = Cardinality(hold[p]) + 1
      BY <1>1, <1>6, <2>2, HoldFinite, FS_AddElement
    <3>2. queue'[q] = Tail(queue[p]) /\ hold'[q] = hold[p] \cup {t}
      BY <1>7, <2>2, <2>3 DEF TypeOK
    <3>3. /\ count'[StatusCurr(q)] = count[StatusCurr(q)] - 1
          /\ count'[NextOnDequeue(q)] = count[NextOnDequeue(q)] + 1
      BY <1>1, <1>7, <2>1, <2>2, <2>3, PortFacts DEF TypeOK
    <3> QED BY <1>4, <2>1, <2>3, <3>1, <3>2, <3>3
  <2>4. CASE q # p
    <3>1. queue'[q] = queue[q] /\ hold'[q] = hold[q]
      BY <1>7, <2>2, <2>4 DEF TypeOK
    <3>2. /\ count'[StatusCurr(q)] = count[StatusCurr(q)]
          /\ count'[NextOnDequeue(q)] = count[NextOnDequeue(q)]
      BY <1>1, <1>7, <2>1, <2>2, <2>4, PortFacts DEF TypeOK
    <3> QED BY <2>1, <3>1, <3>2
  <2> QED BY <2>3, <2>4
<1>12. ExclusiveHold'
  <2>1. \A d \in Clients : held'[d] = IF d = c THEN held[d] \cup {t} ELSE held[d]
    BY <1>7 DEF ListInv, TypeOK
  <2>2. \A q \in Ports : hold'[q] = IF q = p THEN hold[q] \cup {t} ELSE hold[q]
    BY <1>7 DEF ListInv, TypeOK
  <2>3. \A d \in Clients : t \notin held[d]
    BY <1>6, PortFacts DEF ListInv, ExclusiveHold
  <2>4. \A d \in Clients : held'[d] \subseteq hold'[PortOf(d)]
    BY <2>1, <2>2, PortFacts DEF ListInv, ExclusiveHold
  <2>5. \A d, e \in Clients : d # e => held'[d] \cap held'[e] = {}
    <3>1. \A d, e \in Clients : d # e => held[d] \cap held[e] = {}
      BY DEF ListInv, ExclusiveHold
    <3> HIDE DEF t
    <3> QED BY <2>1, <2>3, <3>1
  <2>6. \A q \in Ports : \A u \in hold'[q] : \E d \in Clients : u \in held'[d]
    BY <2>1, <2>2 DEF ListInv, ExclusiveHold
  <2> QED BY <2>4, <2>5, <2>6 DEF ExclusiveHold
<1>13. NothingBeforeSetup'
  BY <1>7 DEF NothingBeforeSetup
<1> QED BY <1>9, <1>10, <1>11, <1>12, <1>13 DEF ListInv

LEMMA SignalType ==
    ASSUME TypeOK, NEW p \in Ports, Signal(p)
    PROVE  pc' \in [Clients -> PcStates]
<1>1. CASE Waiters(p) = {}
  BY <1>1 DEF Signal, TypeOK
<1>2. CASE Waiters(p) # {}
  <2>1. PICK d \in Waiters(p) : pc' = [pc EXCEPT ![d] = "woken"]
    BY <1>2 DEF Signal
  <2> QED BY <2>1 DEF TypeOK, PcStates
<1> QED BY <1>1, <1>2

LEMMA ListEnqueue ==
    ASSUME ListInv, NEW c \in Clients, NEW t \in Tasks, Enqueue(c, t)
    PROVE  ListInv'
<1> DEFINE p == PortOf(c)
           q == Peer(p)
<1>1. /\ p \in Ports /\ q \in Ports /\ p # q
      /\ NextOnEnqueue(p) = StatusCurr(q)
      /\ StatusCurr(q) \in Statuses /\ NextOnDequeue(p) \in Statuses
      /\ StatusCurr(q) # NextOnDequeue(p)
  BY PortFacts
<1>2. t \in held[c] /\ t \in hold[p] /\ status[t] = NextOnDequeue(p)
  BY <1>1 DEF Enqueue, ListInv, ExclusiveHold, StatusMatchesList
<1>3. \A r \in Ports : t \notin Elems(queue[r]) /\ (r # p => t \notin hold[r])
  BY <1>1, <1>2, PortFacts DEF ListInv, StatusMatchesList
<1>4. queue[q] \in Seq(Tasks) /\ NoRepeats(queue[q])
  BY <1>1 DEF ListInv, TypeOK, StatusMatchesList
<1>5. /\ Append(queue[q], t) \in Seq(Tasks)
      /\ Len(Append(queue[q], t)) = Len(queue[q]) + 1
      /\ Elems(Append(queue[q], t)) = Elems(queue[q]) \cup {t}
      /\ NoRepeats(Append(queue[q], t))
  BY <1>1, <1>3, <1>4, AppendFacts
<1>6. /\ queue' = [queue EXCEPT ![q] = Append(queue[q], t)]
      /\ hold' = [hold EXCEPT ![p] = hold[p] \ {t}]
      /\ count' = [count EXCEPT ![NextOnDequeue(p)] = @ - 1, ![StatusCurr(q)] = @ + 1]
      /\ status' = [status EXCEPT ![t] = StatusCurr(q)]
      /\ held' = [held EXCEPT ![c] = held[c] \ {t}]
      /\ Signal(q)
      /\ phase = "ready" /\ phase' = phase
  BY <1>1, <1>2 DEF Enqueue, AddTail, CountMove
<1>7. TypeOK
  BY DEF ListInv
<1>8. /\ Cardinality(hold[p]) \in Nat /\ Cardinality(hold[p]) > 0
      /\ Cardinality(hold[p] \ {t}) = Cardinality(hold[p]) - 1
  <2>1. IsFiniteSet(hold[p]) /\ Cardinality(hold[p]) \in Nat
    BY <1>1, <1>7, HoldFinite
  <2>2. Cardinality(hold[p] \ {t}) = Cardinality(hold[p]) - 1
    BY <1>2, <2>1, FS_RemoveElement
  <2>3. Cardinality(hold[p]) # 0
    BY <1>2, <2>1, FS_EmptySet
  <2> QED BY <2>1, <2>2, <2>3
<1> HIDE DEF p, q
<1>9. \A r \in Ports :
        /\ StatusCurr(r) \in Statuses /\ NextOnDequeue(r) \in Statuses
        /\ count[StatusCurr(r)] = Len(queue[r]) /\ count[StatusCurr(r)] \in Nat
        /\ count[NextOnDequeue(r)] = Cardinality(hold[r]) /\ count[NextOnDequeue(r)] \in Nat
  BY <1>7, PortFacts DEF ListInv, CountMatchesList, TypeOK
<1>10. TypeOK'
  <2>1. queue' \in [Ports -> Seq(Tasks)]
    BY <1>1, <1>5, <1>6, <1>7 DEF TypeOK
  <2>2. hold' \in [Ports -> SUBSET Tasks] /\ held' \in [Clients -> SUBSET Tasks]
    BY <1>1, <1>6, <1>7 DEF TypeOK
  <2>3. count' \in [Statuses -> Nat]
    <3>1. count \in [Statuses -> Nat] /\ count[NextOnDequeue(p)] > 0
      BY <1>1, <1>7, <1>8, <1>9 DEF TypeOK
    <3> QED BY <1>1, <1>6, <3>1
  <2>4. status' \in [Tasks -> Statuses \cup {"NONE"}]
    BY <1>1, <1>6, <1>7 DEF TypeOK
  <2>5. pc' \in [Clients -> PcStates]
    BY <1>1, <1>6, <1>7, SignalType
  <2>6. phase' \in {"inited", "ready", "freed"}
    BY <1>6
  <2> QED BY <2>1, <2>2, <2>3, <2>4, <2>5, <2>6 DEF TypeOK
<1>11. StatusMatchesList'
  <2> SUFFICES ASSUME NEW r \in Ports
               PROVE  /\ \A u \in Tasks :
                            /\ u \in Elems(queue'[r]) <=> status'[u] = StatusCurr(r)
                            /\ u \in hold'[r] <=> status'[u] = NextOnDequeue(r)
                      /\ NoRepeats(queue'[r])
    BY DEF StatusMatchesList, Elems, NoRepeats
  <2>1. \A u \in Tasks : status'[u] = IF u = t THEN StatusCurr(q) ELSE status[u]
    BY <1>6, <1>7 DEF TypeOK
  <2>2. queue'[r] = IF r = q THEN Append(queue[q], t) ELSE queue[r]
    BY <1>1, <1>6, <1>7 DEF TypeOK
  <2>3. hold'[r] = hold[r] \ {t}
    BY <1>1, <1>3, <1>6, <1>7 DEF TypeOK
  <2>4. \A u \in Tasks : u \in Elems(queue[r]) <=> status[u] = StatusCurr(r)
    BY DEF ListInv, StatusMatchesList
  <2>5. \A u \in Tasks : u \in hold[r] <=> status[u] = NextOnDequeue(r)
    BY DEF ListInv, StatusMatchesList
  <2>6. NoRepeats(queue'[r])
    BY <1>5, <2>2 DEF ListInv, StatusMatchesList
  <2>7. ASSUME NEW u \in Tasks
        PROVE  u \in Elems(queue'[r]) <=> status'[u] = StatusCurr(r)
    <3>1. CASE r = q
      BY <1>5, <2>1, <2>2, <2>4, <3>1
    <3>2. CASE r # q
      <4>1. u \in Elems(queue'[r]) <=> status[u] = StatusCurr(r)
        BY <2>2, <2>4, <3>2
      <4>2. StatusCurr(q) # StatusCurr(r)
        BY <1>1, <3>2, PortFacts
      <4>3. status[t] # StatusCurr(r)
        BY <1>3, <2>4
      <4> QED BY <2>1, <4>1, <4>2, <4>3
    <3> QED BY <3>1, <3>2
  <2>8. ASSUME NEW u \in Tasks
        PROVE  u \in hold'[r] <=> status'[u] = NextOnDequeue(r)
    <3>1. StatusCurr(q) # NextOnDequeue(r)
      BY <1>1, PortFacts
    <3> QED BY <2>1, <2>3, <2>5, <3>1
  <2> QED BY <2>6, <2>7, <2>8
<1>12. CountMatchesList'
  <2> SUFFICES ASSUME NEW r \in Ports
               PROVE  /\ count'[StatusCurr(r)] = Len(queue'[r])
                      /\ count'[NextOnDequeue(r)] = Cardinality(hold'[r])
    BY DEF CountMatchesList
  <2>1. count'[StatusCurr(r)] = IF r = q THEN count[StatusCurr(r)] + 1
                                         ELSE count[StatusCurr(r)]
    BY <1>1, <1>6, <1>7, <1>9, PortFacts DEF TypeOK
  <2>2. count'[NextOnDequeue(r)] = IF r = p THEN count[NextOnDequeue(r)] - 1
                                            ELSE count[NextOnDequeue(r)]
    BY <1>1, <1>6, <1>7, <1>9, PortFacts DEF TypeOK
  <2>3. /\ queue'[r] = IF r = q THEN Append(queue[q], t) ELSE queue[r]
        /\ hold'[r] = IF r = p THEN hold[p] \ {t} ELSE hold[r]
    BY <1>1, <1>6, <1>7 DEF TypeOK
  <2> QED BY <1>5, <1>8, <1>9, <2>1, <2>2, <2>3
<1>13. ExclusiveHold'
  <2>1. \A d \in Clients : held'[d] = IF d = c THEN held[d] \ {t} ELSE held[d]
    BY <1>6, <1>7 DEF TypeOK
  <2>2. \A r \in Ports : hold'[r] = IF r = p THEN hold[r] \ {t} ELSE hold[r]
    BY <1>6, <1>7 DEF TypeOK
  <2>3. \A d \in Clients : d # c => t \notin held[d]
    BY <1>2 DEF ListInv, ExclusiveHold
  <2>4. \A d \in Clients : held[d] \subseteq hold[PortOf(d)]
    BY DEF ListInv, ExclusiveHold
  <2>5. \A d \in Clients : held'[d] \subseteq hold'[PortOf(d)]
    BY <2>1, <2>2, <2>3, <2>4, PortFacts DEF p
  <2>6. \A d, e \in Clients : d # e => held'[d] \cap held'[e] = {}
    <3>1. \A d, e \in Clients : d # e => held[d] \cap held[e] = {}
      BY DEF ListInv, ExclusiveHold
    <3> QED BY <2>1, <3>1
  <2>7. ASSUME NEW r \in Ports, NEW u \in hold'[r]
        PROVE  \E d \in Clients : u \in held'[d]
    <3>1. u \in hold[r] /\ u # t
      BY <1>3, <2>2, <2>7
    <3>2. PICK d \in Clients : u \in held[d]
      BY <3>1 DEF ListInv, ExclusiveHold
    <3> QED BY <2>1, <3>1, <3>2
  <2> QED BY <2>5, <2>6, <2>7 DEF ExclusiveHold
<1>14. NothingBeforeSetup'
  BY <1>6 DEF NothingBeforeSetup
<1> QED BY <1>10, <1>11, <1>12, <1>13, <1>14 DEF ListInv

\* The steps that move a thread and leave every task where it is.
PcStep ==
    \/ \E p \in Ports : Awake(p)
    \/ \E c \in Clients :
         \/ Poll(c) \/ PollResume(c) \/ Timeout(c) \/ SpuriousWake(c)
         \/ DequeueEmpty(c)

LEMMA PcStepFacts ==
    ASSUME TypeOK, PcStep
    PROVE  /\ pc' \in [Clients -> PcStates]
           /\ UNCHANGED <<phase, queue, hold, count, status, held>>
<1>1. ASSUME NEW p \in Ports, Awake(p)
      PROVE  /\ pc' \in [Clients -> PcStates]
             /\ UNCHANGED <<phase, queue, hold, count, status, held>>
  BY <1>1, SignalType DEF Awake
<1>2. ASSUME NEW c \in Clients,
             Poll(c) \/ PollResume(c) \/ Timeout(c) \/ SpuriousWake(c) \/ DequeueEmpty(c)
      PROVE  /\ pc' \in [Clients -> PcStates]
             /\ UNCHANGED <<phase, queue, hold, count, status, held>>
  BY <1>2
  DEF TypeOK, PcStates, Poll, PollReady, PollSleep, PollResume, Timeout,
      SpuriousWake, DequeueEmpty
<1> QED BY <1>1, <1>2 DEF PcStep

LEMMA NextCases ==
    ASSUME Next
    PROVE  \/ Setup
           \/ Deinit
           \/ PcStep
           \/ \E c \in Clients : Dequeue(c)
           \/ \E c \in Clients, t \in Tasks : Enqueue(c, t)
BY DEF Next, ClientStep, PcStep

LEMMA ListNext == ListInv /\ [Next]_vars => ListInv'
<1> SUFFICES ASSUME ListInv, [Next]_vars PROVE ListInv'
  OBVIOUS
<1>1. CASE Setup
  BY <1>1, ListSetup
<1>2. CASE Deinit
  BY <1>2, ListUnchanged DEF Deinit, ListInv, TypeOK
<1>3. CASE PcStep
  BY <1>3, PcStepFacts, ListUnchanged DEF ListInv, TypeOK
<1>4. CASE \E c \in Clients : Dequeue(c)
  BY <1>4, ListDequeue
<1>5. CASE \E c \in Clients, t \in Tasks : Enqueue(c, t)
  BY <1>5, ListEnqueue
<1>6. CASE UNCHANGED vars
  BY <1>6, ListUnchanged DEF vars, ListInv, TypeOK
<1> QED BY <1>1, <1>2, <1>3, <1>4, <1>5, <1>6, NextCases

THEOREM ListInvariant == Spec => []ListInv
<1> QED BY ListInit, ListNext, PTL DEF Spec

\* Type correctness: in particular no counter is ever decremented below zero.
THEOREM TypeCorrect == Spec => []TypeOK
<1>1. ListInv => TypeOK
  BY DEF ListInv
<1> QED BY <1>1, ListInvariant, PTL

\* The status of a task, its list and the counters agree at every step, for
\* any number of tasks and threads: the asserts of poll and dequeue hold.
THEOREM ListsAgree == Spec => []ListsMatch
<1>1. ListInv => ListsMatch
  BY DEF ListInv, ListsMatch
<1> QED BY <1>1, ListInvariant, PTL

\* A dequeued task has exactly one owner until that owner enqueues it.
THEOREM OneOwner == Spec => []ExclusiveHold
<1>1. ListInv => ExclusiveHold
  BY DEF ListInv
<1> QED BY <1>1, ListInvariant, PTL

\* All together, as poll, dequeue and enqueue of mpp_task_impl.cpp rely on them.
THEOREM AlwaysConsistent == Spec => []Consistent
<1> QED BY TypeCorrect, ListsAgree, OneOwner, PTL DEF Consistent

-----------------------------------------------------------------------------
(* No lost wake-up *)

LEMMA PendingFinite ==
    ASSUME NEW p \in Ports
    PROVE  IsFiniteSet(Pending(p)) /\ Cardinality(Pending(p)) \in Nat
<1>1. IsFiniteSet(Clients)
  BY ClientsAssumption, FS_Union DEF Clients
<1>2. Pending(p) \subseteq Clients
  BY DEF Pending
<1> QED BY <1>1, <1>2, FS_Subset, FS_CardinalityType

PendingPc == {"woken", "timedout", "polled"}

\* What one thread's move does to the sleepers and to the threads on their way.
LEMMA MoveFacts ==
    ASSUME TypeOK, NEW c \in Clients, NEW v \in PcStates,
           pc' = [pc EXCEPT ![c] = v], NEW p \in Ports
    PROVE  /\ PortOf(c) # p => Waiters(p)' = Waiters(p) /\ Pending(p)' = Pending(p)
           /\ PortOf(c) = p => 
                /\ v \in PendingPc => Pending(p)' = Pending(p) \cup {c}
                /\ v \notin PendingPc => Pending(p)' = Pending(p) \ {c}
                /\ v \notin {"blocked", "timed"} => Waiters(p)' = Waiters(p) \ {c}
<1>1. \A d \in Clients : pc'[d] = IF d = c THEN v ELSE pc[d]
  BY DEF TypeOK
<1> QED BY <1>1 DEF Waiters, Pending, PendingPc

\* A signal moves one sleeper among the threads on their way, if there is one.
LEMMA SignalFacts ==
    ASSUME TypeOK, NEW q \in Ports, Signal(q), NEW p \in Ports
    PROVE  /\ p # q => Waiters(p)' = Waiters(p) /\ Pending(p)' = Pending(p)
           /\ Waiters(q) = {} => Waiters(q)' = {} /\ Pending(q)' = Pending(q)
           /\ Waiters(q) # {} => 
                Cardinality(Pending(q)') = Cardinality(Pending(q)) + 1
<1>1. CASE Waiters(q) = {}
  <2>1. pc' = pc
    BY <1>1 DEF Signal
  <2> QED BY <1>1, <2>1 DEF Waiters, Pending
<1>2. CASE Waiters(q) # {}
  <2>1. PICK d \in Waiters(q) : pc' = [pc EXCEPT ![d] = "woken"]
    BY <1>2 DEF Signal
  <2>2. d \in Clients /\ PortOf(d) = q /\ d \notin Pending(q) /\ "woken" \in PcStates
    BY <2>1 DEF Waiters, Pending, PcStates
  <2>3. Pending(q)' = Pending(q) \cup {d}
    BY <2>1, <2>2, MoveFacts DEF PendingPc
  <2>4. Cardinality(Pending(q)') = Cardinality(Pending(q)) + 1
    BY <2>2, <2>3, PendingFinite, FS_AddElement
  <2>5. p # q => Waiters(p)' = Waiters(p) /\ Pending(p)' = Pending(p)
    BY <2>1, <2>2, MoveFacts
  <2> QED BY <1>2, <2>4, <2>5
<1> QED BY <1>1, <1>2

IdleBeforeSetup == phase = "inited" => \A c \in Clients : pc[c] = "idle"

WakeInv == ListInv /\ IdleBeforeSetup /\ NoLostWakeup

\* A wait changes nothing but one thread's place: sleeping needs an empty
\* list, and leaving without a dequeue needs one too.
LEMMA WakePcMove ==
    ASSUME WakeInv, NEW c \in Clients, NEW v \in PcStates,
           pc' = [pc EXCEPT ![c] = v], count' = count,
           v \in PendingPc \/ count[StatusCurr(PortOf(c))] = 0
    PROVE  NoLostWakeup'
<1> SUFFICES ASSUME NEW p \in Ports, Waiters(p)' # {}
             PROVE  count'[StatusCurr(p)] <= Cardinality(Pending(p)')
  BY DEF NoLostWakeup
<1>1. TypeOK /\ (Waiters(p) # {} => count[StatusCurr(p)] <= Cardinality(Pending(p)))
  BY DEF WakeInv, ListInv, NoLostWakeup
<1>2. /\ IsFiniteSet(Pending(p)) /\ Cardinality(Pending(p)) \in Nat
      /\ count[StatusCurr(p)] \in Nat
  BY <1>1, PendingFinite, PortFacts DEF TypeOK
<1>3. CASE PortOf(c) # p
  BY <1>1, <1>3, MoveFacts
<1>4. CASE PortOf(c) = p /\ v \in PendingPc
  <2>1. Pending(p)' = Pending(p) \cup {c} /\ Waiters(p)' = Waiters(p) \ {c}
    BY <1>1, <1>4, MoveFacts DEF PendingPc
  <2>2. Cardinality(Pending(p) \cup {c}) =
          IF c \in Pending(p) THEN Cardinality(Pending(p))
                              ELSE Cardinality(Pending(p)) + 1
    BY <1>2, FS_AddElement
  <2>3. Cardinality(Pending(p)') >= Cardinality(Pending(p))
    BY <1>2, <2>1, <2>2
  <2>4. Cardinality(Pending(p)') \in Nat
    BY <1>2, <2>1, <2>2
  <2> QED BY <1>1, <1>2, <2>1, <2>3, <2>4
<1>5. CASE PortOf(c) = p /\ v \notin PendingPc
  <2>1. Pending(p)' = Pending(p) \ {c}
    BY <1>1, <1>5, MoveFacts
  <2>2. Cardinality(Pending(p)') \in Nat
    BY <1>2, <2>1, FS_RemoveElement, FS_CardinalityType
  <2> QED BY <1>5, <2>2
<1> QED BY <1>3, <1>4, <1>5

LEMMA WakePcStep ==
    ASSUME WakeInv, PcStep PROVE NoLostWakeup'
<1>1. TypeOK
  BY DEF WakeInv, ListInv
<1>2. ASSUME NEW q \in Ports, Awake(q) PROVE NoLostWakeup'
  <2> SUFFICES ASSUME NEW p \in Ports, Waiters(p)' # {}
               PROVE  count'[StatusCurr(p)] <= Cardinality(Pending(p)')
    BY DEF NoLostWakeup
  <2>1. Signal(q) /\ count' = count
    BY <1>2 DEF Awake
  <2>2. Waiters(p) # {} => count[StatusCurr(p)] <= Cardinality(Pending(p))
    BY DEF WakeInv, NoLostWakeup
  <2>3. Cardinality(Pending(p)) \in Nat /\ count[StatusCurr(p)] \in Nat
    BY <1>1, PendingFinite, PortFacts DEF TypeOK
  <2>4. CASE p # q
    BY <1>1, <2>1, <2>2, <2>4, SignalFacts
  <2>5. CASE p = q
    <3>1. Waiters(p) # {}
      BY <1>1, <2>1, <2>5, SignalFacts
    <3>2. Cardinality(Pending(p)') = Cardinality(Pending(p)) + 1
      BY <1>1, <2>1, <2>5, <3>1, SignalFacts
    <3> QED BY <2>1, <2>2, <2>3, <3>1, <3>2
  <2> QED BY <2>4, <2>5
<1>3. ASSUME NEW c \in Clients,
             Poll(c) \/ PollResume(c) \/ Timeout(c) \/ SpuriousWake(c) \/ DequeueEmpty(c)
      PROVE  NoLostWakeup'
  <2>1. count' = count /\ count[StatusCurr(PortOf(c))] \in Nat
    BY <1>1, <1>3, PortFacts
    DEF TypeOK, Poll, PollReady, PollSleep, PollResume, Timeout, SpuriousWake, DequeueEmpty
  <2>2. \E v \in PcStates :
          /\ pc' = [pc EXCEPT ![c] = v]
          /\ v \in PendingPc \/ count[StatusCurr(PortOf(c))] = 0
    <3>1. CASE PollReady(c)
      BY <3>1 DEF PollReady, PcStates, PendingPc
    <3>2. CASE \E how \in {"blocked", "timed"} : PollSleep(c, how)
      BY <3>2 DEF PollSleep, PcStates, PendingPc
    <3>3. CASE PollResume(c)
      <4>1. CASE pc[c] = "woken" \/ count[StatusCurr(PortOf(c))] > 0
        BY <3>3, <4>1 DEF PollResume, PcStates, PendingPc
      <4>2. CASE ~(pc[c] = "woken" \/ count[StatusCurr(PortOf(c))] > 0)
        <5>1. count[StatusCurr(PortOf(c))] = 0
          BY <2>1, <4>2
        <5>2. pc' = [pc EXCEPT ![c] = "idle"]
          BY <3>3, <4>2 DEF PollResume
        <5> QED BY <5>1, <5>2 DEF PcStates
      <4> QED BY <4>1, <4>2
    <3>4. CASE Timeout(c)
      BY <3>4 DEF Timeout, PcStates, PendingPc
    <3>5. CASE SpuriousWake(c)
      BY <3>5 DEF SpuriousWake, PcStates, PendingPc
    <3>6. CASE DequeueEmpty(c)
      BY <3>6 DEF DequeueEmpty, PcStates, PendingPc
    <3> QED BY <1>3, <3>1, <3>2, <3>3, <3>4, <3>5, <3>6 DEF Poll
  <2> QED BY <2>1, <2>2, WakePcMove
<1> QED BY <1>2, <1>3 DEF PcStep

LEMMA WakeDequeue ==
    ASSUME WakeInv, NEW c \in Clients, Dequeue(c) PROVE NoLostWakeup'
<1> DEFINE q == PortOf(c)
<1> SUFFICES ASSUME NEW p \in Ports, Waiters(p)' # {}
             PROVE  count'[StatusCurr(p)] <= Cardinality(Pending(p)')
  BY DEF NoLostWakeup
<1>1. TypeOK /\ (Waiters(p) # {} => count[StatusCurr(p)] <= Cardinality(Pending(p)))
  BY DEF WakeInv, ListInv, NoLostWakeup
<1>2. /\ IsFiniteSet(Pending(p)) /\ Cardinality(Pending(p)) \in Nat
      /\ count[StatusCurr(p)] \in Nat
  BY <1>1, PendingFinite, PortFacts DEF TypeOK
<1>3. /\ pc[c] = "polled" /\ pc' = [pc EXCEPT ![c] = "idle"] /\ "idle" \in PcStates
      /\ count' = [count EXCEPT ![StatusCurr(q)] = @ - 1, ![NextOnDequeue(q)] = @ + 1]
  BY DEF Dequeue, CountMove, PcStates
<1>4. count'[StatusCurr(p)] = IF p = q THEN count[StatusCurr(p)] - 1
                                       ELSE count[StatusCurr(p)]
  BY <1>1, <1>3, PortFacts DEF TypeOK
<1>5. CASE p # q
  BY <1>1, <1>3, <1>4, <1>5, MoveFacts
<1>6. CASE p = q
  <2> "idle" \notin PendingPc /\ "idle" \notin {"blocked", "timed"}
    BY DEF PendingPc
  <2>1. Pending(p)' = Pending(p) \ {c} /\ Waiters(p)' = Waiters(p) \ {c}
    <3> HIDE DEF q
    <3>1. PortOf(c) = p
      BY <1>6 DEF q
    <3> QED BY <1>1, <1>3, <3>1, MoveFacts
  <2>2. c \in Pending(p)
    BY <1>3, <1>6 DEF Pending
  <2>3. Cardinality(Pending(p)') = Cardinality(Pending(p)) - 1
    BY <1>2, <2>1, <2>2, FS_RemoveElement
  <2> QED BY <1>1, <1>2, <1>4, <1>6, <2>1, <2>3
<1> QED BY <1>5, <1>6

LEMMA WakeEnqueue ==
    ASSUME WakeInv, NEW c \in Clients, NEW t \in Tasks, Enqueue(c, t)
    PROVE  NoLostWakeup'
<1> DEFINE q == Peer(PortOf(c))
<1> SUFFICES ASSUME NEW p \in Ports, Waiters(p)' # {}
             PROVE  count'[StatusCurr(p)] <= Cardinality(Pending(p)')
  BY DEF NoLostWakeup
<1>1. TypeOK /\ (Waiters(p) # {} => count[StatusCurr(p)] <= Cardinality(Pending(p)))
  BY DEF WakeInv, ListInv, NoLostWakeup
<1>2. Cardinality(Pending(p)) \in Nat /\ count[StatusCurr(p)] \in Nat
  BY <1>1, PendingFinite, PortFacts DEF TypeOK
<1>3. status[t] = NextOnDequeue(PortOf(c)) /\ PortOf(c) \in Ports /\ q \in Ports
  BY PortFacts DEF Enqueue, WakeInv, ListInv, ExclusiveHold, StatusMatchesList
<1>4. /\ Signal(q)
      /\ count' = [count EXCEPT ![status[t]] = @ - 1, ![StatusCurr(q)] = @ + 1]
  BY <1>3, PortFacts DEF Enqueue, CountMove
<1>5. count'[StatusCurr(p)] = IF p = q THEN count[StatusCurr(p)] + 1
                                       ELSE count[StatusCurr(p)]
  BY <1>1, <1>3, <1>4, PortFacts DEF TypeOK
<1>6. CASE p # q
  BY <1>1, <1>3, <1>4, <1>5, <1>6, SignalFacts
<1>7. CASE p = q
  <2>1. Waiters(p) # {}
    BY <1>1, <1>3, <1>4, <1>7, SignalFacts
  <2>2. Cardinality(Pending(p)') = Cardinality(Pending(p)) + 1
    BY <1>1, <1>3, <1>4, <1>7, <2>1, SignalFacts
  <2> QED BY <1>1, <1>2, <1>5, <1>7, <2>1, <2>2
<1> QED BY <1>6, <1>7

LEMMA WakeSetup == ASSUME WakeInv, Setup PROVE NoLostWakeup'
<1>1. \A c \in Clients : pc'[c] = "idle"
  BY DEF WakeInv, IdleBeforeSetup, Setup
<1>2. \A p \in Ports : Waiters(p)' = {}
  BY <1>1 DEF Waiters
<1> QED BY <1>2 DEF NoLostWakeup

LEMMA IdleNext == ASSUME WakeInv, [Next]_vars PROVE IdleBeforeSetup'
<1>1. CASE Setup \/ Deinit
  BY <1>1 DEF Setup, Deinit, IdleBeforeSetup
<1>2. CASE PcStep
  <2>1. CASE \E p \in Ports : Awake(p)
    BY <2>1 DEF Awake, IdleBeforeSetup
  <2>2. CASE \E c \in Clients :
               \/ Poll(c) \/ PollResume(c) \/ Timeout(c) \/ SpuriousWake(c)
               \/ DequeueEmpty(c)
    BY <2>2 DEF WakeInv, IdleBeforeSetup, Poll, PollReady, PollSleep, MayPoll,
                PollResume, Timeout, SpuriousWake, DequeueEmpty
  <2> QED BY <1>2, <2>1, <2>2 DEF PcStep
<1>3. CASE \E c \in Clients : Dequeue(c)
  BY <1>3 DEF Dequeue, IdleBeforeSetup
<1>4. CASE \E c \in Clients, t \in Tasks : Enqueue(c, t)
  BY <1>4 DEF Enqueue, IdleBeforeSetup
<1>5. CASE UNCHANGED vars
  BY <1>5 DEF vars, WakeInv, IdleBeforeSetup
<1> QED BY <1>1, <1>2, <1>3, <1>4, <1>5, NextCases

LEMMA WakeNext == WakeInv /\ [Next]_vars => WakeInv'
<1> SUFFICES ASSUME WakeInv, [Next]_vars PROVE WakeInv'
  OBVIOUS
<1>1. ListInv' /\ IdleBeforeSetup'
  BY ListNext, IdleNext DEF WakeInv
<1>2. ASSUME pc' = pc, count' = count PROVE NoLostWakeup'
  BY <1>2 DEF WakeInv, NoLostWakeup, Waiters, Pending
<1>3. NoLostWakeup'
  <2>1. CASE Setup
    BY <2>1, WakeSetup
  <2>2. CASE Deinit
    BY <1>2, <2>2 DEF Deinit
  <2>3. CASE PcStep
    BY <2>3, WakePcStep
  <2>4. CASE \E c \in Clients : Dequeue(c)
    BY <2>4, WakeDequeue
  <2>5. CASE \E c \in Clients, t \in Tasks : Enqueue(c, t)
    BY <2>5, WakeEnqueue
  <2>6. CASE UNCHANGED vars
    BY <1>2, <2>6 DEF vars
  <2> QED BY <2>1, <2>2, <2>3, <2>4, <2>5, <2>6, NextCases
<1> QED BY <1>1, <1>3 DEF WakeInv

\* No thread sleeps next to a task: the single signal of enqueue is enough for
\* any number of threads, tasks, time-outs and stray wake-ups.
THEOREM NoLostWakeupAlways == Spec => []NoLostWakeup
<1>1. Init => WakeInv
  <2>1. Init => \A p \in Ports : Waiters(p) = {}
    BY DEF Init, Waiters
  <2> QED BY <2>1, ListInit DEF Init, WakeInv, IdleBeforeSetup, NoLostWakeup
<1>2. WakeInv => NoLostWakeup
  BY DEF WakeInv
<1> QED BY <1>1, <1>2, WakeNext, PTL DEF Spec

-----------------------------------------------------------------------------
(* The flow of the statuses, and the refinement of the channel *)

LEMMA NextStatusFacts ==
    ASSUME NEW p \in Ports
    PROVE  /\ NextStatus(StatusCurr(p)) = NextOnDequeue(p)
           /\ NextStatus(NextOnDequeue(p)) = NextOnEnqueue(p)
BY DEF Ports, NextStatus, StatusCurr, NextOnDequeue, NextOnEnqueue, Peer

\* What a dequeue and an enqueue do to the lists.
LEMMA DequeueMoves ==
    ASSUME ListInv, NEW c \in Clients, Dequeue(c)
    PROVE  LET p == PortOf(c)
               t == Head(queue[p])
           IN  /\ t \in Tasks /\ queue[p] # << >>
               /\ status[t] = StatusCurr(p)
               /\ queue' = [queue EXCEPT ![p] = Tail(queue[p])]
               /\ hold' = [hold EXCEPT ![p] = hold[p] \cup {t}]
               /\ Elems(queue[p]) = Elems(Tail(queue[p])) \cup {t}
<1> DEFINE p == PortOf(c)
<1>1. p \in Ports
  BY PortFacts
<1>2. queue[p] \in Seq(Tasks) /\ count[StatusCurr(p)] = Len(queue[p]) /\ NoRepeats(queue[p])
  BY <1>1 DEF ListInv, TypeOK, CountMatchesList, StatusMatchesList
<1>3. queue[p] # << >>
  BY <1>2, EmptyListIff DEF Dequeue
<1>4. /\ Head(queue[p]) \in Tasks /\ Head(queue[p]) \in Elems(queue[p])
      /\ Elems(queue[p]) = Elems(Tail(queue[p])) \cup {Head(queue[p])}
  BY <1>2, <1>3, TailFacts
<1>5. status[Head(queue[p])] = StatusCurr(p)
  BY <1>1, <1>4 DEF ListInv, StatusMatchesList
<1> QED BY <1>3, <1>4, <1>5 DEF Dequeue, DelHead

LEMMA EnqueueMoves ==
    ASSUME ListInv, NEW c \in Clients, NEW t \in Tasks, Enqueue(c, t)
    PROVE  LET p == PortOf(c)
               q == Peer(p)
           IN  /\ status[t] = NextOnDequeue(p) /\ t \in hold[p]
               /\ queue[q] \in Seq(Tasks)
               /\ queue' = [queue EXCEPT ![q] = Append(queue[q], t)]
               /\ hold' = [hold EXCEPT ![p] = hold[p] \ {t}]
               /\ \A r \in Ports : t \notin Elems(queue[r])
<1> DEFINE p == PortOf(c)
           q == Peer(p)
<1>1. p \in Ports /\ q \in Ports
  BY PortFacts
<1>2. t \in held[c] /\ t \in hold[p] /\ status[t] = NextOnDequeue(p)
  BY <1>1 DEF Enqueue, ListInv, ExclusiveHold, StatusMatchesList
<1>3. \A r \in Ports : t \notin Elems(queue[r])
  BY <1>1, <1>2, PortFacts DEF ListInv, StatusMatchesList
<1>4. queue[q] \in Seq(Tasks)
  BY <1>1 DEF ListInv, TypeOK
<1> QED BY <1>2, <1>3, <1>4 DEF Enqueue, AddTail

\* "The status transform flow is unidirectional": apart from the setup a step
\* moves at most one task, by one place round the ring of four statuses.
THEOREM FlowIsUnidirectional == Spec => UnidirectionalFlow
<1>1. ASSUME ListInv, [Next]_vars PROVE [RingStep]_vars
  <2>1. CASE Setup
    BY <2>1 DEF Setup, RingStep
  <2>2. CASE Deinit
    BY <2>2 DEF Deinit, RingStep
  <2>3. CASE PcStep
    BY <1>1, <2>3, PcStepFacts DEF ListInv, RingStep
  <2>4. ASSUME NEW c \in Clients, Dequeue(c) PROVE RingStep
    <3> DEFINE p == PortOf(c)
               t == Head(queue[p])
    <3>1. t \in Tasks /\ status[t] = StatusCurr(p) /\ p \in Ports
      BY <1>1, <2>4, DequeueMoves, PortFacts
    <3>2. status' = [status EXCEPT ![t] = NextOnDequeue(p)]
      BY <2>4 DEF Dequeue
    <3>3. NextStatus(status[t]) = NextOnDequeue(p)
      BY <3>1, NextStatusFacts
    <3> HIDE DEF p, t
    <3>4. status' = [status EXCEPT ![t] = NextStatus(status[t])]
      BY <3>2, <3>3
    <3> QED BY <3>1, <3>4 DEF RingStep
  <2>5. ASSUME NEW c \in Clients, NEW t \in Tasks, Enqueue(c, t) PROVE RingStep
    BY <1>1, <2>5, EnqueueMoves, NextStatusFacts, PortFacts DEF Enqueue, RingStep
  <2>6. CASE UNCHANGED vars
    BY <2>6
  <2> QED BY <1>1, <2>1, <2>2, <2>3, <2>4, <2>5, <2>6, NextCases
<1> QED BY <1>1, ListInvariant, PTL DEF Spec, UnidirectionalFlow

\* The step simulation: a setup opens the channel, the input port's enqueue
\* submits, the output port's dequeue takes and its enqueue releases; every
\* other step, the input port's dequeue included, leaves the channel as it is.
LEMMA ChannelStep ==
    ASSUME ListInv, [Next]_vars PROVE [Channel!Next]_(Channel!chanVars)
<1> DEFINE prod == Elems(queue["INPUT"]) \cup hold["INPUT"]
<1>0. /\ "INPUT" \in Ports /\ "OUTPUT" \in Ports
      /\ Peer("INPUT") = "OUTPUT" /\ Peer("OUTPUT") = "INPUT"
      /\ \A p \in Ports : p = "INPUT" \/ p = "OUTPUT"
      /\ \A c \in Clients : PortOf(c) \in Ports
      /\ queue \in [Ports -> Seq(Tasks)] /\ hold \in [Ports -> SUBSET Tasks]
  BY PortFacts DEF Ports, Peer, ListInv, TypeOK
<1>1. ASSUME UNCHANGED <<queue, hold>> PROVE UNCHANGED Channel!chanVars
  BY <1>1 DEF Channel!chanVars, Elems
<1>2. CASE Setup
  <2>1. \A t \in Tasks : status[t] = "NONE"
    BY <1>2 DEF Setup, ListInv, NothingBeforeSetup
  <2>2. ASSUME NEW p \in Ports
        PROVE  queue[p] = << >> /\ Elems(queue[p]) = {} /\ hold[p] = {}
    <3>1. \A t \in Tasks : t \notin Elems(queue[p]) /\ t \notin hold[p]
      BY <2>1, PortFacts DEF ListInv, StatusMatchesList
    <3>2. queue[p] \in Seq(Tasks) /\ hold[p] \subseteq Tasks
      BY <1>0
    <3>3. queue[p] = << >>
      BY <3>1, <3>2, TailFacts
    <3> QED BY <3>1, <3>2, <3>3 DEF Elems
  <2>3. queue["OUTPUT"] = << >>
    BY <1>0, <2>2
  <2>4. /\ Elems(queue["INPUT"])' = Tasks
        /\ queue'["OUTPUT"] = queue["OUTPUT"] /\ hold' = hold
    BY <1>0, <1>2 DEF Setup, Elems
  <2> QED BY <1>0, <2>2, <2>3, <2>4
          DEF Channel!Next, Channel!Open, Channel!Tasks, Tasks
<1>3. CASE Deinit \/ PcStep \/ UNCHANGED vars
  BY <1>1, <1>3, PcStepFacts DEF Deinit, vars, ListInv
<1>4. ASSUME NEW c \in Clients, Dequeue(c) PROVE [Channel!Next]_(Channel!chanVars)
  <2>1. CASE PortOf(c) = "INPUT"
    <3>1. /\ queue'["INPUT"] = Tail(queue["INPUT"])
          /\ hold'["INPUT"] = hold["INPUT"] \cup {Head(queue["INPUT"])}
          /\ queue'["OUTPUT"] = queue["OUTPUT"] /\ hold'["OUTPUT"] = hold["OUTPUT"]
      BY <1>0, <1>4, <2>1, DequeueMoves
    <3>2. Elems(queue["INPUT"]) = Elems(Tail(queue["INPUT"])) \cup {Head(queue["INPUT"])}
      BY <1>0, <1>4, <2>1, DequeueMoves
    <3>3. Elems(queue["INPUT"])' = Elems(Tail(queue["INPUT"]))
      BY <3>1 DEF Elems
    <3> QED BY <3>1, <3>2, <3>3 DEF Channel!chanVars
  <2>2. CASE PortOf(c) = "OUTPUT"
    <3>1. /\ queue'["OUTPUT"] = Tail(queue["OUTPUT"]) /\ queue["OUTPUT"] # << >>
          /\ hold'["OUTPUT"] = hold["OUTPUT"] \cup {Head(queue["OUTPUT"])}
          /\ queue'["INPUT"] = queue["INPUT"] /\ hold'["INPUT"] = hold["INPUT"]
      BY <1>0, <1>4, <2>2, DequeueMoves
    <3>2. Elems(queue["INPUT"])' = Elems(queue["INPUT"])
      BY <3>1 DEF Elems
    <3> QED BY <3>1, <3>2 DEF Channel!Next, Channel!Take
  <2> QED BY <1>0, <2>1, <2>2
<1>5. ASSUME NEW c \in Clients, NEW t \in Tasks, Enqueue(c, t)
      PROVE  [Channel!Next]_(Channel!chanVars)
  <2>1. CASE PortOf(c) = "INPUT"
    <3>1. /\ queue'["OUTPUT"] = Append(queue["OUTPUT"], t)
          /\ hold'["INPUT"] = hold["INPUT"] \ {t} /\ t \in hold["INPUT"]
          /\ queue'["INPUT"] = queue["INPUT"] /\ hold'["OUTPUT"] = hold["OUTPUT"]
          /\ t \notin Elems(queue["INPUT"])
      BY <1>0, <1>5, <2>1, EnqueueMoves
    <3>2. Elems(queue["INPUT"])' = Elems(queue["INPUT"])
      BY <3>1 DEF Elems
    <3>3. Channel!Submit(t)
      BY <3>1, <3>2 DEF Channel!Submit
    <3> QED BY <3>3 DEF Channel!Next, Channel!Tasks, Tasks
  <2>2. CASE PortOf(c) = "OUTPUT"
    <3>1. /\ queue'["INPUT"] = Append(queue["INPUT"], t)
          /\ hold'["OUTPUT"] = hold["OUTPUT"] \ {t} /\ t \in hold["OUTPUT"]
          /\ queue'["OUTPUT"] = queue["OUTPUT"] /\ hold'["INPUT"] = hold["INPUT"]
          /\ queue["INPUT"] \in Seq(Tasks)
      BY <1>0, <1>5, <2>2, EnqueueMoves
    <3>2. Elems(Append(queue["INPUT"], t)) = Elems(queue["INPUT"]) \cup {t}
      BY <3>1, AppendFacts
    <3>3. Elems(queue["INPUT"])' = Elems(queue["INPUT"]) \cup {t}
      BY <3>1, <3>2 DEF Elems
    <3>4. Channel!Release(t)
      BY <3>1, <3>3 DEF Channel!Release
    <3> QED BY <3>4 DEF Channel!Next, Channel!Tasks, Tasks
  <2> QED BY <1>0, <2>1, <2>2
<1> QED BY <1>2, <1>3, <1>4, <1>5, NextCases

\* The queue implements the FIFO channel between its two sides.
THEOREM QueueImplementsChannel == Spec => ImplementsChannel
<1>1. Init => Channel!Init
  BY DEF Init, Channel!Init, Elems, Ports
<1> QED BY <1>1, ListInvariant, ChannelStep, PTL
        DEF Spec, ImplementsChannel, Channel!Spec

-----------------------------------------------------------------------------
(* The references of the encoder *)

\* The records of which a handler changes single fields: the wishes of the
\* user and the decoder.
HasWishes(f) ==
    f = [idr |-> f.idr, lt |-> f.lt, use |-> f.use, pskip |-> f.pskip]

HasFrames(d) == d = [fs |-> d.fs, room |-> d.room]

\* What the manager knows of a frame.
HasStatus(frm) ==
    frm = [seq |-> frm.seq, idr |-> frm.idr, nonref |-> frm.nonref, lt |-> frm.lt,
           idx |-> frm.idx, tid |-> frm.tid, mode |-> frm.mode, arg |-> frm.arg]

WishesTyped == HasWishes(force) /\ force.idr \in BOOLEAN /\ HasFrames(dec)

\* The frame in work is in the stream what it is for the manager, and it is an
\* IDR frame while the wish for one stands.
WishInWork ==
    ~Idle => /\ coded.slice.idr = coded.curr.idr
             /\ force.idr => coded.curr.idr

IdrInv == WishesTyped /\ WishInWork

-----------------------------------------------------------------------------
(* The operators *)

\* A frame that is marked long-term, or changed by what the user forces, is an
\* IDR frame if and only if it was one before.
LEMMA MarkLongKeepsIdr ==
    ASSUME NEW frm, NEW c, HasStatus(frm)
    PROVE  HasStatus(MarkLong(frm, c)) /\ MarkLong(frm, c).idr = frm.idr
  <1> DEFINE own == c.mode # "st_setup"
  <1>1. MarkLong(frm, c) =
          [frm EXCEPT !.nonref = FALSE, !.lt = TRUE, !.idx = c.idx, !.tid = 0,
                      !.mode = IF own THEN c.mode ELSE frm.mode,
                      !.arg = IF own THEN c.arg ELSE frm.arg]
    BY Zenon DEF MarkLong
  <1>2. MarkLong(frm, c) =
          [seq |-> frm.seq, idr |-> frm.idr, nonref |-> FALSE, lt |-> TRUE,
           idx |-> c.idx, tid |-> 0,
           mode |-> IF own THEN c.mode ELSE frm.mode,
           arg |-> IF own THEN c.arg ELSE frm.arg]
    BY <1>1 DEF HasStatus
  <1> QED  BY <1>2 DEF HasStatus

LEMMA ForceKeepsIdr ==
    ASSUME NEW frm, NEW f, HasStatus(frm)
    PROVE  HasStatus(ForceFrame(frm, f)) /\ ForceFrame(frm, f).idr = frm.idr
  BY DEF HasStatus, ForceFrame

\* The next frame is an IDR frame if and only if the cpb counts from zero.
LEMMA NextFrameIdr ==
    ASSUME NEW b, NEW c, NEW st
    PROVE  /\ HasStatus(NextFrame(b, c, st).frm)
           /\ NextFrame(b, c, st).frm.idr = (b.seq = 0)
  <1> DEFINE frm == Frame(b.seq, st)
             due == {i \in DOMAIN c.lt : Due(b.cnter[i])}
             marked == MarkLong(frm, c.lt[Min(due)])
  <1>1. HasStatus(frm) /\ frm.idr = (b.seq = 0)
    BY DEF HasStatus, Frame
  <1>2. HasStatus(marked) /\ marked.idr = frm.idr
    BY <1>1, MarkLongKeepsIdr
  <1>3. NextFrame(b, c, st).frm = IF due = {} THEN frm ELSE marked
    BY DEF NextFrame
  <1> QED  BY <1>1, <1>2, <1>3

\* mpp_enc_refs_get_cpb answers a wish for an IDR frame with one.
LEMMA WishGetsIdr ==
    ASSUME NEW b, NEW c, NEW n, NEW ch, NEW f, f.idr
    PROVE  GetCpb(b, c, n, ch, f).curr.idr = TRUE
  <1> DEFINE cleanup == (n > 0 /\ b.seq >= n) \/ f.idr
             c0 == IF cleanup THEN Cleaned(c)
                   ELSE IF ch THEN [b EXCEPT !.pos = 0, !.rep = 0] ELSE b
             st == c.st[StCfgPos(c0.pos, c) + 1]
             frm == NextFrame(c0, c, st).frm
  <1>0. cleanup
    OBVIOUS
  <1>1. c0 = Cleaned(c)
    BY <1>0, Zenon
  <1>2. c0.seq = 0
    BY <1>1 DEF Cleaned
  <1>3. HasStatus(frm) /\ frm.idr = (c0.seq = 0)
    BY NextFrameIdr
  <1>4. GetCpb(b, c, n, ch, f).curr = ForceFrame(frm, f)
    BY DEF GetCpb
  <1>5. frm.idr = TRUE
    BY <1>2, <1>3
  <1>6. ForceFrame(frm, f).idr = frm.idr
    BY <1>3, ForceKeepsIdr
  <1> HIDE DEF frm
  <1> QED  BY <1>4, <1>5, <1>6

\* The frame's status goes to the slice header as it is.
LEMMA CodeIdr ==
    ASSUME NEW buffer, NEW cs, NEW p
    PROVE  /\ Code(buffer, cs, p).frame.curr = cs.curr
           /\ Code(buffer, cs, p).frame.slice.idr = cs.curr.idr
  BY DEF Code, Proc

\* The decoder keeps its form, and an IDR frame leaves it alone there.
LEMMA StoreFrames ==
    ASSUME NEW d, NEW slice, NEW p, HasFrames(d)
    PROVE  /\ HasFrames(Store(d, slice, p))
           /\ slice.idr => Len(Store(d, slice, p).fs) = 1
  <1> DEFINE me == Entry(slice, p, slice.long)
  <1>1. Store(d, slice, p) = [fs |-> Kept(d, slice, me), room |-> d.room]
    BY DEF Store, HasFrames
  <1>2. slice.idr => Kept(d, slice, me) = << me >>
    BY DEF Kept
  <1>3. Len(<< me >>) = 1
    OBVIOUS
  <1> QED  BY <1>1, <1>2, <1>3 DEF HasFrames

LEMMA SendFrames ==
    ASSUME NEW frame, NEW p, HasFrames(dec), Send(frame, p)
    PROVE  /\ HasFrames(dec')
           /\ frame.slice.idr => /\ last'.idr /\ ~lost'
                                 /\ Len(dec'.fs) = 1
  <1> DEFINE to == IF frame.slice.idr THEN [dec EXCEPT !.room = sps] ELSE dec
  <1>1. HasFrames(to)
    BY DEF HasFrames
  <1>2. /\ lost' = (lost /\ ~frame.slice.idr)
        /\ dec' = IF lost' THEN dec ELSE Store(to, frame.slice, p)
        /\ last'.idr = frame.slice.idr
    BY DEF Send
  <1>3. /\ HasFrames(Store(to, frame.slice, p))
        /\ frame.slice.idr => Len(Store(to, frame.slice, p).fs) = 1
    BY <1>1, StoreFrames
  <1> HIDE DEF to
  <1> QED  BY <1>2, <1>3

-----------------------------------------------------------------------------
(* The steps *)

\* A frame in work is never an empty record.
LEMMA FramesAreInWork ==
    ASSUME NEW buffer, NEW cs, NEW p
    PROVE  Code(buffer, cs, p).frame # << >>
  BY DEF Code

\* A wish record with one of its fields changed is a wish record.
LEMMA WishChanged ==
    ASSUME NEW f, HasWishes(f), NEW g
    PROVE  HasWishes([f EXCEPT !.idr = g]) /\ [f EXCEPT !.idr = g].idr = g
  <1>1. [f EXCEPT !.idr = g] =
          [idr |-> g, lt |-> f.lt, use |-> f.use, pskip |-> f.pskip]
    BY DEF HasWishes
  <1> QED  BY <1>1 DEF HasWishes

\* The same for the wish to skip.
LEMMA WishSkips ==
    ASSUME NEW f, HasWishes(f), NEW s
    PROVE  HasWishes([f EXCEPT !.pskip = s]) /\ [f EXCEPT !.pskip = s].idr = f.idr
  <1>1. [f EXCEPT !.pskip = s] =
          [idr |-> f.idr, lt |-> f.lt, use |-> f.use, pskip |-> s]
    BY DEF HasWishes
  <1> QED  BY <1>1 DEF HasWishes

\* At the start nobody wishes anything and no frame is in work.
LEMMA IdrInit == EncInit => IdrInv
  BY DEF EncInit, IdrInv, WishesTyped, WishInWork, HasWishes, HasFrames, NoForce, Idle

\* The status of the next frame is an IDR frame's if one was wished for.
LEMMA WishIsNext ==
    ASSUME NEW from, NEW f, HasWishes(f), f.idr
    PROVE  CpbStatus(from, f).curr.idr = TRUE
  <1> DEFINE wish == f.idr \/ "igop" \in changed
             g == [f EXCEPT !.idr = wish]
  <1>1. CpbStatus(from, f) = GetCpb(from, cfg, igop, "cfg" \in changed, g)
    BY DEF CpbStatus
  <1>2. wish
    OBVIOUS
  <1>3. g.idr = wish
    <2> HIDE DEF wish
    <2> QED  BY WishChanged
  <1> HIDE DEF wish, g
  <1>4. g.idr
    BY <1>2, <1>3
  <1> QED  BY <1>1, <1>4, WishGetsIdr

\* Commands add wishes; they find no frame in work.
LEMMA CommandKeepsWish ==
    ASSUME IdrInv,
           NEW c, NEW n, SetRefCfg(c) \/ SetIdr \/ SetGop(n)
    PROVE  IdrInv' /\ (force.idr => force'.idr)
  <1>1. WishesTyped'
    <2>1. CASE SetRefCfg(c)
      BY <2>1 DEF SetRefCfg, IdrInv, WishesTyped, HasWishes, HasFrames, streamVars
    <2>2. CASE SetIdr \/ SetGop(n)
      <3>1. force' = [force EXCEPT !.idr = TRUE] /\ dec' = dec
        BY <2>2 DEF SetIdr, SetGop, Resend, streamVars
      <3>2. HasWishes(force') /\ force'.idr = TRUE
        BY <3>1, WishChanged DEF IdrInv, WishesTyped
      <3> QED  BY <3>1, <3>2 DEF IdrInv, WishesTyped, HasWishes, HasFrames
    <2> QED  BY <2>1, <2>2
  <1>2. Idle /\ coded' = coded
    BY DEF SetRefCfg, SetIdr, SetGop, dpbVars
  <1>3. force.idr => force'.idr
    <2>1. SetRefCfg(c) => force' = force
      BY DEF SetRefCfg
    <2>2. SetIdr \/ SetGop(n) => force' = [force EXCEPT !.idr = TRUE]
      BY DEF SetIdr, SetGop, Resend
    <2>3. [force EXCEPT !.idr = TRUE].idr = TRUE
      BY WishChanged DEF IdrInv, WishesTyped
    <2> QED  BY <2>1, <2>2, <2>3
  <1> QED  BY <1>1, <1>2, <1>3 DEF IdrInv, WishInWork, Idle

\* A frame is encoded as the IDR frame that is wished for; the wish stands.
LEMMA EncodeKeepsWish ==
    ASSUME IdrInv, NEW mark, NEW use, Encode(mark, use)
    PROVE  IdrInv' /\ (force.idr => force'.idr)
  <1> DEFINE m == IF mark >= 0 THEN mark ELSE force.lt
             u == IF use >= 0 THEN use ELSE force.use
             f == [force EXCEPT !.lt = m, !.use = u]
             cs == CpbStatus(cpb, f)
             buffer == IF hdr THEN dpb ELSE DpbSetup(cfg.info)
             code == Code(buffer, cs, pictures + 1)
  <1>1. force' = f /\ coded' = code.frame /\ dec' = dec
    BY DEF Encode
  <1>2. HasWishes(f) /\ f.idr = force.idr
    <2> HIDE DEF m, u
    <2>1. force' = [force EXCEPT !.lt = m, !.use = u]
      BY <1>1
    <2>2. force' = [idr |-> force.idr, lt |-> m, use |-> u, pskip |-> force.pskip]
      BY <2>1 DEF IdrInv, WishesTyped, HasWishes
    <2>3. HasWishes(force') /\ force'.idr = force.idr
      BY <2>2 DEF HasWishes
    <2> HIDE DEF f
    <2> QED  BY <1>1, <2>3
  <1>3. /\ code.frame.curr = cs.curr /\ code.frame.slice.idr = cs.curr.idr
    BY CodeIdr
  <1>4. f.idr => cs.curr.idr
    BY <1>2, WishIsNext
  <1> HIDE DEF f, cs, code
  <1> QED  BY <1>1, <1>2, <1>3, <1>4
           DEF IdrInv, WishesTyped, WishInWork, HasWishes, HasFrames

\* The end of a frame that is sent: without a wish, or with its IDR frame.
LEMMA DoneServesWish ==
    ASSUME IdrInv, Done
    PROVE  /\ IdrInv'
           /\ force.idr => last'.idr /\ Len(dec'.fs) = 1 /\ ~lost'
  <1>1. force' = NoForce /\ coded' = << >>
    BY DEF Done, EndFrame
  <1>2. HasFrames(dec)
    BY DEF IdrInv, WishesTyped
  <1>3. Send(coded, made[coded.curr.seq])
    BY DEF Done
  <1>4. /\ HasFrames(dec')
        /\ coded.slice.idr => last'.idr /\ ~lost' /\ Len(dec'.fs) = 1
    BY <1>2, <1>3, SendFrames
  <1>5. force.idr => coded.slice.idr
    BY DEF Done, IdrInv, WishInWork
  <1>6. IdrInv'
    BY <1>1, <1>4 DEF IdrInv, WishesTyped, WishInWork, Idle, HasWishes, HasFrames, NoForce
  <1> QED  BY <1>4, <1>5, <1>6

\* What may be dropped or skipped is not wished for.
LEMMA DropFindsNoWish ==
    ASSUME IdrInv, Drop
    PROVE  IdrInv' /\ ~force.idr
  <1>1. force' = NoForce /\ coded' = << >> /\ dec' = dec
    BY DEF Drop, EndFrame, streamVars
  <1>2. ~force.idr
    BY DEF Drop, MayDrop, IdrInv, WishInWork
  <1> QED  BY <1>1, <1>2
           DEF IdrInv, WishesTyped, WishInWork, Idle, HasWishes, HasFrames, NoForce

LEMMA SkipFindsNoWish ==
    ASSUME IdrInv, ForcePskip
    PROVE  IdrInv' /\ ~force.idr
  <1>1. force' = NoForce /\ coded' = << >>
    BY DEF ForcePskip, EndFrame
  <1>2. ~force.idr
    BY DEF ForcePskip, IdrInv, WishInWork
  <1>3. HasFrames(dec')
    <2> DEFINE cs == CpbStatus(stash, [force EXCEPT !.pskip = TRUE])
               code == Code(dpb, cs, pictures')
    <2>1. Send(code.frame, pictures')
      BY DEF ForcePskip
    <2> HIDE DEF code
    <2> QED  BY <2>1, SendFrames DEF IdrInv, WishesTyped
  <1> QED  BY <1>1, <1>2, <1>3
           DEF IdrInv, WishesTyped, WishInWork, Idle, HasWishes, HasFrames, NoForce

\* A repeat and a failure leave the wish, and a failed frame is no longer in work.
LEMMA OthersKeepWish ==
    ASSUME IdrInv, Reenc \/ Fail \/ UNCHANGED encVars
    PROVE  IdrInv' /\ (force.idr => force'.idr)
  <1>1. /\ force' = force /\ dec' = dec
        /\ coded' = coded \/ coded' = << >>
    BY DEF Reenc, Fail, encVars, refVars, dpbVars, streamVars
  <1> QED  BY <1>1 DEF IdrInv, WishesTyped, WishInWork, Idle, HasWishes, HasFrames

-----------------------------------------------------------------------------
(* The theorems *)

LEMMA StepKeepsWish ==
    ASSUME IdrInv, [EncNext]_encVars
    PROVE  /\ IdrInv'
           /\ force.idr /\ ~force'.idr => last'.idr /\ Len(dec'.fs) = 1 /\ ~lost'
  <1>1. CASE \E c \in Configs : SetRefCfg(c)
    BY <1>1, CommandKeepsWish
  <1>2. CASE \E n \in Igops : SetGop(n)
    BY <1>2, CommandKeepsWish
  <1>3. CASE \E mark, use \in {-1} \cup Marks : Encode(mark, use)
    BY <1>3, EncodeKeepsWish
  <1>4. CASE SetIdr
    BY <1>4, CommandKeepsWish
  <1>5. CASE Done
    BY <1>5, DoneServesWish
  <1>6. CASE Drop
    BY <1>6, DropFindsNoWish
  <1>7. CASE ForcePskip
    BY <1>7, SkipFindsNoWish
  <1>8. CASE Reenc \/ Fail \/ UNCHANGED encVars
    BY <1>8, OthersKeepWish
  <1> QED  BY <1>1, <1>2, <1>3, <1>4, <1>5, <1>6, <1>7, <1>8 DEF EncNext

\* While the wish for an IDR frame stands, the frame in work is one.
THEOREM WishIsInWork == EncSpec => []IdrInv
  <1>1. IdrInv /\ [EncNext]_encVars => IdrInv'
    BY StepKeepsWish
  <1> QED  BY <1>1, IdrInit, PTL DEF EncSpec

\* An IDR frame that was asked for is sent before the wish is forgotten, and it
\* is then all that the decoder keeps, however many frames failed before.
THEOREM IdrIsServed == EncSpec => IdrServed
  <1>1. IdrInv /\ [EncNext]_encVars =>
          [force.idr /\ ~force'.idr => last'.idr /\ Len(dec'.fs) = 1 /\ ~lost']_encVars
    BY StepKeepsWish
  <1> QED  BY <1>1, WishIsInWork, PTL DEF EncSpec, IdrServed
=============================================================================
