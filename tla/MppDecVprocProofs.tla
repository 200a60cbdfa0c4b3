-------------------------- MODULE MppDecVprocProofs --------------------------
(***************************************************************************)
(* Theorems about MppDecVproc, for any number of slots, buffers, handles,  *)
(* pictures and resets: the post-processing thread oversleeps nothing, a   *)
(* reset that returns leaves nothing behind, every use of a slot and every *)
(* reference on a buffer has exactly one owner, and the frames come in the *)
(* order of their times with none missing.                                 *)
(***************************************************************************)
EXTENDS MppDecVproc, WellFoundedInduction, FiniteSetTheorems, SequenceTheorems, TLAPS

\* The parser thread of a reset walks from "hal" to "done": behind the hal
\* thread no task is left, and behind the post-processing no window.
Quiet ==
    /\ vtasks = << >> /\ ~vreset /\ prev = 0 /\ got = 0
    /\ vpc \in {"off", "test", "asleep"}

ResetWalks ==
    /\ resetFlag <=> apc = "reset"
    /\ ppc \in {"hal", "vproc", "done"} => resetFlag
    /\ ppc \in {"vproc", "done"} => jobs = << >> /\ hpc = "rest"
    /\ ppc = "done" => Quiet
    /\ apc = "flush" => ppc = "parse" /\ cur = NoTask /\ jobs = << >> /\ hpc = "rest" /\ Quiet

\* Only the thread can end a reset, and it has no buffers between two tasks.
ThreadRests ==
    /\ vreset => ppc = "vproc"
    /\ vpc = "off" => Quiet
    /\ vpc \in {"test", "asleep", "work", "shift", "clear", "idle"} => got = 0
    /\ vpc = "buffer" => got \in 0..2
    /\ vpc = "second" => got = 1

NoOversleep == vpc = "asleep" /\ (vtasks # << >> \/ vreset) => hpc = "signal"

Types == resetFlag \in BOOLEAN /\ vreset \in BOOLEAN

RestInv == Types /\ ResetWalks /\ ThreadRests /\ NoOversleep

-----------------------------------------------------------------------------
\* Nothing is asked of the thread before it is there.
LEMMA InitRests == Init => RestInv
  BY DEF Init, RestInv, Types, ResetWalks, ThreadRests, NoOversleep, Quiet

\* A step of the parser thread: a reset goes on only when the one it waits for is
\* at rest, and it wakes the thread it waits for next.
LEMMA ParserRests ==
  ASSUME RestInv, ParserStep \/ Parse \/ ParseEos
  PROVE  RestInv'
<1>1. CASE Parse
  BY <1>1 DEF RestInv, Types, ResetWalks, ThreadRests, NoOversleep, Quiet, Parse,
       parserVars, slotVars, halVars, vprocVars, taskVars, userVars
<1>2. CASE ParseEos
  BY <1>2 DEF RestInv, Types, ResetWalks, ThreadRests, NoOversleep, Quiet, ParseEos,
       parserVars, slotVars, halVars, vprocVars, taskVars, userVars
<1>3. CASE Gate
  BY <1>3 DEF RestInv, Types, ResetWalks, ThreadRests, NoOversleep, Quiet, Gate,
       parserVars, slotVars, halVars, vprocVars, taskVars, userVars
<1>4. CASE Get
  BY <1>4 DEF RestInv, Types, ResetWalks, ThreadRests, NoOversleep, Quiet, Get,
       parserVars, slotVars, halVars, vprocVars, taskVars, userVars
<1>5. CASE ResetHal
  BY <1>5 DEF RestInv, Types, ResetWalks, ThreadRests, NoOversleep, Quiet, ResetHal,
       parserVars, slotVars, halVars, vprocVars, taskVars, userVars
<1>6. CASE ResetVproc
  BY <1>6 DEF RestInv, Types, ResetWalks, ThreadRests, NoOversleep, Quiet, ResetVproc, On,
       parserVars, slotVars, halVars, vprocVars, taskVars, userVars
<1>7. CASE ResetDone
  BY <1>7 DEF RestInv, Types, ResetWalks, ThreadRests, NoOversleep, Quiet, ResetDone,
       parserVars, slotVars, halVars, vprocVars, taskVars, userVars
<1> QED
  BY <1>1, <1>2, <1>3, <1>4, <1>5, <1>6, <1>7 DEF ParserStep

\* A step of the hal thread, which signals what it has sent.
LEMMA HalRests ==
  ASSUME RestInv, HalStep
  PROVE  RestInv'
<1>1. CASE HalTake
  BY <1>1 DEF RestInv, Types, ResetWalks, ThreadRests, NoOversleep, Quiet, HalTake,
       parserVars, slotVars, halVars, vprocVars, taskVars, userVars
<1>2. CASE HalDirect
  BY <1>2 DEF RestInv, Types, ResetWalks, ThreadRests, NoOversleep, Quiet, HalDirect, On,
       parserVars, slotVars, halVars, vprocVars, taskVars, userVars
<1>3. CASE HalStart
  BY <1>3 DEF RestInv, Types, ResetWalks, ThreadRests, NoOversleep, Quiet, HalStart, On,
       parserVars, slotVars, halVars, vprocVars, taskVars, userVars
<1>4. CASE HalPut
  BY <1>4 DEF RestInv, Types, ResetWalks, ThreadRests, NoOversleep, Quiet, HalPut, On,
       parserVars, slotVars, halVars, vprocVars, taskVars, userVars
<1>5. CASE HalPutEos
  BY <1>5 DEF RestInv, Types, ResetWalks, ThreadRests, NoOversleep, Quiet, HalPutEos, On,
       parserVars, slotVars, halVars, vprocVars, taskVars, userVars
<1>6. CASE HalSignal
  BY <1>6 DEF RestInv, Types, ResetWalks, ThreadRests, NoOversleep, Quiet, HalSignal,
       parserVars, slotVars, halVars, vprocVars, taskVars, userVars
<1>7. CASE HalClr
  BY <1>7 DEF RestInv, Types, ResetWalks, ThreadRests, NoOversleep, Quiet, HalClr,
       parserVars, slotVars, halVars, vprocVars, taskVars, userVars
<1> QED
  BY <1>1, <1>2, <1>3, <1>4, <1>5, <1>6, <1>7 DEF HalStep

\* A step of the thread: it sleeps when there is nothing to do, and ends a reset
\* with its tasks done and its window empty.
LEMMA VprocRests ==
  ASSUME RestInv, VprocStep \/ Spurious
  PROVE  RestInv'
<1>1. CASE Work
  BY <1>1 DEF RestInv, Types, ResetWalks, ThreadRests, NoOversleep, Quiet, Work,
       parserVars, slotVars, halVars, vprocVars, taskVars, userVars
<1>2. CASE Sleep
  BY <1>2 DEF RestInv, Types, ResetWalks, ThreadRests, NoOversleep, Quiet, Sleep, Sleeps,
       parserVars, slotVars, halVars, vprocVars, taskVars, userVars
<1>3. CASE VprocReset
  BY <1>3 DEF RestInv, Types, ResetWalks, ThreadRests, NoOversleep, Quiet, VprocReset, Sleeps, ClrPrev,
       parserVars, slotVars, halVars, vprocVars, taskVars, userVars
<1>4. CASE PassOn
  BY <1>4 DEF RestInv, Types, ResetWalks, ThreadRests, NoOversleep, Quiet, PassOn,
       parserVars, slotVars, halVars, vprocVars, taskVars, userVars
<1>5. CASE TakePicture
  BY <1>5 DEF RestInv, Types, ResetWalks, ThreadRests, NoOversleep, Quiet, TakePicture,
       parserVars, slotVars, halVars, vprocVars, taskVars, userVars
<1>6. CASE GetBuffer
  BY <1>6 DEF RestInv, Types, ResetWalks, ThreadRests, NoOversleep, Quiet, GetBuffer, Needed,
       parserVars, slotVars, halVars, vprocVars, taskVars, userVars
<1>7. CASE Deinterlace
  BY <1>7 DEF RestInv, Types, ResetWalks, ThreadRests, NoOversleep, Quiet, Deinterlace, Needed,
       parserVars, slotVars, halVars, vprocVars, taskVars, userVars
<1>8. CASE Shift
  BY <1>8 DEF RestInv, Types, ResetWalks, ThreadRests, NoOversleep, Quiet, Shift, ClrPrev,
       parserVars, slotVars, halVars, vprocVars, taskVars, userVars
<1>9. CASE Clear
  BY <1>9 DEF RestInv, Types, ResetWalks, ThreadRests, NoOversleep, Quiet, Clear, Emptied, ClrPrev,
       parserVars, slotVars, halVars, vprocVars, taskVars, userVars
<1>10. CASE Idle
  BY <1>10 DEF RestInv, Types, ResetWalks, ThreadRests, NoOversleep, Quiet, Idle,
       parserVars, slotVars, halVars, vprocVars, taskVars, userVars
<1>11. CASE Spurious
  BY <1>11 DEF RestInv, Types, ResetWalks, ThreadRests, NoOversleep, Quiet, Spurious,
       parserVars, slotVars, halVars, vprocVars, taskVars, userVars
<1> QED
  BY <1>1, <1>2, <1>3, <1>4, <1>5, <1>6, <1>7, <1>8, <1>9, <1>10, <1>11 DEF VprocStep

\* A step of the application.
LEMMA UserRests ==
  ASSUME RestInv, TakeFrame \/ ReleaseFrame \/ UserReset \/ UserFlush
  PROVE  RestInv'
<1>1. CASE TakeFrame
  BY <1>1 DEF RestInv, Types, ResetWalks, ThreadRests, NoOversleep, Quiet, TakeFrame,
       parserVars, slotVars, halVars, vprocVars, taskVars, userVars
<1>2. CASE ReleaseFrame
  BY <1>2 DEF RestInv, Types, ResetWalks, ThreadRests, NoOversleep, Quiet, ReleaseFrame,
       parserVars, slotVars, halVars, vprocVars, taskVars, userVars
<1>3. CASE UserReset
  BY <1>3 DEF RestInv, Types, ResetWalks, ThreadRests, NoOversleep, Quiet, UserReset,
       parserVars, slotVars, halVars, vprocVars, taskVars, userVars
<1>4. CASE UserFlush
  BY <1>4 DEF RestInv, Types, ResetWalks, ThreadRests, NoOversleep, Quiet, UserFlush,
       parserVars, slotVars, halVars, vprocVars, taskVars, userVars
<1> QED
  BY <1>1, <1>2, <1>3, <1>4

LEMMA StutterRests == RestInv /\ UNCHANGED vars => RestInv'
  BY DEF RestInv, Types, ResetWalks, ThreadRests, NoOversleep, Quiet,
         vars, parserVars, slotVars, halVars, vprocVars, taskVars, userVars

\* What a reader should know: the thread never sleeps over a task or a reset, and
\* a reset that returns leaves no task, no window and no buffer behind.
THEOREM AlwaysNothingLeft == Spec => []NothingLeftBehind
<1>1. Init => RestInv
  BY InitRests
<1>2. RestInv /\ [Next]_vars => RestInv'
  BY ParserRests, HalRests, VprocRests, UserRests, StutterRests DEF Next
<1>3. RestInv => NothingLeftBehind
  BY DEF RestInv, ResetWalks, NoOversleep, Quiet, NothingLeftBehind
<1> QED
  BY <1>1, <1>2, <1>3, PTL DEF Spec
-----------------------------------------------------------------------------
(* Who has which slot and which buffer.  A slot goes from the parser to the *)
(* hal thread, from there to the thread, and from its tasks to its window;  *)
(* between push_display's signal and its clear it has two owners.           *)

Pictures == [kind : {"pic", "last"}, slot : 1..Slots]
Tasks == Pictures \cup [kind : {"change"}, slot : 1..Slots]
           \cup {[kind |-> "eos", slot |-> 0]}
Frames == [pts : Int, eos : BOOLEAN, buf : Int]

SlotTypes ==
    /\ pics \in Nat /\ got \in Nat /\ prev \in 0..Slots
    /\ slot \in [1..Slots -> [pic : Nat, buf : BOOLEAN, use : Nat]]
    /\ cur \in Pictures \cup {NoTask} /\ job \in Tasks \cup {NoTask}
    /\ jobs \in Seq(Tasks) /\ vtasks \in Seq(Tasks)
    /\ frames \in Seq(Frames) /\ held \in Seq(Frames)

\* Where the threads are and what they have there.
Stations ==
    /\ hpc \in {"rest", "put", "signal", "clr"}
    /\ ppc = "parse" => cur = NoTask
    /\ ppc \in {"change", "gate", "retry", "get"} => cur # NoTask
    /\ hpc # "rest" => job # NoTask
    /\ hpc = "clr" => IsPicture(job)
    /\ vpc \in {"work", "buffer", "second", "shift", "clear", "idle"} => vtasks # << >>
    /\ vpc \in {"buffer", "second", "shift"} => IsPicture(Head(vtasks))

\* The places a slot can be in: the hal thread's tasks, its current task, and the
\* tasks of the thread, except the first when its picture is in the window.
Queues(k, i) == k \in DOMAIN jobs /\ IsPicture(jobs[k]) /\ jobs[k].slot = i
Pushes(i) == hpc # "rest" /\ IsPicture(job) /\ job.slot = i
WaitsAt(k, i) ==
    /\ k \in DOMAIN vtasks /\ IsPicture(vtasks[k]) /\ vtasks[k].slot = i
    /\ k = 1 => vpc \notin {"clear", "idle"}

\* A slot is in one place only until the hal thread has sent it, and then in one
\* place of the thread.
Apart ==
    /\ \A i \in 1..Slots, k, l \in DOMAIN jobs : Queues(k, i) /\ Queues(l, i) => k = l
    /\ \A i \in 1..Slots, k \in DOMAIN jobs : Queues(k, i) => cur.slot # i /\ ~Pushes(i)
    /\ \A i \in 1..Slots : Pushes(i) => cur.slot # i
    /\ \A i \in 1..Slots, k, l \in DOMAIN vtasks : WaitsAt(k, i) /\ WaitsAt(l, i) => k = l
    /\ \A i \in 1..Slots : Unsent(i) => ~Waiting(i) /\ prev # i
    /\ \A i \in 1..Slots : Waiting(i) => prev # i

\* How many owners a slot has.
Owners(i) ==
    (IF Unsent(i) \/ Sent(i) THEN 1 ELSE 0) + (IF Waiting(i) THEN 1 ELSE 0)
      + (IF prev = i THEN 1 ELSE 0)

Counted ==
    \A i \in 1..Slots : slot[i].use = Owners(i) /\ (slot[i].use = 0 => slot[i] = Free)

\* A slot whose picture has been sent to the hardware has its buffer.
Mine(i) == Unsent(i) \/ Waiting(i) \/ prev = i
Held(i) == cur.slot # i /\ Mine(i)
Buffered ==
    /\ cur # NoTask => ~slot[cur.slot].buf
    /\ \A i \in 1..Slots : Held(i) => slot[i].buf

\* No two slots have the same picture.
Numbered ==
    /\ \A i \in 1..Slots : slot[i].use > 0 => slot[i].pic \in 1..pics
    /\ \A i, j \in 1..Slots :
         slot[i].use > 0 /\ slot[j].use > 0 /\ slot[i].pic = slot[j].pic => i = j

\* A frame of the display queue that has a picture's buffer is its only owner.
Bufs(fs) == \A k \in DOMAIN fs : fs[k].buf \in {NoBuf, NewBuf} \cup 1..pics
Alone(b) == \A i \in 1..Slots : Mine(i) => slot[i].pic # b
Owned ==
    /\ Len(held) <= 1 /\ Bufs(held) /\ Bufs(frames)
    /\ \A k, l \in DOMAIN frames : frames[k].buf = frames[l].buf /\ frames[k].buf > 0 => k = l
    /\ \A k \in DOMAIN frames, l \in DOMAIN held :
         frames[k].buf = held[l].buf => frames[k].buf <= 0
    /\ \A k \in DOMAIN frames : Alone(frames[k].buf)
    /\ \A k \in DOMAIN held : Alone(held[k].buf)

\* The references of mpp_buffer_get are those.
Kept ==
    /\ extra \subseteq 1..pics
    /\ \A b \in 1..pics :
         b \in extra <=> \/ b \in BuffersOf(frames) \cup BuffersOf(held)
                         \/ \E i \in 1..Slots : Held(i) /\ slot[i].pic = b

OwnInv ==
    /\ RestInv /\ SlotTypes /\ Stations
    /\ Apart /\ Counted /\ Buffered /\ Numbered /\ Owned /\ Kept
    /\ UnusedBuffers >= 0

-----------------------------------------------------------------------------
(* Lemmas about queues, places and counts *)

\* What Append and Tail do to the entries of a queue.
LEMMA Appended ==
  ASSUME NEW S, NEW q \in Seq(S), NEW x \in S
  PROVE  /\ Append(q, x) \in Seq(S) /\ Len(q) \in Nat /\ Len(Append(q, x)) = Len(q) + 1
         /\ Append(q, x) # << >>
         /\ \A k : k \in DOMAIN Append(q, x) <=> k \in DOMAIN q \/ k = Len(q) + 1
         /\ Len(q) + 1 \notin DOMAIN q
         /\ \A k \in DOMAIN q : Append(q, x)[k] = q[k]
         /\ Append(q, x)[Len(q) + 1] = x
<1>1. /\ Len(q) \in Nat /\ DOMAIN q = 1..Len(q)
      /\ DOMAIN Append(q, x) = 1..(Len(q) + 1)
  OBVIOUS
<1> QED
  BY <1>1

LEMMA Advanced ==
  ASSUME NEW S, NEW q \in Seq(S), q # << >>
  PROVE  /\ Tail(q) \in Seq(S) /\ Head(q) \in S /\ Head(q) = q[1] /\ 1 \in DOMAIN q
         /\ DOMAIN q \subseteq Nat \ {0} /\ Len(q) \in Nat /\ Len(Tail(q)) = Len(q) - 1
         /\ \A k \in Nat \ {0} : k \in DOMAIN Tail(q) <=> k + 1 \in DOMAIN q
         /\ \A k \in DOMAIN Tail(q) : Tail(q)[k] = q[k + 1] /\ k \in Nat \ {0}
         /\ \A k \in DOMAIN q : k = 1 \/ (k - 1 \in DOMAIN Tail(q) /\ Tail(q)[k - 1] = q[k])
<1>1. /\ Len(q) \in Nat \ {0} /\ DOMAIN q = 1..Len(q) /\ q[1] \in S
  BY EmptySeq
<1>2. /\ Tail(q) \in Seq(S) /\ Len(Tail(q)) = Len(q) - 1 /\ Head(q) = q[1]
      /\ \A k \in 1..Len(Tail(q)) : Tail(q)[k] = q[k + 1]
  BY <1>1, HeadTailProperties
<1>3. DOMAIN Tail(q) = 1..(Len(q) - 1)
  BY <1>1, <1>2
<1> QED
  BY <1>1, <1>2, <1>3

\* A member of a queue of tasks.
LEMMA Member == ASSUME NEW S, NEW q \in Seq(S), NEW k \in DOMAIN q PROVE q[k] \in S
  OBVIOUS

\* A task with a picture has one of the slots.
LEMMA PictureSlot ==
  ASSUME NEW t \in Tasks \cup {NoTask}, IsPicture(t)
  PROVE  t \in Pictures /\ t.slot \in 1..Slots
  BY DEF Tasks, Pictures, NoTask, IsPicture

\* The number of owners is the number of the set in UsesExact.
LEMMA ThreeOwners ==
  ASSUME NEW A \in BOOLEAN, NEW B \in BOOLEAN, NEW C \in BOOLEAN
  PROVE  Cardinality({x \in {1, 2, 3} : \/ x = 1 /\ A
                                        \/ x = 2 /\ B
                                        \/ x = 3 /\ C})
           = (IF A THEN 1 ELSE 0) + (IF B THEN 1 ELSE 0) + (IF C THEN 1 ELSE 0)
<1> DEFINE X == IF A THEN {1} ELSE {}
           Y == IF B THEN X \cup {2} ELSE X
           Z == IF C THEN Y \cup {3} ELSE Y
<1>1. /\ IsFiniteSet(X) /\ 2 \notin X /\ 3 \notin X
      /\ Cardinality(X) = IF A THEN 1 ELSE 0
  <2>1. /\ IsFiniteSet({}) /\ Cardinality({}) = 0
        /\ IsFiniteSet({1}) /\ Cardinality({1}) = 1
    BY FS_EmptySet, FS_Singleton
  <2> QED BY <2>1
<1>2. /\ IsFiniteSet(Y) /\ 3 \notin Y
      /\ Cardinality(Y) = (IF A THEN 1 ELSE 0) + (IF B THEN 1 ELSE 0)
  <2> HIDE DEF X
  <2> QED BY <1>1, FS_AddElement
<1>3. Cardinality(Z) = (IF A THEN 1 ELSE 0) + (IF B THEN 1 ELSE 0) + (IF C THEN 1 ELSE 0)
  <2> HIDE DEF Y
  <2> QED BY <1>2, FS_AddElement
<1>4. {x \in {1, 2, 3} : \/ x = 1 /\ A
                         \/ x = 2 /\ B
                         \/ x = 3 /\ C} = Z
  OBVIOUS
<1> QED
  BY <1>3, <1>4

\* The new buffers among the frames of a queue.
LEMMA NewNone == NewOf(<< >>) = 0
<1>1. {k \in DOMAIN << >> : << >>[k].buf = NewBuf} = {}
  OBVIOUS
<1> QED
  BY <1>1, FS_EmptySet DEF NewOf

LEMMA NewNat ==
  ASSUME NEW fs \in Seq(Frames)
  PROVE  NewOf(fs) \in Nat /\ IsFiniteSet({k \in DOMAIN fs : fs[k].buf = NewBuf})
<1>1. IsFiniteSet(1..Len(fs)) /\ DOMAIN fs = 1..Len(fs)
  BY FS_Interval
<1>2. IsFiniteSet({k \in DOMAIN fs : fs[k].buf = NewBuf})
  BY <1>1, FS_Subset
<1> QED
  BY <1>2, FS_CardinalityType DEF NewOf

LEMMA NewAppended ==
  ASSUME NEW fs \in Seq(Frames), NEW f \in Frames
  PROVE  NewOf(Append(fs, f)) = NewOf(fs) + (IF f.buf = NewBuf THEN 1 ELSE 0)
<1> DEFINE K == {k \in DOMAIN fs : fs[k].buf = NewBuf}
           L == {k \in DOMAIN Append(fs, f) : Append(fs, f)[k].buf = NewBuf}
<1>1. IsFiniteSet(K) /\ Cardinality(K) = NewOf(fs) /\ Len(fs) + 1 \notin K
  BY NewNat, Appended DEF NewOf
<1>2. L = IF f.buf = NewBuf THEN K \cup {Len(fs) + 1} ELSE K
  BY Appended
<1>3. Cardinality(L) = Cardinality(K) + (IF f.buf = NewBuf THEN 1 ELSE 0)
  <2> HIDE DEF K, L
  <2>1. CASE f.buf = NewBuf
    BY <1>1, <1>2, <2>1, FS_AddElement
  <2>2. CASE f.buf # NewBuf
    BY <1>1, <1>2, <2>2, FS_CardinalityType
  <2> QED BY <2>1, <2>2
<1> QED
  BY <1>1, <1>3 DEF NewOf

\* A frame that moves from the front of a queue into an empty one.
LEMMA NewTaken ==
  ASSUME NEW fs \in Seq(Frames), fs # << >>
  PROVE  NewOf(Tail(fs)) + NewOf(<< Head(fs) >>) = NewOf(fs)
<1> DEFINE K == {k \in DOMAIN fs : fs[k].buf = NewBuf}
           T == {k \in DOMAIN Tail(fs) : Tail(fs)[k].buf = NewBuf}
           S == {k \in DOMAIN << Head(fs) >> : << Head(fs) >>[k].buf = NewBuf}
           f == [k \in T |-> k + 1]
<1>1. /\ IsFiniteSet(K) /\ Cardinality(K) = NewOf(fs)
      /\ IsFiniteSet(T) /\ Cardinality(T) = NewOf(Tail(fs)) /\ Cardinality(T) \in Nat
      /\ Tail(fs) \in Seq(Frames)
  <2>1. Tail(fs) \in Seq(Frames)
    BY Advanced
  <2> QED BY <2>1, NewNat DEF NewOf
<1>2. \A k \in T : k + 1 \in K \ {1} /\ k \in Nat \ {0}
  BY Advanced
<1>3. \A k \in K \ {1} : k - 1 \in T /\ k \in Nat
  BY Advanced
<1>3a. f \in Bijection(T, K \ {1})
  <2> HIDE DEF T, K
  <2>1. f \in [T -> K \ {1}]
    BY <1>2
  <2>2. \A a, b \in T : f[a] = f[b] => a = b
    BY <1>2
  <2>3. \A k \in K \ {1} : \E a \in T : f[a] = k
    <3> TAKE k \in K \ {1}
    <3>1. k - 1 \in T /\ f[k - 1] = k
      BY <1>3
    <3> QED BY <3>1
  <2> QED BY <2>1, <2>2, <2>3 DEF Bijection, Injection, Surjection, IsInjective
<1>3b. Cardinality(T) = Cardinality(K \ {1}) /\ IsFiniteSet(K \ {1})
  <2> HIDE DEF T, K, f
  <2>1. ExistsBijection(T, K \ {1})
    BY <1>3a DEF ExistsBijection
  <2> QED BY <1>1, <2>1, FS_Bijection
<1>4. S = IF Head(fs).buf = NewBuf THEN {1} ELSE {}
  OBVIOUS
<1>5. 1 \in K <=> Head(fs).buf = NewBuf
  BY Advanced
<1>6. Cardinality(S) = IF 1 \in K THEN 1 ELSE 0
  BY <1>4, <1>5, FS_EmptySet, FS_Singleton
<1>7. Cardinality(K) = Cardinality(K \ {1}) + (IF 1 \in K THEN 1 ELSE 0)
  <2> HIDE DEF K
  <2>1. CASE 1 \in K
    <3>1. Cardinality(K \ {1}) = Cardinality(K) - 1 /\ Cardinality(K) \in Nat
      BY <1>1, <2>1, FS_RemoveElement, FS_CardinalityType
    <3> QED BY <2>1, <3>1
  <2>2. CASE 1 \notin K
    <3>1. K \ {1} = K
      BY <2>2
    <3>2. Cardinality(K) \in Nat
      BY <1>1, FS_CardinalityType
    <3>3. Cardinality(K \ {1}) = Cardinality(K)
      BY <3>1
    <3> QED BY <2>2, <3>2, <3>3
  <2> QED BY <2>1, <2>2
<1> HIDE DEF K, T, S
<1>8. NewOf(<< Head(fs) >>) = Cardinality(S)
  BY DEF NewOf, S
<1> QED
  BY <1>1, <1>3b, <1>6, <1>7, <1>8

\* The first free slot is one of them.
LEMMA LeastIn ==
  ASSUME NEW S \in SUBSET Nat, S # {}
  PROVE  Min(S) \in S
<1>1. PICK x \in S : \A y \in S : ~ (<<y, x>> \in OpToRel(<, Nat))
  BY NatLessThanWellFounded, WFMin, Zenon
<1>2. \A y \in S : ~(y < x)
  <2> TAKE y \in S
  <2>1. <<y, x>> \in Nat \X Nat
    OBVIOUS
  <2>2. y < x => <<y, x>> \in OpToRel(<, Nat)
    BY <2>1, Zenon DEF OpToRel
  <2> QED BY <1>1, <2>2, Zenon
<1>3. \A y \in S : x <= y
  BY <1>2
<1> QED
  BY <1>3 DEF Min

-----------------------------------------------------------------------------
(* What each step does to the places of the slots *)

\* The places in terms of the queues.
LEMMA PlacesAre ==
  \A i \in 1..Slots :
    /\ Unsent(i) <=> \/ cur.slot = i
                     \/ \E k \in DOMAIN jobs : Queues(k, i)
                     \/ hpc = "put" /\ Pushes(i)
    /\ Sent(i) <=> hpc \in {"signal", "clr"} /\ Pushes(i)
    /\ Waiting(i) <=> \E k \in DOMAIN vtasks : WaitsAt(k, i)
  BY DEF Unsent, Sent, Waiting, Queues, Pushes, WaitsAt

LEMMA PlacesWillBe ==
  \A i \in 1..Slots :
    /\ Unsent(i)' <=> \/ cur'.slot = i
                      \/ \E k \in DOMAIN jobs' : Queues(k, i)'
                      \/ hpc' = "put" /\ Pushes(i)'
    /\ Sent(i)' <=> hpc' \in {"signal", "clr"} /\ Pushes(i)'
    /\ Waiting(i)' <=> \E k \in DOMAIN vtasks' : WaitsAt(k, i)'
  BY DEF Unsent, Sent, Waiting, Queues, Pushes, WaitsAt

\* A task at the end of the hal thread's queue, and a queue that stays.
LEMMA JobAppended ==
  ASSUME SlotTypes, NEW t \in Tasks, jobs' = Append(jobs, t)
  PROVE  /\ jobs' \in Seq(Tasks) /\ \A i, k : ~Queues(Len(jobs) + 1, i)
         /\ \A i, k : Queues(k, i)' <=>
              \/ Queues(k, i)
              \/ k = Len(jobs) + 1 /\ IsPicture(t) /\ t.slot = i
  BY Appended DEF SlotTypes, Queues

LEMMA JobsStay == UNCHANGED jobs => \A i, k : Queues(k, i)' <=> Queues(k, i)
  BY DEF Queues

LEMMA PushStays ==
  UNCHANGED job /\ (hpc' = "rest" <=> hpc = "rest") => \A i : Pushes(i)' <=> Pushes(i)
  BY DEF Pushes

\* The thread's queue, with the first task in the window or not.
Windowed == vpc \in {"clear", "idle"}
LEMMA WaitsStay ==
  ASSUME UNCHANGED vtasks, Windowed' = Windowed \/ vtasks = << >> \/ ~IsPicture(vtasks[1])
  PROVE  \A i, k : WaitsAt(k, i)' <=> WaitsAt(k, i)
  BY DEF WaitsAt, Windowed

LEMMA WaitAppended ==
  ASSUME SlotTypes, Stations, NEW t \in Tasks, vtasks' = Append(vtasks, t), UNCHANGED vpc
  PROVE  /\ vtasks' \in Seq(Tasks) /\ \A i : ~WaitsAt(Len(vtasks) + 1, i)
         /\ \A i, k : WaitsAt(k, i)' <=>
              \/ WaitsAt(k, i)
              \/ k = Len(vtasks) + 1 /\ IsPicture(t) /\ t.slot = i
<1>1. Len(vtasks) + 1 = 1 => vtasks = << >>
  BY EmptySeq DEF SlotTypes
<1> QED
  BY <1>1, Appended DEF SlotTypes, Stations, WaitsAt

\* Nothing moves but a thread.
Resting == \A i \in 1..Slots :
    /\ \A k : (Queues(k, i)' <=> Queues(k, i)) /\ (WaitsAt(k, i)' <=> WaitsAt(k, i))
    /\ (Pushes(i)' <=> Pushes(i)) /\ (Unsent(i)' <=> Unsent(i)) /\ (Sent(i)' <=> Sent(i))
    /\ (Waiting(i)' <=> Waiting(i)) /\ (prev' = i <=> prev = i) /\ (cur'.slot = i <=> cur.slot = i)
    /\ (Held(i)' <=> Held(i))

LEMMA RestingIf ==
  ASSUME UNCHANGED <<cur, prev>>, \A i, k : Queues(k, i)' <=> Queues(k, i),
         \A i, k : WaitsAt(k, i)' <=> WaitsAt(k, i), \A i : Pushes(i)' <=> Pushes(i),
         hpc' = "put" <=> hpc = "put", hpc' \in {"signal", "clr"} <=> hpc \in {"signal", "clr"}
  PROVE  Resting
<1>1. \A i, k : k \in DOMAIN jobs' /\ Queues(k, i)' <=> k \in DOMAIN jobs /\ Queues(k, i)
  BY DEF Queues
<1>2. \A i, k : k \in DOMAIN vtasks' /\ WaitsAt(k, i)' <=> k \in DOMAIN vtasks /\ WaitsAt(k, i)
  BY DEF WaitsAt
<1>3. ASSUME NEW i \in 1..Slots
      PROVE  /\ Unsent(i)' <=> Unsent(i)
             /\ Sent(i)' <=> Sent(i)
             /\ Waiting(i)' <=> Waiting(i)
  BY <1>1, <1>2, PlacesAre, PlacesWillBe
<1> QED
  BY <1>3 DEF Resting, Held, Mine

-----------------------------------------------------------------------------
(* The parts of the invariant that a step which moves no slot keeps *)

\* Apart, without the bounds of its quantifiers.
ApartAll ==
    /\ \A i \in 1..Slots : \A k, l : Queues(k, i) /\ Queues(l, i) => k = l
    /\ \A i \in 1..Slots : \A k : Queues(k, i) => cur.slot # i /\ ~Pushes(i)
    /\ \A i \in 1..Slots : Pushes(i) => cur.slot # i
    /\ \A i \in 1..Slots : \A k, l : WaitsAt(k, i) /\ WaitsAt(l, i) => k = l
    /\ \A i \in 1..Slots : Unsent(i) => ~Waiting(i) /\ prev # i
    /\ \A i \in 1..Slots : Waiting(i) => prev # i

LEMMA ApartIs == Apart <=> ApartAll
<1>1. \A i, k : Queues(k, i) => k \in DOMAIN jobs
  BY DEF Queues
<1>2. \A i, k : WaitsAt(k, i) => k \in DOMAIN vtasks
  BY DEF WaitsAt
<1> QED
  BY <1>1, <1>2 DEF Apart, ApartAll

LEMMA ApartWillBe == Apart' <=> ApartAll'
<1>1. \A i, k : Queues(k, i)' => k \in DOMAIN jobs'
  BY DEF Queues
<1>2. \A i, k : WaitsAt(k, i)' => k \in DOMAIN vtasks'
  BY DEF WaitsAt
<1> QED
  BY <1>1, <1>2 DEF Apart, ApartAll

LEMMA RestingApart == Resting /\ Apart => Apart'
  BY ApartIs, ApartWillBe DEF Resting, ApartAll

LEMMA RestingCounted == Resting /\ UNCHANGED slot /\ Counted => Counted'
  BY DEF Resting, Counted, Owners

LEMMA RestingBuffered == Resting /\ UNCHANGED <<slot, cur>> /\ Buffered => Buffered'
  BY DEF Resting, Buffered

LEMMA NumberedStays == UNCHANGED <<slot, pics>> /\ Numbered => Numbered'
  BY DEF Numbered

LEMMA RestingOwned ==
  Resting /\ UNCHANGED <<slot, pics, frames, held>> /\ Owned => Owned'
  BY DEF Resting, Owned, Alone, Mine, Bufs

LEMMA RestingKept ==
  Resting /\ UNCHANGED <<slot, pics, frames, held, extra>> /\ Kept => Kept'
  BY DEF Resting, Kept, BuffersOf

\* The buffers that are taken.
Taken == extra \cup {slot[i].pic : i \in {j \in 1..Slots : slot[j].buf}}

LEMMA TakenFinite ==
  ASSUME SlotTypes, Counted, Numbered, Kept
  PROVE  Taken \subseteq 1..pics /\ IsFiniteSet(Taken) /\ Cardinality(Taken) \in Nat
<1>1. \A i \in 1..Slots : slot[i].buf => slot[i].use > 0
  <2> TAKE i \in 1..Slots
  <2>1. slot[i].use \in Nat /\ slot[i].buf \in BOOLEAN
    BY DEF SlotTypes
  <2> QED BY <2>1 DEF Counted, Free
<1>2. Taken \subseteq 1..pics
  <2>1. \A i \in 1..Slots : slot[i].buf => slot[i].pic \in 1..pics
    BY <1>1 DEF Numbered
  <2>2. extra \subseteq 1..pics
    BY DEF Kept
  <2> QED BY <2>1, <2>2, Zenon DEF Taken
<1>3. IsFiniteSet(1..pics)
  BY FS_Interval DEF SlotTypes
<1>4. IsFiniteSet(Taken)
  BY <1>2, <1>3, FS_Subset
<1> QED
  BY <1>2, <1>4, FS_CardinalityType

LEMMA UnusedIs == UnusedBuffers = BufferCount - got - NewOf(frames) - NewOf(held) - Cardinality(Taken)
  BY DEF UnusedBuffers, Taken

LEMMA UnusedWillBe ==
  UnusedBuffers' = BufferCount - got' - NewOf(frames') - NewOf(held') - Cardinality(Taken')
  BY DEF UnusedBuffers, Taken, NewOf

\* Buffers are only given back, or from one owner to another.
LEMMA UnusedKept ==
  ASSUME SlotTypes, SlotTypes', Counted, Numbered, Kept, UnusedBuffers >= 0, Taken' \subseteq Taken,
         got' + NewOf(frames') + NewOf(held') <= got + NewOf(frames) + NewOf(held)
  PROVE  UnusedBuffers' >= 0
<1>1. IsFiniteSet(Taken) /\ Cardinality(Taken) \in Nat
  BY TakenFinite
<1>2. Cardinality(Taken') <= Cardinality(Taken) /\ Cardinality(Taken') \in Nat
  BY <1>1, FS_Subset, FS_CardinalityType
<1>3. /\ got \in Nat /\ NewOf(frames) \in Nat /\ NewOf(held) \in Nat
      /\ got' \in Nat /\ NewOf(frames') \in Nat /\ NewOf(held') \in Nat
  BY NewNat DEF SlotTypes
<1>4. BufferCount \in Nat
  BY VprocAssumption
<1> QED
  BY <1>1, <1>2, <1>3, <1>4, UnusedIs, UnusedWillBe

LEMMA TakenStays == UNCHANGED <<slot, extra>> => Taken' = Taken
  BY DEF Taken

\* All of the invariant, for a step that moves no slot, frame or buffer.
LEMMA RestingKeeps ==
  ASSUME OwnInv, SlotTypes', Resting, UNCHANGED <<pics, slot, extra, cur, frames, held, got>>
  PROVE  /\ Apart' /\ Counted' /\ Buffered' /\ Numbered' /\ Owned' /\ Kept'
         /\ UnusedBuffers' >= 0
<1>1. Apart' /\ Counted' /\ Buffered' /\ Numbered' /\ Owned' /\ Kept'
  BY RestingApart, RestingCounted, RestingBuffered, NumberedStays, RestingOwned, RestingKept DEF OwnInv
<1>2. UnusedBuffers' = UnusedBuffers
  BY TakenStays, UnusedIs, UnusedWillBe
<1> QED
  BY <1>1, <1>2 DEF OwnInv

-----------------------------------------------------------------------------
(* Types and stations *)

LEMMA SignIsFrame ==
  ASSUME SlotTypes, NEW t \in Tasks
  PROVE  SignOf(t) \in Frames /\ SignOf(t).buf = NoBuf
<1>1. 2 * pics + 1 \in Int
  BY DEF SlotTypes
<1>2. t.kind # "eos" => t.slot \in 1..Slots
  BY DEF Tasks, Pictures
<1>3. t.kind # "eos" => 2 * slot[t.slot].pic - 1 \in Int
  BY <1>2 DEF SlotTypes
<1> QED
  BY <1>1, <1>3 DEF SignOf, FrameOf, Frames, NoBuf

LEMMA ClrUseTypes ==
  ASSUME SlotTypes, NEW i \in 1..Slots, slot[i].use > 0
  PROVE  /\ ClrUse(slot, i) \in [1..Slots -> [pic : Nat, buf : BOOLEAN, use : Nat]]
         /\ \A j \in 1..Slots : j # i => ClrUse(slot, i)[j] = slot[j]
         /\ slot[i].use = 1 => ClrUse(slot, i)[i] = Free
         /\ slot[i].use > 1 => /\ ClrUse(slot, i)[i].use = slot[i].use - 1
                               /\ ClrUse(slot, i)[i].pic = slot[i].pic
                               /\ ClrUse(slot, i)[i].buf = slot[i].buf
<1>1. slot[i] \in [pic : Nat, buf : BOOLEAN, use : Nat] /\ Free \in [pic : Nat, buf : BOOLEAN, use : Nat]
  BY DEF SlotTypes, Free
<1>2. CASE slot[i].use = 1
  <2>1. ClrUse(slot, i) = [slot EXCEPT ![i] = Free]
    BY <1>2 DEF ClrUse
  <2> QED BY <1>1, <1>2, <2>1 DEF SlotTypes
<1>3. CASE slot[i].use > 1
  <2>1. ClrUse(slot, i) = [slot EXCEPT ![i] = [slot[i] EXCEPT !.use = slot[i].use - 1]]
    BY <1>3 DEF ClrUse
  <2>2. [slot[i] EXCEPT !.use = slot[i].use - 1] \in [pic : Nat, buf : BOOLEAN, use : Nat]
    BY <1>1, <1>3
  <2> QED BY <1>1, <1>3, <2>1, <2>2 DEF SlotTypes
<1> QED
  BY <1>1, <1>2, <1>3

\* Nobody lets go of a slot without a use.
LEMMA OwnerHasUse ==
  ASSUME SlotTypes, Counted, NEW i \in 1..Slots, Unsent(i) \/ Sent(i) \/ Waiting(i) \/ prev = i
  PROVE  slot[i].use > 0
  BY DEF SlotTypes, Counted, Owners

\* The slot of the window, when it is let go.
LEMMA ClrPrevTypes ==
  ASSUME SlotTypes, Counted, ClrPrev
  PROVE  slot' \in [1..Slots -> [pic : Nat, buf : BOOLEAN, use : Nat]]
<1>1. CASE prev = 0
  BY <1>1 DEF ClrPrev, SlotTypes, slotVars
<1>2. CASE prev # 0
  <2>1. prev \in 1..Slots
    BY <1>2 DEF SlotTypes
  <2>2. slot[prev].use > 0
    BY <2>1, OwnerHasUse
  <2> QED BY <1>2, <2>1, <2>2, ClrUseTypes DEF ClrPrev
<1> QED
  BY <1>1, <1>2

\* A step that leaves the queues alone.
LEMMA PlainTypes ==
  ASSUME SlotTypes, Stations, RestInv,
         \/ Gate \/ ResetHal \/ ResetVproc \/ HalStart \/ HalSignal \/ Work \/ Sleep
         \/ TakePicture \/ GetBuffer \/ Spurious \/ UserReset
  PROVE  SlotTypes' /\ Stations'
<1>1. CASE Gate
  BY <1>1 DEF SlotTypes, Stations, Gate, RestInv, ThreadRests, Quiet, IsPicture,
       parserVars, slotVars, halVars, vprocVars, taskVars, userVars
<1>2. CASE ResetHal
  BY <1>2 DEF SlotTypes, Stations, ResetHal, RestInv, ThreadRests, Quiet, IsPicture,
       parserVars, slotVars, halVars, vprocVars, taskVars, userVars
<1>3. CASE ResetVproc
  BY <1>3 DEF SlotTypes, Stations, ResetVproc, RestInv, ThreadRests, Quiet, IsPicture,
       parserVars, slotVars, halVars, vprocVars, taskVars, userVars
<1>4. CASE HalStart
  BY <1>4 DEF SlotTypes, Stations, HalStart, RestInv, ThreadRests, Quiet, IsPicture,
       parserVars, slotVars, halVars, vprocVars, taskVars, userVars
<1>5. CASE HalSignal
  BY <1>5 DEF SlotTypes, Stations, HalSignal, RestInv, ThreadRests, Quiet, IsPicture,
       parserVars, slotVars, halVars, vprocVars, taskVars, userVars
<1>6. CASE Work
  BY <1>6 DEF SlotTypes, Stations, Work, RestInv, ThreadRests, Quiet, IsPicture,
       parserVars, slotVars, halVars, vprocVars, taskVars, userVars
<1>7. CASE Sleep
  BY <1>7 DEF SlotTypes, Stations, Sleep, RestInv, ThreadRests, Quiet, IsPicture,
       parserVars, slotVars, halVars, vprocVars, taskVars, userVars
<1>8. CASE TakePicture
  BY <1>8 DEF SlotTypes, Stations, TakePicture, RestInv, ThreadRests, Quiet, IsPicture,
       parserVars, slotVars, halVars, vprocVars, taskVars, userVars
<1>9. CASE GetBuffer
  BY <1>9 DEF SlotTypes, Stations, GetBuffer, RestInv, ThreadRests, Quiet, IsPicture,
       parserVars, slotVars, halVars, vprocVars, taskVars, userVars
<1>10. CASE Spurious
  BY <1>10 DEF SlotTypes, Stations, Spurious, RestInv, ThreadRests, Quiet, IsPicture,
       parserVars, slotVars, halVars, vprocVars, taskVars, userVars
<1>11. CASE UserReset
  BY <1>11 DEF SlotTypes, Stations, UserReset, RestInv, ThreadRests, Quiet, IsPicture,
       parserVars, slotVars, halVars, vprocVars, taskVars, userVars
<1> QED
  BY <1>1, <1>2, <1>3, <1>4, <1>5, <1>6, <1>7, <1>8, <1>9, <1>10, <1>11

\* What parsing does: a free slot gets the next picture.
Parsed(i, t) ==
    /\ slot[i] = Free /\ t.slot = i /\ cur = NoTask /\ cur' = t /\ pics' = pics + 1
    /\ slot' = [slot EXCEPT ![i] = [pic |-> pics + 1, buf |-> FALSE, use |-> 1]]
    /\ jobs' = jobs \/ jobs' = Append(jobs, [kind |-> "change", slot |-> i])
    /\ ppc' \in {"change", "gate"}
    /\ UNCHANGED <<extra, hpc, job, vpc, prev, got, vtasks, frames, held>>

LEMMA ParseEffect ==
  ASSUME SlotTypes, Stations, Parse
  PROVE  \E i \in 1..Slots, t \in Pictures : Parsed(i, t)
<1> DEFINE i == Min(FreeSlots)
<1>1. i \in 1..Slots /\ slot[i] = Free
  <2>1. FreeSlots \subseteq Nat /\ FreeSlots # {}
    BY VprocAssumption DEF FreeSlots, Parse, MayParse
  <2>2. i \in FreeSlots
    BY <2>1, LeastIn
  <2> QED BY <2>2 DEF FreeSlots
<1>2. PICK last, change \in BOOLEAN :
        /\ ppc = "parse" /\ pics' = pics + 1
        /\ slot' = [slot EXCEPT ![i] = [pic |-> pics', buf |-> FALSE, use |-> 1]]
        /\ cur' = [kind |-> IF last THEN "last" ELSE "pic", slot |-> i]
        /\ jobs' = IF change THEN Append(jobs, [kind |-> "change", slot |-> i]) ELSE jobs
        /\ ppc' = IF change THEN "change" ELSE "gate"
  BY DEF Parse
<1>3. cur' \in Pictures /\ cur'.slot = i
  <2> HIDE DEF i
  <2> QED BY <1>1, <1>2 DEF Pictures
<1>4. Parsed(i, cur')
  <2> HIDE DEF i
  <2>1. UNCHANGED <<extra, hpc, job, vpc, prev, got, vtasks, frames, held>>
    BY DEF Parse, vprocVars, taskVars, userVars
  <2> QED BY <1>1, <1>2, <1>3, <2>1 DEF Parsed, Stations
<1> QED
  BY <1>1, <1>3, <1>4

LEMMA ParseTypes ==
  ASSUME SlotTypes, Stations, NEW i \in 1..Slots, NEW t \in Pictures, Parsed(i, t)
  PROVE  SlotTypes' /\ Stations'
<1> DEFINE c == [kind |-> "change", slot |-> i]
<1>1. c \in Tasks /\ (jobs' = jobs \/ jobs' = Append(jobs, c))
  BY DEF Tasks, Parsed
<1>2. jobs' \in Seq(Tasks)
  <2> HIDE DEF c
  <2>1. jobs \in Seq(Tasks)
    BY DEF SlotTypes
  <2>2. Append(jobs, c) \in Seq(Tasks)
    BY <1>1, <2>1, Appended
  <2> QED BY <1>1, <2>1, <2>2
<1>3. slot' \in [1..Slots -> [pic : Nat, buf : BOOLEAN, use : Nat]]
  BY DEF SlotTypes, Parsed
<1>4. SlotTypes'
  BY <1>2, <1>3 DEF SlotTypes, Parsed
<1> QED
  BY <1>4 DEF Stations, Parsed, NoTask, Pictures

\* The end of the stream is no picture.
LEMMA ParseEosTypes ==
  ASSUME SlotTypes, Stations, ParseEos
  PROVE  SlotTypes' /\ Stations' /\ Resting
<1> DEFINE t == [kind |-> "eos", slot |-> 0]
<1>1. t \in Tasks /\ ~IsPicture(t)
  BY DEF Tasks, IsPicture
<1>2. /\ jobs' = Append(jobs, t)
      /\ UNCHANGED <<ppc, cur, pics, slot, extra, hpc, job, vpc, prev, got, vtasks, frames, held>>
  BY DEF ParseEos, slotVars, vprocVars, taskVars, userVars
<1> HIDE DEF t
<1>3. jobs' \in Seq(Tasks) /\ \A i, k : Queues(k, i)' <=> Queues(k, i)
  BY <1>1, <1>2, JobAppended
<1>4. (\A i, k : WaitsAt(k, i)' <=> WaitsAt(k, i)) /\ (\A i : Pushes(i)' <=> Pushes(i))
  BY <1>2, WaitsStay, PushStays DEF Windowed
<1>5. Resting
  BY <1>2, <1>3, <1>4, RestingIf
<1>6. SlotTypes'
  BY <1>2, <1>3 DEF SlotTypes
<1> QED
  BY <1>2, <1>5, <1>6 DEF Stations

\* The picture gets its buffer and goes to the hal thread.
Got(t) ==
    /\ UnusedBuffers > 0 /\ cur = t
    /\ slot' = [slot EXCEPT ![t.slot].buf = TRUE] /\ extra' = extra \cup {slot[t.slot].pic}
    /\ jobs' = Append(jobs, t) /\ cur' = NoTask /\ ppc' = "parse"
    /\ UNCHANGED <<pics, hpc, job, vpc, prev, got, vtasks, frames, held>>

Retried ==
    /\ ppc = "get" /\ ppc' = "retry"
    /\ UNCHANGED <<slot, extra, jobs, cur, pics, hpc, job, vpc, prev, got, vtasks, frames, held>>

LEMMA GetEffect ==
  ASSUME SlotTypes, Stations, Get
  PROVE  Retried \/ \E t \in Pictures : Got(t)
<1>1. cur \in Pictures
  BY DEF SlotTypes, Stations, Get
<1>2. UNCHANGED <<pics, hpc, job, vpc, prev, got, vtasks, frames, held>>
  BY DEF Get, vprocVars, taskVars, userVars
<1> QED
  BY <1>1, <1>2 DEF Get, Got, Retried

LEMMA GotTypes ==
  ASSUME SlotTypes, Stations, NEW t \in Pictures, Got(t)
  PROVE  SlotTypes' /\ Stations'
<1>1. t \in Tasks /\ t.slot \in 1..Slots
  BY DEF Tasks, Pictures
<1>2. jobs' \in Seq(Tasks)
  BY <1>1, Appended DEF Got, SlotTypes
<1>3. slot' \in [1..Slots -> [pic : Nat, buf : BOOLEAN, use : Nat]]
  BY <1>1 DEF SlotTypes, Got
<1>4. SlotTypes'
  BY <1>2, <1>3 DEF SlotTypes, Got
<1> QED
  BY <1>4 DEF Stations, Got

LEMMA RetriedTypes ==
  ASSUME SlotTypes, Stations, Retried
  PROVE  SlotTypes' /\ Stations' /\ Resting
<1>1. Resting
  BY JobsStay, PushStays, WaitsStay, RestingIf DEF Retried, Windowed
<1>2. SlotTypes'
  BY DEF SlotTypes, Retried
<1> QED
  BY <1>1, <1>2 DEF Stations, Retried

\* The reset drops a picture that was not sent.
LEMMA ResetDoneTypes ==
  ASSUME SlotTypes, Stations, Counted, ResetDone
  PROVE  SlotTypes' /\ Stations'
<1>1. slot' \in [1..Slots -> [pic : Nat, buf : BOOLEAN, use : Nat]]
  <2>1. CASE cur = NoTask
    BY <2>1 DEF ResetDone, SlotTypes
  <2>2. CASE cur # NoTask
    <3>1. cur.slot \in 1..Slots
      BY <2>2 DEF SlotTypes, Pictures
    <3>2. slot[cur.slot].use > 0
      BY <3>1, OwnerHasUse DEF Unsent
    <3> QED BY <2>2, <3>1, <3>2, ClrUseTypes DEF ResetDone
  <2> QED BY <2>1, <2>2
<1> QED
  BY <1>1 DEF SlotTypes, Stations, ResetDone, halVars, vprocVars, taskVars, NoTask

\* The hal thread takes a task.
LEMMA HalTakeTypes ==
  ASSUME SlotTypes, Stations, HalTake
  PROVE  SlotTypes' /\ Stations'
<1>1. Tail(jobs) \in Seq(Tasks) /\ Head(jobs) \in Tasks
  BY Advanced DEF SlotTypes, HalTake
<1>2. SlotTypes'
  BY <1>1 DEF SlotTypes, HalTake, parserVars, slotVars, vprocVars, taskVars, userVars
<1>3. Head(jobs) # NoTask
  BY <1>1 DEF Tasks, Pictures, NoTask
<1> QED
  BY <1>2, <1>3 DEF Stations, HalTake, parserVars, vprocVars, taskVars

\* A frame is put into the display queue.
LEMMA FrameTypes ==
  ASSUME SlotTypes, NEW f \in Frames, frames' = Append(frames, f)
  PROVE  frames' \in Seq(Frames)
  BY Appended DEF SlotTypes

\* Without the thread the frame goes to the display queue with the buffer.
LEMMA HalDirectTypes ==
  ASSUME SlotTypes, Stations, HalDirect
  PROVE  /\ SlotTypes' /\ Stations'
         /\ \E f \in Frames : /\ frames' = Append(frames, f)
                              /\ f.buf = IF IsPicture(job) THEN slot[job.slot].pic ELSE NoBuf
<1>1. job \in Tasks
  BY DEF SlotTypes, Stations, HalDirect
<1> DEFINE p == slot[job.slot].pic
           f == IF IsPicture(job) THEN FrameOf(2 * p, job.kind = "last", p) ELSE SignOf(job)
<1>2. f \in Frames /\ f.buf = IF IsPicture(job) THEN p ELSE NoBuf
  <2>1. CASE IsPicture(job)
    <3>1. p \in Nat
      BY <1>1, <2>1, PictureSlot DEF SlotTypes
    <3> HIDE DEF p
    <3> QED BY <2>1, <3>1 DEF FrameOf, Frames
  <2>2. CASE ~IsPicture(job)
    BY <1>1, <2>2, SignIsFrame
  <2> QED BY <2>1, <2>2
<1>3. frames' = Append(frames, f)
  BY DEF HalDirect
<1> HIDE DEF f
<1>4. SlotTypes'
  BY <1>2, <1>3, FrameTypes DEF SlotTypes, HalDirect, parserVars, slotVars, vprocVars, taskVars, userVars
<1>5. Stations'
  BY DEF Stations, HalDirect, parserVars, vprocVars, taskVars
<1> QED
  BY <1>2, <1>3, <1>4, <1>5

\* The task goes to the thread, a picture with a second use of its slot.
LEMMA HalPutTypes ==
  ASSUME SlotTypes, Stations, HalPut
  PROVE  SlotTypes' /\ Stations'
<1>1. job \in Tasks
  BY DEF SlotTypes, Stations, HalPut
<1>2. vtasks' \in Seq(Tasks) /\ vtasks' # << >> /\ (vtasks # << >> => Head(vtasks') = Head(vtasks))
  <2>1. vtasks' = Append(vtasks, job) /\ vtasks \in Seq(Tasks)
    BY DEF HalPut, SlotTypes
  <2>2. vtasks # << >> => 1 \in DOMAIN vtasks /\ Head(vtasks) = vtasks[1]
    BY <2>1, Advanced
  <2>3. Head(vtasks') = vtasks'[1]
    BY <1>1, <2>1, Appended, Advanced
  <2> QED BY <1>1, <2>1, <2>2, <2>3, Appended
<1>3. slot' \in [1..Slots -> [pic : Nat, buf : BOOLEAN, use : Nat]]
  <2>1. CASE IsPicture(job)
    <3>1. job.slot \in 1..Slots
      BY <1>1, <2>1, PictureSlot
    <3>2. slot' = [slot EXCEPT ![job.slot] = [slot[job.slot] EXCEPT !.use = @ + 1]]
      BY <2>1 DEF HalPut, Queued
    <3>3. slot[job.slot] \in [pic : Nat, buf : BOOLEAN, use : Nat]
      BY <3>1 DEF SlotTypes
    <3>4. [slot[job.slot] EXCEPT !.use = @ + 1] \in [pic : Nat, buf : BOOLEAN, use : Nat]
      BY <3>3
    <3> QED BY <3>1, <3>2, <3>4 DEF SlotTypes
  <2>2. CASE ~IsPicture(job)
    BY <2>2 DEF HalPut, SlotTypes
  <2> QED BY <2>1, <2>2
<1>4. SlotTypes'
  BY <1>2, <1>3 DEF SlotTypes, HalPut, parserVars, vprocVars, userVars
<1> QED
  BY <1>2, <1>4 DEF Stations, HalPut, parserVars, vprocVars, userVars

LEMMA HalPutEosTypes ==
  ASSUME SlotTypes, Stations, HalPutEos
  PROVE  SlotTypes' /\ Stations' /\ Resting
<1>1. job \in Tasks /\ ~IsPicture(job)
  BY DEF SlotTypes, Stations, HalPutEos, IsPicture
<1>2. UNCHANGED <<ppc, cur, pics, jobs, slot, extra, job, vpc, prev, got, frames, held>>
  BY DEF HalPutEos, parserVars, slotVars, vprocVars, userVars
<1>3. UNCHANGED vtasks \/ vtasks' = Append(vtasks, job)
  BY DEF HalPutEos
<1>4. /\ vtasks' \in Seq(Tasks) /\ (vtasks # << >> => vtasks' # << >> /\ Head(vtasks') = Head(vtasks))
      /\ \A i, k : WaitsAt(k, i)' <=> WaitsAt(k, i)
  <2>1. CASE UNCHANGED vtasks
    BY <1>2, <2>1, WaitsStay DEF SlotTypes, Windowed
  <2>2. CASE vtasks' = Append(vtasks, job)
    <3>1. vtasks # << >> => 1 \in DOMAIN vtasks /\ Head(vtasks) = vtasks[1]
      BY Advanced DEF SlotTypes
    <3>2. vtasks' # << >> /\ Head(vtasks') = vtasks'[1] /\ vtasks' \in Seq(Tasks)
      BY <1>1, <2>2, Appended, Advanced DEF SlotTypes
    <3>3. vtasks # << >> => Head(vtasks') = Head(vtasks)
      BY <1>1, <2>2, <3>1, <3>2, Appended DEF SlotTypes
    <3>4. \A i, k : WaitsAt(k, i)' <=> WaitsAt(k, i)
      BY <1>1, <1>2, <2>2, WaitAppended
    <3> QED BY <3>2, <3>3, <3>4
  <2> QED BY <1>3, <2>1, <2>2
<1>5. Resting
  <2>1. hpc = "put" /\ hpc' = "signal"
    BY DEF HalPutEos
  <2>2. (\A i : ~Pushes(i)) /\ (\A i : ~Pushes(i)')
    BY <1>1, <1>2 DEF Pushes
  <2>3. \A i \in 1..Slots : /\ (Unsent(i)' <=> Unsent(i))
                            /\ (Sent(i)' <=> Sent(i))
                            /\ (Waiting(i)' <=> Waiting(i))
    <3>1. \A i, k : k \in DOMAIN vtasks' /\ WaitsAt(k, i)' <=> k \in DOMAIN vtasks /\ WaitsAt(k, i)
      BY <1>4 DEF WaitsAt
    <3>2. \A i, k : Queues(k, i)' <=> Queues(k, i)
      BY <1>2, JobsStay
    <3> QED BY <1>2, <2>2, <3>1, <3>2, PlacesAre, PlacesWillBe
  <2>4. \A i, k : Queues(k, i)' <=> Queues(k, i)
    BY <1>2, JobsStay
  <2> QED BY <1>2, <1>4, <2>2, <2>3, <2>4 DEF Resting, Held, Mine
<1>6. SlotTypes'
  BY <1>2, <1>4 DEF SlotTypes
<1>7. hpc' = "signal" /\ hpc = "put"
  BY DEF HalPutEos
<1> QED
  BY <1>2, <1>4, <1>5, <1>6, <1>7 DEF Stations

\* push_display is done with the slot.
LEMMA HalClrTypes ==
  ASSUME SlotTypes, Stations, Counted, HalClr
  PROVE  SlotTypes' /\ Stations' /\ job.slot \in 1..Slots /\ IsPicture(job) /\ slot[job.slot].use > 0
<1>1. IsPicture(job) /\ job.slot \in 1..Slots
  BY PictureSlot DEF SlotTypes, Stations, HalClr
<1>2. slot[job.slot].use > 0
  BY <1>1, OwnerHasUse DEF Sent, HalClr
<1>3. slot' \in [1..Slots -> [pic : Nat, buf : BOOLEAN, use : Nat]]
  BY <1>1, <1>2, ClrUseTypes DEF HalClr
<1> QED
  BY <1>1, <1>2, <1>3 DEF SlotTypes, Stations, HalClr, parserVars, vprocVars, taskVars, userVars

\* The thread's steps.
LEMMA WindowTypes ==
  ASSUME SlotTypes, Stations, Counted, VprocReset \/ Clear
  PROVE  SlotTypes' /\ Stations' /\ ClrPrev /\ prev' = 0
<1>1. ClrPrev /\ prev' = 0
  BY DEF VprocReset, Clear, Emptied
<1>2. slot' \in [1..Slots -> [pic : Nat, buf : BOOLEAN, use : Nat]]
  BY <1>1, ClrPrevTypes
<1>3. SlotTypes'
  <2>1. 0 \in 0..Slots
    BY VprocAssumption
  <2>2. UNCHANGED <<pics, got, cur, job, jobs, frames, held>> /\ vtasks' = vtasks
    BY DEF VprocReset, Clear, halVars, parserVars, taskVars, userVars
  <2> QED BY <1>1, <1>2, <2>1, <2>2 DEF SlotTypes
<1>4. Stations'
  BY DEF Stations, VprocReset, Clear, halVars, parserVars, taskVars
<1> QED
  BY <1>1, <1>3, <1>4

LEMMA ShiftTypes ==
  ASSUME SlotTypes, Stations, Counted, Shift
  PROVE  /\ SlotTypes' /\ Stations' /\ ClrPrev /\ prev' = vtasks[1].slot
         /\ 1 \in DOMAIN vtasks /\ IsPicture(vtasks[1]) /\ vtasks[1].slot \in 1..Slots
<1>1. /\ vtasks # << >> /\ IsPicture(Head(vtasks)) /\ Head(vtasks) = vtasks[1]
      /\ vtasks[1] \in Tasks /\ 1 \in DOMAIN vtasks
  BY Advanced DEF SlotTypes, Stations, Shift
<1>2. vtasks[1].slot \in 1..Slots
  BY <1>1, PictureSlot
<1>3. ClrPrev /\ prev' = vtasks[1].slot
  BY <1>1 DEF Shift
<1>4. slot' \in [1..Slots -> [pic : Nat, buf : BOOLEAN, use : Nat]]
  BY <1>3, ClrPrevTypes
<1>5. SlotTypes'
  BY <1>2, <1>3, <1>4 DEF SlotTypes, Shift, halVars, parserVars, taskVars, userVars
<1>6. Stations'
  BY <1>1 DEF Stations, Shift, halVars, parserVars, taskVars
<1> QED
  BY <1>1, <1>2, <1>3, <1>5, <1>6

LEMMA PassOnTypes ==
  ASSUME SlotTypes, Stations, PassOn
  PROVE  /\ SlotTypes' /\ Stations' /\ ~IsPicture(vtasks[1])
         /\ SignOf(Head(vtasks)) \in Frames /\ SignOf(Head(vtasks)).buf = NoBuf
<1>1. vtasks # << >> /\ Head(vtasks) \in Tasks /\ Head(vtasks) = vtasks[1]
  BY Advanced DEF SlotTypes, Stations, PassOn
<1>2. SignOf(Head(vtasks)) \in Frames /\ SignOf(Head(vtasks)).buf = NoBuf
  BY <1>1, SignIsFrame
<1>3. frames' \in Seq(Frames)
  BY <1>2, FrameTypes DEF PassOn
<1>4. SlotTypes'
  BY <1>3 DEF SlotTypes, PassOn, halVars, parserVars, slotVars, taskVars, userVars
<1> QED
  BY <1>1, <1>2, <1>4 DEF Stations, PassOn, halVars, parserVars, taskVars

\* A new buffer goes into the display queue.
LEMMA DeinterlaceTypes ==
  ASSUME SlotTypes, Stations, RestInv, Deinterlace
  PROVE  /\ SlotTypes' /\ Stations' /\ got > 0 /\ got' = got - 1
         /\ \E f \in Frames : frames' = Append(frames, f) /\ f.buf = NewBuf
<1>1. vtasks # << >> /\ IsPicture(Head(vtasks)) /\ Head(vtasks) \in Tasks
  BY Advanced DEF SlotTypes, Stations, Deinterlace
<1>2. Head(vtasks).slot \in 1..Slots
  BY <1>1, PictureSlot
<1> DEFINE p == slot[Head(vtasks).slot].pic
           t == IF got = 2 THEN p + slot[prev].pic ELSE 2 * p
           f == FrameOf(t, Head(vtasks).kind = "last", NewBuf)
<1>3. p \in Nat
  BY <1>2 DEF SlotTypes
<1>4. got = 2 => prev \in 1..Slots
  BY DEF Deinterlace, Needed, RestInv, ThreadRests, SlotTypes
<1>5. t \in Int
  <2>1. got = 2 => slot[prev].pic \in Nat
    BY <1>4 DEF SlotTypes
  <2> HIDE DEF p
  <2> QED BY <1>3, <2>1
<1>6. f \in Frames /\ f.buf = NewBuf
  <2> HIDE DEF t
  <2> QED BY <1>5 DEF FrameOf, Frames, NewBuf
<1>7. frames' = Append(frames, f)
  BY DEF Deinterlace
<1> HIDE DEF f
<1>8. got > 0 /\ got' = got - 1
  BY DEF Deinterlace, RestInv, ThreadRests, Needed
<1>9. SlotTypes'
  BY <1>6, <1>7, <1>8, FrameTypes
     DEF SlotTypes, Deinterlace, halVars, parserVars, slotVars, taskVars, userVars
<1>10. Stations'
  BY <1>1 DEF Stations, Deinterlace, halVars, parserVars, taskVars
<1> QED
  BY <1>6, <1>7, <1>8, <1>9, <1>10

LEMMA IdleTypes ==
  ASSUME SlotTypes, Stations, Idle
  PROVE  SlotTypes' /\ Stations' /\ vtasks # << >> /\ vtasks' = Tail(vtasks)
<1>1. vtasks # << >> /\ vtasks' = Tail(vtasks) /\ Tail(vtasks) \in Seq(Tasks)
  BY Advanced DEF SlotTypes, Stations, Idle
<1>2. SlotTypes'
  BY <1>1 DEF SlotTypes, Idle, halVars, parserVars, slotVars, userVars
<1> QED
  BY <1>1, <1>2 DEF Stations, Idle, halVars, parserVars

\* The application's steps.
LEMMA UserTypes ==
  ASSUME SlotTypes, Stations, TakeFrame \/ ReleaseFrame \/ UserFlush
  PROVE  SlotTypes' /\ Stations'
<1>1. CASE TakeFrame
  <2>1. Tail(frames) \in Seq(Frames) /\ Head(frames) \in Frames
    BY <1>1, Advanced DEF SlotTypes, TakeFrame
  <2>2. << Head(frames) >> \in Seq(Frames)
    BY <2>1
  <2>3. frames' \in Seq(Frames) /\ held' \in Seq(Frames)
    BY <1>1, <2>1, <2>2 DEF TakeFrame
  <2>4. UNCHANGED <<ppc, cur, pics, slot, jobs, hpc, job, vpc, prev, got, vtasks>>
    BY <1>1 DEF TakeFrame, parserVars, slotVars, halVars, vprocVars, taskVars
  <2>5. SlotTypes'
    BY <2>3, <2>4 DEF SlotTypes
  <2> QED BY <2>4, <2>5 DEF Stations
<1>2. CASE ReleaseFrame
  <2>1. held' \in Seq(Frames)
    BY <1>2 DEF ReleaseFrame
  <2>2. UNCHANGED <<cur, pics, slot, jobs, hpc, job, vpc, prev, got, vtasks, frames>>
    BY <1>2 DEF ReleaseFrame, halVars, vprocVars, taskVars
  <2>3. ppc' = ppc \/ (ppc = "change" /\ ppc' = "retry")
    BY <1>2 DEF ReleaseFrame
  <2>4. SlotTypes'
    BY <2>1, <2>2 DEF SlotTypes
  <2> QED BY <2>2, <2>3, <2>4 DEF Stations
<1>3. CASE UserFlush
  <2>1. frames' \in Seq(Frames)
    BY <1>3 DEF UserFlush
  <2>2. UNCHANGED <<ppc, cur, pics, slot, jobs, hpc, job, vpc, prev, got, vtasks, held>>
    BY <1>3 DEF UserFlush, parserVars, halVars, vprocVars, taskVars
  <2> QED BY <2>1, <2>2 DEF SlotTypes, Stations
<1> QED
  BY <1>1, <1>2, <1>3

-----------------------------------------------------------------------------
(* Steps that move a slot *)

\* The slots that do not move.
OthersRest(M) == \A i \in (1..Slots) \ M :
    /\ (Unsent(i)' <=> Unsent(i)) /\ (Sent(i)' <=> Sent(i))
    /\ (Waiting(i)' <=> Waiting(i)) /\ (prev' = i <=> prev = i) /\ (cur'.slot = i <=> cur.slot = i)
    /\ (Held(i)' <=> Held(i)) /\ slot'[i] = slot[i]

LEMMA OthersIf ==
  ASSUME NEW M,
         \A i \in (1..Slots) \ M :
           /\ \A k : Queues(k, i)' <=> Queues(k, i)
           /\ \A k : WaitsAt(k, i)' <=> WaitsAt(k, i)
           /\ hpc' = "put" /\ Pushes(i)' <=> hpc = "put" /\ Pushes(i)
           /\ hpc' \in {"signal", "clr"} /\ Pushes(i)' <=> hpc \in {"signal", "clr"} /\ Pushes(i)
           /\ prev' = i <=> prev = i
           /\ cur'.slot = i <=> cur.slot = i
           /\ slot'[i] = slot[i]
  PROVE  OthersRest(M)
<1>1. \A i, k : (Queues(k, i) => k \in DOMAIN jobs) /\ (Queues(k, i)' => k \in DOMAIN jobs')
  BY DEF Queues
<1>2. \A i, k : (WaitsAt(k, i) => k \in DOMAIN vtasks) /\ (WaitsAt(k, i)' => k \in DOMAIN vtasks')
  BY DEF WaitsAt
<1>3. ASSUME NEW i \in (1..Slots) \ M
      PROVE  /\ Unsent(i)' <=> Unsent(i)
             /\ Sent(i)' <=> Sent(i)
             /\ Waiting(i)' <=> Waiting(i)
  <2>1. Waiting(i)' <=> Waiting(i)
    BY <1>2, PlacesAre, PlacesWillBe
  <2>2. Sent(i)' <=> Sent(i)
    BY PlacesAre, PlacesWillBe
  <2>3. Unsent(i)' <=> Unsent(i)
    BY <1>1, PlacesAre, PlacesWillBe
  <2> QED BY <2>1, <2>2, <2>3
<1> QED
  BY <1>3 DEF OthersRest, Held, Mine

LEMMA OthersCounted ==
  ASSUME NEW M, OthersRest(M), Counted,
         \A i \in (1..Slots) \cap M : slot'[i].use = Owners(i)' /\ (slot'[i].use = 0 => slot'[i] = Free)
  PROVE  Counted'
<1>1. \A i \in (1..Slots) \ M : Owners(i)' = Owners(i)
  BY DEF OthersRest, Owners
<1> QED
  BY <1>1 DEF Counted, OthersRest

LEMMA OthersBuffered ==
  ASSUME NEW M, OthersRest(M), Buffered, SlotTypes,
         \A i \in (1..Slots) \cap M : Held(i)' => slot'[i].buf,
         cur' # NoTask => cur'.slot \in 1..Slots,
         \A i \in (1..Slots) \cap M : cur'.slot = i => ~slot'[i].buf
  PROVE  Buffered'
<1>1. ASSUME cur' # NoTask PROVE ~slot'[cur'.slot].buf
  <2>1. CASE cur'.slot \in M
    BY <1>1, <2>1
  <2>2. CASE cur'.slot \notin M
    <3>1. cur.slot = cur'.slot /\ cur'.slot \in (1..Slots) \ M
      BY <1>1, <2>2 DEF OthersRest
    <3>2. cur # NoTask
      BY <3>1 DEF NoTask
    <3> QED BY <3>1, <3>2 DEF OthersRest, Buffered
  <2> QED BY <2>1, <2>2
<1> QED
  BY <1>1 DEF Buffered, OthersRest

\* A slot that keeps its picture, or is free.
LEMMA OthersNumbered ==
  ASSUME NEW M, OthersRest(M), Numbered, UNCHANGED pics,
         \A i \in (1..Slots) \cap M :
           slot'[i].use > 0 => slot[i].use > 0 /\ slot'[i].pic = slot[i].pic
  PROVE  Numbered'
<1>1. \A i \in 1..Slots : slot'[i].use > 0 => slot[i].use > 0 /\ slot'[i].pic = slot[i].pic
  BY DEF OthersRest
<1> QED
  BY <1>1 DEF Numbered

\* A buffer that is given back is one more that nobody uses.
LEMMA UnusedSame ==
  ASSUME OwnInv, SlotTypes', UNCHANGED <<frames, held, got>>, Taken' \subseteq Taken
  PROVE  UnusedBuffers' >= 0
<1>1. got \in Nat /\ NewOf(frames) \in Nat /\ NewOf(held) \in Nat
  BY NewNat DEF OwnInv, SlotTypes
<1>2. got' + NewOf(frames') + NewOf(held') <= got + NewOf(frames) + NewOf(held)
  BY <1>1
<1> QED
  BY <1>2, UnusedKept DEF OwnInv

\* Parsing.
LEMMA ParseMoves ==
  ASSUME SlotTypes, Stations, Counted, Apart, NEW i \in 1..Slots, NEW t \in Pictures, Parsed(i, t)
  PROVE  /\ OthersRest({i}) /\ Apart'
         /\ ~Unsent(i) /\ ~Sent(i) /\ ~Waiting(i) /\ prev # i /\ ~Held(i)
         /\ Unsent(i)' /\ ~Sent(i)' /\ ~Waiting(i)' /\ prev' # i /\ ~Held(i)'
<1>1. ~Unsent(i) /\ ~Sent(i) /\ ~Waiting(i) /\ prev # i
  BY OwnerHasUse DEF Parsed, Free
<1>2. ~Pushes(i) /\ (\A k : ~Queues(k, i)) /\ (\A k : ~WaitsAt(k, i))
  <2>1. ~Pushes(i)
    BY <1>1, PlacesAre DEF Stations, Pushes
  <2>2. \A k : ~Queues(k, i)
    BY <1>1, PlacesAre DEF Queues
  <2>3. \A k : ~WaitsAt(k, i)
    BY <1>1, PlacesAre DEF WaitsAt
  <2> QED BY <2>1, <2>2, <2>3
<1>3. \A j, k : Queues(k, j)' <=> Queues(k, j)
  <2> DEFINE c == [kind |-> "change", slot |-> i]
  <2>1. c \in Tasks /\ ~IsPicture(c) /\ (jobs' = jobs \/ jobs' = Append(jobs, c))
    BY DEF Tasks, Parsed, IsPicture
  <2> HIDE DEF c
  <2>2. CASE jobs' = jobs
    BY <2>2, JobsStay
  <2>3. CASE jobs' = Append(jobs, c)
    BY <2>1, <2>3, JobAppended
  <2> QED BY <2>1, <2>2, <2>3
<1>4. (\A j, k : WaitsAt(k, j)' <=> WaitsAt(k, j)) /\ (\A j : Pushes(j)' <=> Pushes(j))
  BY WaitsStay, PushStays DEF Parsed, Windowed
<1>5. cur.slot = 0 /\ cur'.slot = i /\ prev' = prev /\ hpc' = hpc
  BY DEF Parsed, NoTask
<1>6. OthersRest({i})
  <2>1. \A j \in (1..Slots) \ {i} : slot'[j] = slot[j]
    BY DEF Parsed, SlotTypes
  <2> QED BY <1>3, <1>4, <1>5, <2>1, OthersIf
<1>7. Unsent(i)' /\ ~Sent(i)' /\ ~Waiting(i)' /\ prev' # i
  BY <1>1, <1>2, <1>3, <1>4, <1>5, PlacesWillBe DEF Queues
<1>8. ~Held(i) /\ ~Held(i)'
  BY <1>1, <1>5 DEF Held, Mine
<1>9. ApartAll'
  <2>1. ApartAll
    BY ApartIs
  <2>2. \A j \in 1..Slots : /\ Unsent(j)' => ~Waiting(j)' /\ prev' # j
                            /\ Waiting(j)' => prev' # j
    BY <1>6, <1>7, <2>1 DEF OthersRest, ApartAll
  <2> QED BY <1>2, <1>3, <1>4, <1>5, <2>1, <2>2 DEF ApartAll
<1> QED
  BY <1>1, <1>6, <1>7, <1>8, <1>9, ApartWillBe

LEMMA ParseOwns ==
  ASSUME OwnInv, Parse
  PROVE  /\ SlotTypes' /\ Stations' /\ Apart' /\ Counted' /\ Buffered' /\ Numbered' /\ Owned' /\ Kept'
         /\ UnusedBuffers' >= 0
<1>1. PICK i \in 1..Slots, t \in Pictures : Parsed(i, t)
  BY ParseEffect DEF OwnInv
<1> USE DEF OwnInv
<1>2. SlotTypes' /\ Stations'
  BY <1>1, ParseTypes
<1>3. /\ OthersRest({i}) /\ Apart'
      /\ ~Unsent(i) /\ ~Sent(i) /\ ~Waiting(i) /\ prev # i /\ ~Held(i)
      /\ Unsent(i)' /\ ~Sent(i)' /\ ~Waiting(i)' /\ prev' # i /\ ~Held(i)'
  BY <1>1, ParseMoves
<1>4. /\ slot'[i] = [pic |-> pics + 1, buf |-> FALSE, use |-> 1] /\ slot[i] = Free
      /\ pics' = pics + 1 /\ pics \in Nat /\ UNCHANGED <<extra, frames, held, got>>
      /\ cur'.slot = i
  BY <1>1 DEF Parsed, SlotTypes
<1>5. Counted'
  BY <1>3, <1>4, OthersCounted DEF Owners
<1>6. Buffered'
  BY <1>3, <1>4, OthersBuffered
<1>7. Numbered'
  BY <1>3, <1>4 DEF Numbered, OthersRest
<1>8. \A j \in 1..Slots : /\ Held(j)' <=> Held(j)
                          /\ Held(j) => slot'[j] = slot[j] /\ slot[j].pic \in 1..pics
  <2>1. \A j \in 1..Slots : Held(j) => slot[j].use > 0
    BY OwnerHasUse DEF Held, Mine
  <2> QED BY <1>3, <2>1 DEF OthersRest, Numbered
<1>9. Owned'
  <2>1. \A b : b <= pics /\ Alone(b) => Alone(b)'
    BY <1>3, <1>4 DEF Alone, Mine, OthersRest
  <2>3. /\ \A k \in DOMAIN frames : frames[k].buf <= pics
        /\ \A k \in DOMAIN held : held[k].buf <= pics
    BY <1>4 DEF Owned, Bufs, NoBuf, NewBuf
  <2>2. Bufs(held)' /\ Bufs(frames)'
    BY <1>4 DEF Owned, Bufs
  <2> QED BY <1>4, <2>1, <2>2, <2>3 DEF Owned
<1>10. Kept'
  <2>1. extra' \subseteq 1..pics'
    BY <1>4 DEF Kept
  <2>2. \A b \in 1..pics : b \in BuffersOf(frames) \cup BuffersOf(held)
                            <=> b \in (BuffersOf(frames) \cup BuffersOf(held))'
    BY <1>4 DEF BuffersOf
  <2>3. pics + 1 \notin extra /\ pics + 1 \notin (BuffersOf(frames) \cup BuffersOf(held))'
    BY <1>4 DEF Kept, BuffersOf, Owned, Bufs, NoBuf, NewBuf
  <2> QED BY <1>4, <1>8, <2>1, <2>2, <2>3 DEF Kept
<1>11. UnusedBuffers' >= 0
  <2>1. Taken' \subseteq Taken
    BY <1>3, <1>4 DEF Taken, OthersRest
  <2> QED BY <1>2, <1>4, <2>1, UnusedSame
<1> QED
  BY <1>2, <1>3, <1>5, <1>6, <1>7, <1>9, <1>10, <1>11

\* A picture gets its buffer.
LEMMA GotMoves ==
  ASSUME SlotTypes, Stations, Apart, NEW t \in Pictures, Got(t)
  PROVE  /\ OthersRest({t.slot}) /\ Apart' /\ t.slot \in 1..Slots
         /\ Unsent(t.slot) /\ ~Held(t.slot) /\ ~Waiting(t.slot) /\ prev # t.slot
         /\ Unsent(t.slot)' /\ Held(t.slot)' /\ ~Waiting(t.slot)' /\ prev' # t.slot
<1> DEFINE i == t.slot
<1>1. t \in Tasks /\ IsPicture(t) /\ i \in 1..Slots /\ cur.slot = i /\ cur'.slot = 0
  BY DEF Tasks, Pictures, IsPicture, Got, NoTask
<1>2. \A j, k : Queues(k, j)' <=> Queues(k, j) \/ (k = Len(jobs) + 1 /\ j = i)
  BY <1>1, JobAppended DEF Got
<1>3. (\A j, k : WaitsAt(k, j)' <=> WaitsAt(k, j)) /\ (\A j : Pushes(j)' <=> Pushes(j))
  BY WaitsStay, PushStays DEF Got, Windowed
<1>4. prev' = prev /\ hpc' = hpc /\ slot' = [slot EXCEPT ![i].buf = TRUE]
  BY DEF Got
<1>5. OthersRest({i})
  <2>1. \A j \in (1..Slots) \ {i} : slot'[j] = slot[j] /\ cur.slot # j /\ cur'.slot # j
    BY <1>1, <1>4 DEF SlotTypes
  <2> HIDE DEF i
  <2> QED BY <1>2, <1>3, <1>4, <2>1, OthersIf
<1>6. ApartAll
  BY ApartIs
<1>7. /\ Unsent(i) /\ ~Waiting(i) /\ prev # i /\ ~Pushes(i) /\ ~Held(i)
      /\ \A k : ~Queues(k, i)
  BY <1>1, <1>6, PlacesAre DEF ApartAll, Held, Mine
<1>8. Unsent(i)' /\ ~Waiting(i)' /\ prev' # i /\ Held(i)'
  <2>0. PICK n : n = Len(jobs) + 1
    OBVIOUS
  <2>1. Queues(n, i)' /\ n \in DOMAIN jobs'
    BY <1>2, <2>0 DEF Queues
  <2>2. Unsent(i)'
    BY <1>1, <2>1, PlacesWillBe
  <2>3. ~Waiting(i)'
    BY <1>1, <1>3, <1>7, PlacesAre, PlacesWillBe DEF WaitsAt
  <2> QED BY <1>1, <1>4, <1>7, <2>2, <2>3 DEF Held, Mine
<1>9. ApartAll'
  <2>1. \A j \in 1..Slots : /\ Unsent(j)' => ~Waiting(j)' /\ prev' # j
                            /\ Waiting(j)' => prev' # j
    BY <1>1, <1>5, <1>6, <1>8 DEF OthersRest, ApartAll
  <2>2. \A j, k : Queues(k, j) => k # Len(jobs) + 1
    BY <1>1, JobAppended DEF Got
  <2> HIDE DEF i
  <2> QED BY <1>1, <1>2, <1>3, <1>4, <1>6, <1>7, <2>1, <2>2 DEF ApartAll
<1> QED
  BY <1>1, <1>5, <1>7, <1>8, <1>9, ApartWillBe

LEMMA GotOwns ==
  ASSUME OwnInv, NEW t \in Pictures, Got(t)
  PROVE  /\ SlotTypes' /\ Stations' /\ Apart' /\ Counted' /\ Buffered' /\ Numbered' /\ Owned' /\ Kept'
         /\ UnusedBuffers' >= 0
<1> DEFINE i == t.slot
           p == slot[i].pic
<1> USE DEF OwnInv
<1>1. SlotTypes' /\ Stations'
  BY GotTypes
<1>2. /\ OthersRest({i}) /\ Apart' /\ i \in 1..Slots
      /\ Unsent(i) /\ ~Held(i) /\ ~Waiting(i) /\ prev # i
      /\ Unsent(i)' /\ Held(i)' /\ ~Waiting(i)' /\ prev' # i
  BY GotMoves
<1>3. /\ slot'[i].use = slot[i].use /\ slot'[i].pic = p /\ slot'[i].buf
      /\ extra' = extra \cup {p} /\ cur' = NoTask /\ UNCHANGED <<pics, frames, held, got>>
  BY <1>2 DEF Got, SlotTypes
<1> HIDE DEF i
<1>4. slot[i].use > 0 /\ p \in 1..pics
  BY <1>2, OwnerHasUse DEF Numbered
<1>5. Counted'
  <2>1. Owners(i)' = 1 /\ Owners(i) = 1
    BY <1>2 DEF Owners
  <2> QED BY <1>2, <1>3, <1>4, <2>1, OthersCounted DEF Counted
<1>6. Buffered'
  BY <1>2, <1>3, OthersBuffered DEF NoTask
<1>7. Numbered'
  BY <1>2, <1>3, <1>4, OthersNumbered
<1>8. Owned'
  <2>1. \A b : Alone(b) => Alone(b)'
    BY <1>2, <1>3 DEF Alone, Mine, OthersRest
  <2>2. Bufs(held)' /\ Bufs(frames)'
    BY <1>3 DEF Owned, Bufs
  <2> QED BY <1>3, <2>1, <2>2 DEF Owned
<1>9. Kept'
  <2>1. extra' \subseteq 1..pics'
    BY <1>3, <1>4 DEF Kept
  <2>2. BuffersOf(frames)' = BuffersOf(frames) /\ BuffersOf(held)' = BuffersOf(held)
    BY <1>3 DEF BuffersOf
  <2>3. \A b \in 1..pics :
          (\E j \in 1..Slots : Held(j)' /\ slot'[j].pic = b)
            <=> b = p \/ \E j \in 1..Slots : Held(j) /\ slot[j].pic = b
    <3>1. \A j \in (1..Slots) \ {i} : slot'[j] = slot[j] /\ (Held(j)' <=> Held(j))
      BY <1>2 DEF OthersRest
    <3> QED BY <1>2, <1>3, <3>1
  <2> HIDE DEF p
  <2> QED BY <1>3, <2>1, <2>2, <2>3 DEF Kept
<1>10. UnusedBuffers' >= 0
  <2>1. Taken' \subseteq Taken \cup {p}
    <3>1. \A j \in 1..Slots : slot'[j].buf => j = i \/ (slot[j].buf /\ slot'[j].pic = slot[j].pic)
      BY <1>2 DEF OthersRest
    <3> QED BY <1>3, <3>1, Zenon DEF Taken
  <2>2. IsFiniteSet(Taken) /\ Cardinality(Taken) \in Nat
    BY TakenFinite
  <2>3. /\ IsFiniteSet(Taken \cup {p}) /\ Cardinality(Taken \cup {p}) \in Nat
        /\ Cardinality(Taken \cup {p}) <= Cardinality(Taken) + 1
    <3> HIDE DEF p
    <3>1. CASE p \in Taken
      <4>1. Taken \cup {p} = Taken
        BY <3>1
      <4> QED BY <2>2, <4>1
    <3>2. CASE p \notin Taken
      BY <2>2, <3>2, FS_AddElement
    <3> QED BY <3>1, <3>2
  <2>4. Cardinality(Taken') \in Nat /\ Cardinality(Taken') <= Cardinality(Taken \cup {p})
    BY <2>1, <2>3, FS_Subset, FS_CardinalityType
  <2>5. got \in Nat /\ NewOf(frames) \in Nat /\ NewOf(held) \in Nat /\ BufferCount \in Nat
    BY NewNat, VprocAssumption DEF SlotTypes
  <2>6. UnusedBuffers > 0
    BY DEF Got
  <2> HIDE DEF p
  <2> QED BY <1>3, <2>2, <2>3, <2>4, <2>5, <2>6, UnusedIs, UnusedWillBe
<1> QED
  BY <1>1, <1>2, <1>5, <1>6, <1>7, <1>8, <1>9, <1>10

\* The decoder gives its use of slot i back.
LEMMA UseGiven ==
  ASSUME OwnInv, SlotTypes', NEW i \in 1..Slots, slot[i].use > 0, slot' = ClrUse(slot, i),
         OthersRest({i}), Held(i)' <=> Held(i), Mine(i)' => Mine(i), Owners(i) = Owners(i)' + 1,
         cur' # NoTask => cur'.slot \in 1..Slots, cur'.slot # i,
         UNCHANGED <<pics, extra, frames, held, got>>
  PROVE  Counted' /\ Buffered' /\ Numbered' /\ Owned' /\ Kept' /\ UnusedBuffers' >= 0
<1> USE DEF OwnInv
<1>1. /\ slot[i].use = 1 => slot'[i] = Free
      /\ slot[i].use > 1 => /\ slot'[i].use = slot[i].use - 1
                            /\ slot'[i].pic = slot[i].pic
                            /\ slot'[i].buf = slot[i].buf
      /\ slot[i].use \in Nat
  BY ClrUseTypes DEF SlotTypes
<1>2. /\ slot[i].use = Owners(i)' + 1 /\ slot'[i].use = Owners(i)'
      /\ slot'[i].use # 0 => slot[i].use > 1
  BY <1>1 DEF Counted, Free, Owners
<1>3. Counted'
  BY <1>1, <1>2, OthersCounted
<1>4. slot'[i].use = 0 => ~Mine(i)' /\ ~Held(i)
  BY <1>2 DEF Owners, Mine, Held
<1>5. Held(i)' => slot'[i].buf /\ slot'[i].pic = slot[i].pic
  BY <1>1, <1>2, <1>4 DEF Buffered
<1>6. Buffered'
  BY <1>5, OthersBuffered
<1>7. Numbered'
  BY <1>1, <1>2, OthersNumbered DEF Free
<1>8. \A j \in 1..Slots : /\ Mine(j)' => Mine(j) /\ slot'[j].pic = slot[j].pic
                          /\ Held(j)' <=> Held(j)
                          /\ Held(j) => slot'[j].pic = slot[j].pic
  <2>1. \A j \in (1..Slots) \ {i} : /\ Mine(j)' <=> Mine(j)
                                    /\ Held(j)' <=> Held(j)
                                    /\ slot'[j] = slot[j]
    BY DEF OthersRest, Mine
  <2>2. Mine(i)' => slot'[i].pic = slot[i].pic
    BY <1>1, <1>2, <1>4
  <2> QED BY <1>5, <2>1, <2>2
<1>9. Owned'
  <2>1. \A b : Alone(b) => Alone(b)'
    BY <1>8 DEF Alone
  <2>2. Bufs(held)' /\ Bufs(frames)'
    BY DEF Owned, Bufs
  <2> QED BY <2>1, <2>2 DEF Owned
<1>10. Kept'
  <2>1. BuffersOf(frames)' = BuffersOf(frames) /\ BuffersOf(held)' = BuffersOf(held)
    BY DEF BuffersOf
  <2> QED BY <1>8, <2>1 DEF Kept
<1>11. UnusedBuffers' >= 0
  <2>1. \A j \in 1..Slots : slot'[j].buf => slot[j].buf /\ slot'[j].pic = slot[j].pic
    BY <1>1, <1>2 DEF OthersRest, Free
  <2>2. Taken' \subseteq Taken
    BY <2>1, Zenon DEF Taken
  <2> QED BY <2>2, UnusedSame
<1> QED
  BY <1>3, <1>6, <1>7, <1>9, <1>10, <1>11

LEMMA HalClrOwns ==
  ASSUME OwnInv, HalClr
  PROVE  /\ SlotTypes' /\ Stations' /\ Apart' /\ Counted' /\ Buffered' /\ Numbered' /\ Owned' /\ Kept'
         /\ UnusedBuffers' >= 0
<1> USE DEF OwnInv
<1> DEFINE i == job.slot
<1>1. SlotTypes' /\ Stations' /\ i \in 1..Slots /\ IsPicture(job) /\ slot[i].use > 0
  BY HalClrTypes
<1>2. PICK s \in 1..Slots : s = i
  BY <1>1
<1>3. /\ hpc = "clr" /\ hpc' = "rest" /\ slot' = ClrUse(slot, s) /\ job' = job /\ job.slot = s
      /\ UNCHANGED <<cur, prev, jobs, vtasks, vpc, pics, extra, frames, held, got>>
  BY <1>2 DEF HalClr, parserVars, vprocVars, taskVars, userVars
<1> HIDE DEF i
<1>4. /\ \A j, k : Queues(k, j)' <=> Queues(k, j)
      /\ \A j, k : WaitsAt(k, j)' <=> WaitsAt(k, j)
      /\ Pushes(s) /\ \A j : ~Pushes(j)' /\ (Pushes(j) => j = s)
  BY <1>1, <1>2, <1>3, JobsStay, WaitsStay DEF Pushes, Windowed
<1>5. OthersRest({s})
  <2>1. \A j \in (1..Slots) \ {s} : slot'[j] = slot[j]
    BY <1>1, <1>2, <1>3, ClrUseTypes
  <2> QED BY <1>3, <1>4, <2>1, OthersIf
<1>6. ApartAll
  BY ApartIs
<1>7. ~Unsent(s) /\ Sent(s) /\ cur.slot # s
  BY <1>3, <1>4, <1>6, PlacesAre DEF ApartAll
<1>8. ~Unsent(s)' /\ ~Sent(s)' /\ (Waiting(s)' <=> Waiting(s)) /\ prev' = prev
  <2>1. Waiting(s)' <=> Waiting(s)
    BY <1>3, <1>4, PlacesAre, PlacesWillBe
  <2>2. ~Unsent(s)' /\ ~Sent(s)'
    BY <1>3, <1>4, <1>6, <1>7, PlacesWillBe DEF ApartAll
  <2> QED BY <1>3, <2>1, <2>2
<1>9. (Held(s)' <=> Held(s)) /\ (Mine(s)' => Mine(s)) /\ Owners(s) = Owners(s)' + 1
  BY <1>3, <1>7, <1>8 DEF Held, Mine, Owners
<1>10. Counted' /\ Buffered' /\ Numbered' /\ Owned' /\ Kept' /\ UnusedBuffers' >= 0
  <2>1. cur' # NoTask => cur'.slot \in 1..Slots
    BY <1>1 DEF SlotTypes, Pictures
  <2> QED BY <1>1, <1>2, <1>3, <1>5, <1>7, <1>9, <2>1, UseGiven
<1>11. ApartAll'
  <2>1. \A j \in 1..Slots : /\ Unsent(j)' => ~Waiting(j)' /\ prev' # j
                            /\ Waiting(j)' => prev' # j
    BY <1>3, <1>5, <1>6, <1>8 DEF OthersRest, ApartAll
  <2> QED BY <1>3, <1>4, <1>6, <2>1 DEF ApartAll
<1> QED
  BY <1>1, <1>10, <1>11, ApartWillBe

LEMMA ResetDoneOwns ==
  ASSUME OwnInv, ResetDone
  PROVE  /\ SlotTypes' /\ Stations' /\ Apart' /\ Counted' /\ Buffered' /\ Numbered' /\ Owned' /\ Kept'
         /\ UnusedBuffers' >= 0
<1> USE DEF OwnInv
<1>1. SlotTypes' /\ Stations'
  BY ResetDoneTypes
<1>2. /\ UNCHANGED <<prev, hpc, job, jobs, vtasks, vpc, pics, extra, frames, held, got>>
      /\ cur' = NoTask
  BY DEF ResetDone, halVars, vprocVars, taskVars
<1>3. /\ \A j, k : Queues(k, j)' <=> Queues(k, j)
      /\ \A j, k : WaitsAt(k, j)' <=> WaitsAt(k, j)
      /\ \A j : Pushes(j)' <=> Pushes(j)
  BY <1>2, JobsStay, WaitsStay, PushStays DEF Windowed
<1>4. CASE cur = NoTask
  <2>1. slot' = slot /\ cur' = cur
    BY <1>4 DEF ResetDone
  <2>2. Resting
    BY <1>2, <1>3, <2>1, RestingIf
  <2> QED BY <1>1, <1>2, <2>1, <2>2, RestingKeeps
<1>5. CASE cur # NoTask
  <2>1. PICK s \in 1..Slots : s = cur.slot
    BY <1>5 DEF SlotTypes, Pictures
  <2>2. slot' = ClrUse(slot, s) /\ cur'.slot = 0
    BY <1>2, <1>5, <2>1 DEF ResetDone, NoTask
  <2>3. ApartAll
    BY ApartIs
  <2>4. /\ Unsent(s) /\ ~Waiting(s) /\ prev # s /\ ~Pushes(s) /\ ~Sent(s)
        /\ \A k : ~Queues(k, s)
    BY <2>1, <2>3, PlacesAre DEF ApartAll
  <2>5. slot[s].use > 0
    BY <2>4, OwnerHasUse
  <2>6. OthersRest({s})
    <3>1. \A j \in (1..Slots) \ {s} : slot'[j] = slot[j] /\ cur.slot # j /\ cur'.slot # j
      BY <2>1, <2>2, <2>5, ClrUseTypes
    <3> QED BY <1>2, <1>3, <3>1, OthersIf
  <2>7. ~Unsent(s)' /\ ~Sent(s)' /\ ~Waiting(s)' /\ prev' # s
    <3>1. ~Unsent(s)' /\ ~Sent(s)'
      BY <1>3, <2>2, <2>4, PlacesWillBe
    <3>2. ~Waiting(s)'
      BY <1>2, <1>3, <2>4, PlacesAre, PlacesWillBe
    <3> QED BY <1>2, <2>4, <3>1, <3>2
  <2>8. ~Held(s)' /\ ~Held(s) /\ ~Mine(s)' /\ Owners(s) = Owners(s)' + 1
    BY <2>1, <2>4, <2>7 DEF Held, Mine, Owners
  <2>9. Counted' /\ Buffered' /\ Numbered' /\ Owned' /\ Kept' /\ UnusedBuffers' >= 0
    BY <1>1, <1>2, <2>2, <2>5, <2>6, <2>8, UseGiven
  <2>10. ApartAll'
    <3>1. \A j \in 1..Slots : /\ Unsent(j)' => ~Waiting(j)' /\ prev' # j
                              /\ Waiting(j)' => prev' # j
      BY <2>3, <2>6, <2>7 DEF OthersRest, ApartAll
    <3> QED BY <1>3, <2>2, <2>3, <3>1 DEF ApartAll
  <2> QED BY <1>1, <2>9, <2>10, ApartWillBe
<1> QED
  BY <1>4, <1>5

\* A step that changes no place, and may put a frame into the display queue that
\* has no picture's buffer.
LEMMA SteadyKeeps ==
  ASSUME OwnInv, SlotTypes', OthersRest({}), UNCHANGED <<slot, cur, pics>>
  PROVE  Counted' /\ Buffered' /\ Numbered' /\ (\A b : Alone(b) => Alone(b)')
<1> USE DEF OwnInv
<1>1. Counted' /\ Numbered'
  BY OthersCounted, NumberedStays
<1>2. Buffered'
  BY DEF Buffered, OthersRest
<1>3. \A b : Alone(b) => Alone(b)'
  BY DEF Alone, Mine, OthersRest
<1> QED
  BY <1>1, <1>2, <1>3

LEMMA SteadyOwns ==
  ASSUME OwnInv, SlotTypes', OthersRest({}),
         UNCHANGED <<slot, cur, pics, extra, frames, held, got>>
  PROVE  Counted' /\ Buffered' /\ Numbered' /\ Owned' /\ Kept' /\ UnusedBuffers' >= 0
<1> USE DEF OwnInv
<1>1. Owned'
  BY SteadyKeeps DEF Owned, Bufs
<1>2. Kept'
  BY DEF Kept, OthersRest, BuffersOf
<1>3. UnusedBuffers' >= 0
  BY TakenStays, UnusedSame
<1> QED
  BY <1>1, <1>2, <1>3, SteadyKeeps

LEMMA FrameOwns ==
  ASSUME OwnInv, SlotTypes', OthersRest({}), UNCHANGED <<slot, cur, pics, extra, held>>,
         NEW f \in Frames, f.buf \in {NoBuf, NewBuf}, frames' = Append(frames, f),
         got' = got - (IF f.buf = NewBuf THEN 1 ELSE 0)
  PROVE  Counted' /\ Buffered' /\ Numbered' /\ Owned' /\ Kept' /\ UnusedBuffers' >= 0
<1> USE DEF OwnInv
<1>1. /\ \A k : k \in DOMAIN frames' <=> k \in DOMAIN frames \/ k = Len(frames) + 1
      /\ Len(frames) + 1 \notin DOMAIN frames /\ frames'[Len(frames) + 1] = f
      /\ \A k \in DOMAIN frames : frames'[k] = frames[k]
  BY Appended DEF SlotTypes
<1>2. Alone(f.buf)'
  <2>1. \A i \in 1..Slots : Mine(i) => slot[i].pic \in 1..pics
    BY OwnerHasUse DEF Mine, Numbered
  <2>2. \A i \in 1..Slots : Mine(i)' <=> Mine(i)
    BY DEF Mine, OthersRest
  <2> QED BY <2>1, <2>2 DEF Alone, NoBuf, NewBuf
<1>3. Owned'
  <2> DEFINE n == Len(frames) + 1
  <2> HIDE DEF n
  <2>1. /\ \A k : k \in DOMAIN frames' <=> k \in DOMAIN frames \/ k = n
        /\ n \notin DOMAIN frames /\ frames'[n] = f
        /\ \A k \in DOMAIN frames : frames'[k] = frames[k]
    BY <1>1 DEF n
  <2>2. Bufs(held)' /\ Bufs(frames)'
    BY <2>1 DEF Owned, Bufs
  <2>3. f.buf <= 0
    BY DEF NoBuf, NewBuf
  <2>4. \A k, l \in DOMAIN frames' : frames'[k].buf = frames'[l].buf /\ frames'[k].buf > 0 => k = l
    <3>1. \A k, l \in DOMAIN frames : frames[k].buf = frames[l].buf /\ frames[k].buf > 0 => k = l
      BY DEF Owned
    <3> SUFFICES ASSUME NEW k \in DOMAIN frames', NEW l \in DOMAIN frames',
                        frames'[k].buf = frames'[l].buf, frames'[k].buf > 0
                 PROVE  k = l
      OBVIOUS
    <3>2. k # n /\ l # n
      <4>1. ~(f.buf > 0)
        BY DEF NoBuf, NewBuf
      <4> QED BY <2>1, <4>1
    <3> QED BY <2>1, <3>1, <3>2
  <2>5. \A k \in DOMAIN frames', l \in DOMAIN held' :
          frames'[k].buf = held'[l].buf => frames'[k].buf <= 0
    BY <2>1, <2>3 DEF Owned
  <2>6. \A k \in DOMAIN frames' : Alone(frames[k].buf)'
    <3> TAKE k \in DOMAIN frames'
    <3>1. PICK b : b = frames'[k].buf
      OBVIOUS
    <3>2. Alone(b)'
      <4>1. CASE k = n
        <5>1. b = f.buf
          BY <2>1, <3>1, <4>1
        <5> QED BY <1>2, <5>1 DEF Alone
      <4>2. CASE k # n
        <5>1. Alone(b)
          BY <2>1, <3>1, <4>2 DEF Owned
        <5> QED BY <5>1, SteadyKeeps
      <4> QED BY <4>1, <4>2
    <3> QED BY <3>1, <3>2 DEF Alone
  <2>7. \A k \in DOMAIN held' : Alone(held[k].buf)'
    <3> TAKE k \in DOMAIN held'
    <3>1. PICK b : b = held[k].buf
      OBVIOUS
    <3>2. Alone(b)'
      BY <3>1, SteadyKeeps DEF Owned
    <3> QED BY <3>1, <3>2 DEF Alone
  <2>8. Len(held') <= 1
    BY DEF Owned
  <2> QED BY <2>2, <2>4, <2>5, <2>6, <2>7, <2>8 DEF Owned
<1>4. Kept'
  <2>1. \A b \in 1..pics : b \in BuffersOf(frames') <=> b \in BuffersOf(frames)
    BY <1>1 DEF BuffersOf, NoBuf, NewBuf
  <2>2. BuffersOf(held') = BuffersOf(held)
    OBVIOUS
  <2> QED BY <2>1, <2>2 DEF Kept, OthersRest, BuffersOf
<1>5. UnusedBuffers' >= 0
  <2>1. NewOf(frames') = NewOf(frames) + (IF f.buf = NewBuf THEN 1 ELSE 0)
    BY NewAppended DEF SlotTypes
  <2>2. got \in Nat /\ NewOf(frames) \in Nat /\ NewOf(held) \in Nat
    BY NewNat DEF SlotTypes
  <2>3. got' + NewOf(frames') + NewOf(held') <= got + NewOf(frames) + NewOf(held)
    BY <2>1, <2>2
  <2> QED BY <2>3, TakenStays, UnusedKept
<1> QED
  BY <1>3, <1>4, <1>5, SteadyKeeps

\* The hal thread takes a task.
LEMMA HalTakeOwns ==
  ASSUME OwnInv, HalTake
  PROVE  /\ SlotTypes' /\ Stations' /\ Apart' /\ Counted' /\ Buffered' /\ Numbered' /\ Owned' /\ Kept'
         /\ UnusedBuffers' >= 0
<1> USE DEF OwnInv
<1>1. SlotTypes' /\ Stations'
  BY HalTakeTypes
<1>2. /\ hpc = "rest" /\ hpc' = "put" /\ jobs # << >> /\ job' = Head(jobs) /\ jobs' = Tail(jobs)
      /\ UNCHANGED <<slot, cur, pics, extra, frames, held, got, prev, vpc, vtasks>>
  BY DEF HalTake, parserVars, slotVars, vprocVars, taskVars, userVars
<1>3. \A i, k : WaitsAt(k, i)' <=> WaitsAt(k, i)
  BY <1>2, WaitsStay DEF Windowed
<1>4. /\ \A i, k : Queues(k, i) => k \in Nat \ {0}
      /\ \A i, k : Queues(k, i)' <=> k \in Nat \ {0} /\ Queues(k + 1, i)
      /\ \A i : Pushes(i)' <=> Queues(1, i)
      /\ \A i : ~Pushes(i)
      /\ \A i, k : Queues(k, i) => k = 1 \/ Queues(k - 1, i)'
  <2>1. /\ Head(jobs) = jobs[1] /\ 1 \in DOMAIN jobs /\ DOMAIN jobs \subseteq Nat \ {0}
        /\ \A k \in Nat \ {0} : k \in DOMAIN Tail(jobs) <=> k + 1 \in DOMAIN jobs
        /\ \A k \in DOMAIN Tail(jobs) : Tail(jobs)[k] = jobs[k + 1] /\ k \in Nat \ {0}
        /\ \A k \in DOMAIN jobs : k = 1 \/ (k - 1 \in DOMAIN Tail(jobs) /\ Tail(jobs)[k - 1] = jobs[k])
    BY <1>2, Advanced DEF SlotTypes
  <2> QED BY <1>2, <2>1 DEF Queues, Pushes
<1>5. OthersRest({})
  <2>1. ASSUME NEW i \in 1..Slots
        PROVE  /\ Unsent(i)' <=> Unsent(i)
               /\ Sent(i)' <=> Sent(i)
               /\ Waiting(i)' <=> Waiting(i)
    <3>1. Sent(i)' <=> Sent(i)
      BY <1>2, PlacesAre, PlacesWillBe
    <3>2. Waiting(i)' <=> Waiting(i)
      BY <1>2, <1>3, PlacesAre, PlacesWillBe
    <3>3. Unsent(i) => Unsent(i)'
      <4>1. \A k : Queues(k, i)' => k \in DOMAIN jobs'
        BY DEF Queues
      <4>2. CASE cur.slot = i
        BY <1>2, <4>2, PlacesWillBe
      <4>3. CASE \E k \in DOMAIN jobs : Queues(k, i)
        <5>1. PICK k \in DOMAIN jobs : Queues(k, i)
          BY <4>3
        <5>2. PICK l : l = k - 1
          OBVIOUS
        <5>3. Pushes(i)' \/ Queues(l, i)'
          BY <1>4, <5>1, <5>2
        <5> QED BY <1>2, <4>1, <5>3, PlacesWillBe
      <4> QED BY <1>2, <4>2, <4>3, PlacesAre
    <3>4. Unsent(i)' => Unsent(i)
      <4>1. \A k : Queues(k, i) => k \in DOMAIN jobs
        BY DEF Queues
      <4> QED BY <1>2, <1>4, <4>1, PlacesAre, PlacesWillBe
    <3> QED BY <3>1, <3>2, <3>3, <3>4
  <2> QED BY <1>2, <2>1 DEF OthersRest, Held, Mine
<1>6. ApartAll'
  <2>1. ApartAll
    BY ApartIs
  <2>2. \A j \in 1..Slots : /\ Unsent(j)' => ~Waiting(j)' /\ prev' # j
                            /\ Waiting(j)' => prev' # j
    BY <1>5, <2>1 DEF OthersRest, ApartAll
  <2>3. \A j \in 1..Slots : \A k, l : Queues(k, j)' /\ Queues(l, j)' => k = l
    <3>1. ASSUME NEW j \in 1..Slots, NEW k, NEW l, Queues(k, j)', Queues(l, j)' PROVE k = l
      <4>1. k \in Nat /\ l \in Nat /\ Queues(k + 1, j) /\ Queues(l + 1, j)
        BY <1>4, <3>1
      <4>2. k + 1 = l + 1
        BY <2>1, <4>1 DEF ApartAll
      <4> QED BY <4>1, <4>2
    <3> QED BY <3>1
  <2>4. \A j \in 1..Slots : \A k : Queues(k, j)' => cur'.slot # j /\ ~Pushes(j)'
    <3>1. ASSUME NEW j \in 1..Slots, NEW k, Queues(k, j)' PROVE cur'.slot # j /\ ~Pushes(j)'
      <4>1. k \in Nat \ {0} /\ Queues(k + 1, j)
        BY <1>4, <3>1
      <4>2. ~Queues(1, j)
        <5>1. k + 1 # 1
          BY <4>1
        <5> QED BY <2>1, <4>1, <5>1 DEF ApartAll
      <4> QED BY <1>2, <1>4, <2>1, <4>1, <4>2 DEF ApartAll
    <3> QED BY <3>1
  <2>5. \A j \in 1..Slots : Pushes(j)' => cur'.slot # j
    BY <1>2, <1>4, <2>1 DEF ApartAll
  <2> QED BY <1>3, <2>1, <2>2, <2>3, <2>4, <2>5 DEF ApartAll
<1> QED
  BY <1>1, <1>2, <1>5, <1>6, ApartWillBe, SteadyOwns

\* A slot whose task the hal thread works on, before it is sent.
LEMMA PutSlot ==
  ASSUME OwnInv, hpc = "put", IsPicture(job)
  PROVE  /\ job.slot \in 1..Slots /\ job \in Tasks
         /\ LET s == job.slot
            IN  /\ Pushes(s) /\ Unsent(s) /\ ~Sent(s) /\ ~Waiting(s) /\ prev # s /\ cur.slot # s
                /\ (\A k : ~Queues(k, s)) /\ Held(s) /\ Mine(s)
                /\ slot[s].use > 0 /\ slot[s].buf /\ slot[s].pic \in 1..pics
<1> USE DEF OwnInv
<1>1. job.slot \in 1..Slots /\ job \in Tasks
  BY PictureSlot DEF SlotTypes, Stations
<1>2. PICK s \in 1..Slots : s = job.slot
  BY <1>1
<1>3. ApartAll
  BY ApartIs
<1>4. Pushes(s)
  BY <1>2 DEF Pushes
<1>5. Unsent(s) /\ ~Sent(s) /\ cur.slot # s /\ \A k : ~Queues(k, s)
  BY <1>3, <1>4, PlacesAre DEF ApartAll
<1>6. ~Waiting(s) /\ prev # s
  BY <1>3, <1>5 DEF ApartAll
<1>7. Held(s) /\ Mine(s)
  BY <1>5 DEF Held, Mine
<1>8. slot[s].use > 0 /\ slot[s].buf /\ slot[s].pic \in 1..pics
  BY <1>5, <1>7, OwnerHasUse DEF Buffered, Numbered
<1> QED
  BY <1>1, <1>2, <1>4, <1>5, <1>6, <1>7, <1>8

LEMMA HalDirectOwns ==
  ASSUME OwnInv, HalDirect
  PROVE  /\ SlotTypes' /\ Stations' /\ Apart' /\ Counted' /\ Buffered' /\ Numbered' /\ Owned' /\ Kept'
         /\ UnusedBuffers' >= 0
<1> USE DEF OwnInv
<1>1. SlotTypes' /\ Stations'
  BY HalDirectTypes
<1>2. PICK f \in Frames : /\ frames' = Append(frames, f)
                          /\ f.buf = IF IsPicture(job) THEN slot[job.slot].pic ELSE NoBuf
  BY HalDirectTypes
<1>3. /\ hpc = "put" /\ hpc' = IF IsPicture(job) THEN "clr" ELSE "rest"
      /\ UNCHANGED <<slot, cur, pics, extra, held, got, prev, vpc, vtasks, jobs, job>>
  BY DEF HalDirect, parserVars, slotVars, vprocVars, taskVars, userVars
<1>4. vtasks = << >> /\ prev = 0 /\ got = 0
  BY DEF RestInv, ThreadRests, Quiet, HalDirect, On
<1>5. /\ \A i, k : WaitsAt(k, i)' <=> WaitsAt(k, i)
      /\ \A i, k : Queues(k, i)' <=> Queues(k, i)
  BY <1>3, WaitsStay, JobsStay DEF Windowed
<1>6. ApartAll
  BY ApartIs
<1>7. CASE ~IsPicture(job)
  <2>1. (\A i : ~Pushes(i)) /\ (\A i : ~Pushes(i)')
    BY <1>3, <1>7 DEF Pushes
  <2>2. OthersRest({})
    BY <1>3, <1>5, <2>1, OthersIf
  <2>3. Counted' /\ Buffered' /\ Numbered' /\ Owned' /\ Kept' /\ UnusedBuffers' >= 0
    BY <1>1, <1>2, <1>3, <1>7, <2>2, FrameOwns DEF NoBuf, NewBuf, SlotTypes
  <2>4. ApartAll'
    <3>1. \A j \in 1..Slots : /\ Unsent(j)' => ~Waiting(j)' /\ prev' # j
                              /\ Waiting(j)' => prev' # j
      BY <1>6, <2>2 DEF OthersRest, ApartAll
    <3> QED BY <1>3, <1>5, <1>6, <2>1, <3>1 DEF ApartAll
  <2> QED BY <1>1, <2>3, <2>4, ApartWillBe
<1>8. CASE IsPicture(job)
  <2>1. PICK s \in 1..Slots : s = job.slot
    BY <1>3, <1>8, PutSlot
  <2>2. /\ Pushes(s) /\ Unsent(s) /\ ~Sent(s) /\ ~Waiting(s) /\ prev # s /\ cur.slot # s
        /\ (\A k : ~Queues(k, s)) /\ Held(s) /\ Mine(s)
        /\ slot[s].use > 0 /\ slot[s].buf /\ slot[s].pic \in 1..pics
    BY <1>3, <1>8, <2>1, PutSlot
  <2>3. \A i : /\ Pushes(i)' <=> Pushes(i)
               /\ Pushes(i) => i = s
    BY <1>3, <1>8, <2>1, PushStays DEF Pushes
  <2>4. OthersRest({s})
    BY <1>3, <1>5, <2>3, OthersIf
  <2>5. ~Unsent(s)' /\ Sent(s)' /\ ~Waiting(s)' /\ prev' # s
    <3>1. ~Unsent(s)' /\ Sent(s)'
      BY <1>3, <1>5, <1>8, <2>2, <2>3, PlacesWillBe
    <3>2. ~Waiting(s)'
      BY <1>3, <1>5, <2>2, PlacesAre, PlacesWillBe
    <3> QED BY <1>3, <2>2, <3>1, <3>2
  <2>6. ~Mine(s)' /\ ~Held(s)'
    BY <2>5 DEF Mine, Held
  <2>7. Counted'
    <3>1. Owners(s)' = Owners(s)
      BY <2>2, <2>5 DEF Owners
    <3> QED BY <1>3, <2>4, <3>1, OthersCounted DEF Counted
  <2>8. Buffered'
    BY <1>3, <2>4, <2>6 DEF Buffered, OthersRest
  <2>9. Numbered'
    BY <1>3, NumberedStays
  <2> DEFINE p == slot[s].pic
             n == Len(frames) + 1
  <2>10. p \in 1..pics /\ f.buf = p /\ frames' = Append(frames, f)
    BY <1>2, <1>8, <2>1, <2>2
  <2>11. /\ \A k : k \in DOMAIN frames' <=> k \in DOMAIN frames \/ k = n
         /\ n \notin DOMAIN frames /\ frames'[n] = f
         /\ \A k \in DOMAIN frames : frames'[k] = frames[k]
    BY <1>2, Appended DEF SlotTypes
  <2>12. \A i \in 1..Slots : Mine(i)' => Mine(i) /\ i # s /\ slot[i].pic # p
    <3>1. \A i \in 1..Slots : Mine(i)' => Mine(i) /\ i # s
      BY <2>4, <2>6 DEF OthersRest, Mine
    <3>2. \A i \in 1..Slots : Mine(i) => slot[i].use > 0
      BY OwnerHasUse DEF Mine
    <3> QED BY <2>2, <3>1, <3>2 DEF Numbered
  <2> HIDE DEF p, n
  <2>13. /\ \A k \in DOMAIN frames : frames[k].buf # p
         /\ \A k \in DOMAIN held : held[k].buf # p
    BY <2>2 DEF Owned, Alone, p
  <2>14. Owned'
    <3>1. Bufs(held)' /\ Bufs(frames)' /\ Len(held') <= 1
      BY <1>3, <2>10, <2>11 DEF Owned, Bufs
    <3>2. \A k, l \in DOMAIN frames' : frames'[k].buf = frames'[l].buf /\ frames'[k].buf > 0 => k = l
      <4>1. \A k, l \in DOMAIN frames : frames[k].buf = frames[l].buf /\ frames[k].buf > 0 => k = l
        BY DEF Owned
      <4> QED BY <2>10, <2>11, <2>13, <4>1
    <3>3. \A k \in DOMAIN frames', l \in DOMAIN held' :
            frames'[k].buf = held'[l].buf => frames'[k].buf <= 0
      BY <1>3, <2>10, <2>11, <2>13 DEF Owned
    <3>4. \A b : Alone(b) \/ b = p => Alone(b)'
      BY <1>3, <2>12 DEF Alone, p
    <3>5. \A k \in DOMAIN frames' : Alone(frames[k].buf)'
      <4> TAKE k \in DOMAIN frames'
      <4>1. PICK b : b = frames'[k].buf
        OBVIOUS
      <4>2. Alone(b)'
        <5>1. CASE k = n
          BY <2>10, <2>11, <3>4, <4>1, <5>1
        <5>2. CASE k # n
          <6>1. Alone(b)
            BY <2>11, <4>1, <5>2 DEF Owned
          <6> QED BY <3>4, <6>1
        <5> QED BY <5>1, <5>2
      <4> QED BY <4>1, <4>2 DEF Alone
    <3>6. \A k \in DOMAIN held' : Alone(held[k].buf)'
      <4> TAKE k \in DOMAIN held'
      <4>1. PICK b : b = held[k].buf
        OBVIOUS
      <4>2. Alone(b)'
        BY <1>3, <3>4, <4>1 DEF Owned
      <4> QED BY <1>3, <4>1, <4>2 DEF Alone
    <3> QED BY <3>1, <3>2, <3>3, <3>5, <3>6 DEF Owned
  <2>15. Kept'
    <3>1. \A b \in 1..pics : b \in BuffersOf(frames') <=> b \in BuffersOf(frames) \/ b = p
      BY <2>10, <2>11 DEF BuffersOf
    <3>2. \A i \in (1..Slots) \ {s} : Held(i)' <=> Held(i)
      BY <2>4 DEF OthersRest
    <3>3. \A b \in 1..pics : (b = p \/ \E i \in 1..Slots : Held(i)' /\ slot'[i].pic = b)
                              <=> \E i \in 1..Slots : Held(i) /\ slot[i].pic = b
      <4>1. \A i \in 1..Slots : Held(i)' => i # s
        BY <2>6
      <4> QED BY <1>3, <2>2, <3>2, <4>1 DEF p
    <3>4. BuffersOf(held') = BuffersOf(held)
      BY <1>3
    <3> QED BY <1>3, <3>1, <3>3, <3>4 DEF Kept, BuffersOf
  <2>16. UnusedBuffers' >= 0
    <3>1. NewOf(frames') = NewOf(frames)
      <4>1. f.buf # NewBuf
        BY <2>10 DEF NewBuf
      <4>2. NewOf(frames) \in Nat
        BY NewNat DEF SlotTypes
      <4> QED BY <1>2, <4>1, <4>2, NewAppended DEF SlotTypes
    <3>2. UnusedBuffers' = UnusedBuffers
      BY <1>3, <3>1, TakenStays, UnusedIs, UnusedWillBe
    <3> QED BY <3>2
  <2>17. ApartAll'
    <3>1. \A j \in 1..Slots : /\ Unsent(j)' => ~Waiting(j)' /\ prev' # j
                              /\ Waiting(j)' => prev' # j
      BY <1>6, <2>4, <2>5 DEF OthersRest, ApartAll
    <3> QED BY <1>3, <1>5, <1>6, <2>3, <3>1 DEF ApartAll
  <2> QED BY <1>1, <2>7, <2>8, <2>9, <2>14, <2>15, <2>16, <2>17, ApartWillBe
<1> QED
  BY <1>7, <1>8

\* The task goes to the thread, and the slot has two owners.
LEMMA HalPutOwns ==
  ASSUME OwnInv, HalPut
  PROVE  /\ SlotTypes' /\ Stations' /\ Apart' /\ Counted' /\ Buffered' /\ Numbered' /\ Owned' /\ Kept'
         /\ UnusedBuffers' >= 0
<1> USE DEF OwnInv
<1>1. SlotTypes' /\ Stations'
  BY HalPutTypes
<1>2. /\ hpc = "put" /\ hpc' = "signal" /\ vtasks' = Append(vtasks, job)
      /\ UNCHANGED <<cur, pics, extra, frames, held, got, prev, vpc, jobs, job>>
  BY DEF HalPut, parserVars, vprocVars, userVars
<1>3. job \in Tasks
  BY <1>2 DEF SlotTypes, Stations
<1>4. ApartAll
  BY ApartIs
<1> DEFINE n == Len(vtasks) + 1
<1>5. /\ \A i : ~WaitsAt(n, i)
      /\ \A i, k : WaitsAt(k, i)' <=> WaitsAt(k, i) \/ (k = n /\ IsPicture(job) /\ job.slot = i)
  BY <1>2, <1>3, WaitAppended
<1> HIDE DEF n
<1>6. \A i, k : Queues(k, i)' <=> Queues(k, i)
  BY <1>2, JobsStay
<1>7. CASE ~IsPicture(job)
  <2>1. (\A i : ~Pushes(i)) /\ (\A i : ~Pushes(i)') /\ slot' = slot
    BY <1>2, <1>7 DEF Pushes, HalPut
  <2>2. OthersRest({})
    BY <1>2, <1>5, <1>6, <1>7, <2>1, OthersIf
  <2>3. Counted' /\ Buffered' /\ Numbered' /\ Owned' /\ Kept' /\ UnusedBuffers' >= 0
    BY <1>1, <1>2, <2>1, <2>2, SteadyOwns
  <2>4. ApartAll'
    <3>1. \A j \in 1..Slots : /\ Unsent(j)' => ~Waiting(j)' /\ prev' # j
                              /\ Waiting(j)' => prev' # j
      BY <1>4, <2>2 DEF OthersRest, ApartAll
    <3> QED BY <1>2, <1>4, <1>5, <1>6, <1>7, <2>1, <3>1 DEF ApartAll
  <2> QED BY <1>1, <2>3, <2>4, ApartWillBe
<1>8. CASE IsPicture(job)
  <2>1. PICK s \in 1..Slots : s = job.slot
    BY <1>2, <1>8, PutSlot
  <2>2. /\ Pushes(s) /\ Unsent(s) /\ ~Sent(s) /\ ~Waiting(s) /\ prev # s /\ cur.slot # s
        /\ (\A k : ~Queues(k, s)) /\ Held(s) /\ Mine(s)
        /\ slot[s].use > 0 /\ slot[s].buf /\ slot[s].pic \in 1..pics
    BY <1>2, <1>8, <2>1, PutSlot
  <2>3. \A i : /\ Pushes(i)' <=> Pushes(i)
               /\ Pushes(i) => i = s
    BY <1>2, <1>8, <2>1, PushStays DEF Pushes
  <2>4. /\ \A j \in (1..Slots) \ {s} : slot'[j] = slot[j]
        /\ slot'[s].use = slot[s].use + 1 /\ slot'[s].pic = slot[s].pic
        /\ slot'[s].buf = slot[s].buf /\ slot[s].use \in Nat
    <3>1. slot' = [slot EXCEPT ![s] = [slot[s] EXCEPT !.use = @ + 1]]
      BY <1>8, <2>1 DEF HalPut, Queued
    <3>2. slot[s] \in [pic : Nat, buf : BOOLEAN, use : Nat]
      BY DEF SlotTypes
    <3> QED BY <3>1, <3>2 DEF SlotTypes
  <2>5. OthersRest({s})
    BY <1>2, <1>5, <1>6, <2>1, <2>3, <2>4, OthersIf
  <2>6. ~Unsent(s)' /\ Sent(s)' /\ Waiting(s)' /\ prev' # s
    <3>1. ~Unsent(s)' /\ Sent(s)'
      BY <1>2, <1>6, <2>2, <2>3, PlacesWillBe
    <3>0. PICK k : k = n
      OBVIOUS
    <3>2. WaitsAt(k, s)'
      BY <1>5, <1>8, <2>1, <3>0
    <3>3. Waiting(s)'
      BY <3>2, PlacesWillBe DEF WaitsAt
    <3> QED BY <1>2, <2>2, <3>1, <3>3
  <2>7. Mine(s)' /\ Held(s)'
    BY <1>2, <2>2, <2>6 DEF Mine, Held
  <2>8. Counted'
    <3>1. Owners(s)' = 2 /\ Owners(s) = 1
      BY <2>2, <2>6 DEF Owners
    <3>2. slot'[s].use = Owners(s)'
      BY <2>4, <3>1 DEF Counted
    <3> QED BY <2>4, <2>5, <3>1, <3>2, OthersCounted
  <2>9. Buffered'
    <3>1. cur' # NoTask => cur'.slot \in 1..Slots
      BY <1>1 DEF SlotTypes, Pictures
    <3> QED BY <1>2, <2>2, <2>4, <2>5, <3>1, OthersBuffered
  <2>10. Numbered'
    BY <1>2, <2>2, <2>4, <2>5, OthersNumbered
  <2>11. \A i \in 1..Slots : /\ Mine(i)' <=> Mine(i)
                             /\ Held(i)' <=> Held(i)
                             /\ slot'[i].pic = slot[i].pic
                             /\ slot'[i].buf = slot[i].buf
    BY <2>2, <2>4, <2>5, <2>7 DEF OthersRest, Mine
  <2>12. Owned'
    <3>1. \A b : Alone(b) => Alone(b)'
      BY <2>11 DEF Alone
    <3>2. Bufs(held)' /\ Bufs(frames)'
      BY <1>2 DEF Owned, Bufs
    <3> QED BY <1>2, <3>1, <3>2 DEF Owned
  <2>13. Kept'
    BY <1>2, <2>11 DEF Kept, BuffersOf
  <2>14. UnusedBuffers' >= 0
    <3>1. Taken' \subseteq Taken
      BY <1>2, <2>11, ZenonT(40) DEF Taken
    <3> QED BY <1>1, <1>2, <3>1, UnusedSame
  <2>15. ApartAll'
    <3>1. \A j \in 1..Slots : /\ Unsent(j)' => ~Waiting(j)' /\ prev' # j
                              /\ Waiting(j)' => prev' # j
      BY <1>4, <2>5, <2>6 DEF OthersRest, ApartAll
    <3>2. \A j \in 1..Slots : \A k, l : WaitsAt(k, j)' /\ WaitsAt(l, j)' => k = l
      <4>1. \A k : ~WaitsAt(k, s)
        BY <2>2, PlacesAre DEF WaitsAt
      <4> QED BY <1>4, <1>5, <2>1, <4>1 DEF ApartAll
    <3> QED BY <1>2, <1>4, <1>6, <2>3, <3>1, <3>2 DEF ApartAll
  <2> QED BY <1>1, <2>8, <2>9, <2>10, <2>12, <2>13, <2>14, <2>15, ApartWillBe
<1> QED
  BY <1>7, <1>8

\* A slot goes from a task of the thread into its window.
Enters(M) == \A i \in (1..Slots) \cap M :
    /\ slot'[i] = slot[i] /\ Owners(i)' = Owners(i) /\ Mine(i)' /\ Mine(i)
    /\ Held(i)' <=> Held(i)

LEMMA EntersOwns ==
  ASSUME OwnInv, SlotTypes', NEW M, OthersRest(M), Enters(M),
         UNCHANGED <<slot, extra, cur, pics, frames, held, got>>
  PROVE  Counted' /\ Buffered' /\ Numbered' /\ Owned' /\ Kept' /\ UnusedBuffers' >= 0
<1> USE DEF OwnInv
<1>1. \A i \in 1..Slots : /\ Owners(i)' = Owners(i)
                          /\ Mine(i)' <=> Mine(i)
                          /\ Held(i)' <=> Held(i)
  BY DEF OthersRest, Enters, Owners, Mine
<1>2. Counted' /\ Numbered'
  BY <1>1, NumberedStays DEF Counted
<1>3. Buffered'
  BY <1>1 DEF Buffered
<1>4. Owned'
  <2>1. \A b : Alone(b) => Alone(b)'
    BY <1>1 DEF Alone
  <2> QED BY <2>1 DEF Owned, Bufs
<1>5. Kept'
  BY <1>1 DEF Kept, BuffersOf
<1>6. UnusedBuffers' >= 0
  BY TakenStays, UnusedSame
<1> QED
  BY <1>2, <1>3, <1>4, <1>5, <1>6

\* The picture that was in the window leaves it, with its buffer.
LEMMA LeavesOwns ==
  ASSUME OwnInv, SlotTypes', NEW p \in 1..Slots, p = prev, ClrPrev,
         ~Unsent(p)', Sent(p)' <=> Sent(p), ~Waiting(p)', prev' # p,
         NEW M, p \notin M, OthersRest(M \cup {p}), Enters(M),
         UNCHANGED <<cur, pics, frames, held, got>>
  PROVE  Counted' /\ Buffered' /\ Numbered' /\ Owned' /\ Kept' /\ UnusedBuffers' >= 0
<1> USE DEF OwnInv
<1> DEFINE q == slot[p].pic
<1>1. ApartAll
  BY ApartIs
<1>2. ~Unsent(p) /\ ~Waiting(p) /\ cur.slot # p
  BY <1>1, PlacesAre DEF ApartAll
<1>3. Mine(p) /\ Held(p) /\ ~Mine(p)' /\ ~Held(p)'
  BY <1>2 DEF Mine, Held
<1>4. slot[p].use > 0 /\ q \in 1..pics
  BY OwnerHasUse DEF Numbered
<1>5. slot' = ClrUse(slot, p) /\ extra' = extra \ {q}
  <2>1. prev # 0
    BY DEF SlotTypes
  <2> QED BY <2>1 DEF ClrPrev
<1>6. /\ \A j \in 1..Slots : j # p => slot'[j] = slot[j]
      /\ slot[p].use = 1 => slot'[p] = Free
      /\ slot[p].use > 1 => /\ slot'[p].use = slot[p].use - 1
                            /\ slot'[p].pic = slot[p].pic
                            /\ slot'[p].buf = slot[p].buf
      /\ slot[p].use \in Nat
  BY <1>4, <1>5, ClrUseTypes DEF SlotTypes
<1>7. \A i \in (1..Slots) \ {p} : /\ Owners(i)' = Owners(i)
                                  /\ Mine(i)' <=> Mine(i)
                                  /\ Held(i)' <=> Held(i)
  BY DEF OthersRest, Enters, Owners, Mine
<1>8. Owners(p) = Owners(p)' + 1 /\ Owners(p)' \in Nat
  BY <1>2 DEF Owners
<1>9. slot'[p].use = Owners(p)' /\ (slot'[p].use = 0 => slot'[p] = Free)
      /\ (slot'[p].use > 0 => slot[p].use > 1)
  <2>1. slot[p].use = Owners(p)
    BY DEF Counted
  <2> QED BY <1>4, <1>6, <1>8, <2>1 DEF Free
<1> HIDE DEF q
<1>10. Counted'
  BY <1>6, <1>7, <1>9 DEF Counted
<1>11. Buffered'
  BY <1>2, <1>3, <1>6, <1>7 DEF Buffered, SlotTypes, Pictures
<1>12. Numbered'
  <2>1. \A i \in 1..Slots : slot'[i].use > 0 => slot[i].use > 0 /\ slot'[i].pic = slot[i].pic
    BY <1>4, <1>6, <1>9
  <2> QED BY <2>1 DEF Numbered
<1>13. Owned'
  <2>1. \A b : Alone(b) => Alone(b)'
    BY <1>3, <1>6, <1>7 DEF Alone
  <2> QED BY <2>1 DEF Owned, Bufs
<1>14. \A i \in 1..Slots : i # p /\ Held(i) => slot[i].pic # q
  <2>1. \A i \in 1..Slots : Held(i) => slot[i].use > 0
    BY OwnerHasUse DEF Held, Mine
  <2> QED BY <1>4, <2>1 DEF Numbered, q
<1>15. q \notin BuffersOf(frames) \cup BuffersOf(held)
  BY <1>3 DEF Owned, Alone, BuffersOf, q
<1>16. Kept'
  <2>1. BuffersOf(frames)' = BuffersOf(frames) /\ BuffersOf(held)' = BuffersOf(held)
    BY DEF BuffersOf
  <2>2. \A b \in 1..pics :
          (\E i \in 1..Slots : Held(i)' /\ slot'[i].pic = b)
            <=> b # q /\ \E i \in 1..Slots : Held(i) /\ slot[i].pic = b
    <3> TAKE b \in 1..pics
    <3>1. ASSUME NEW i \in 1..Slots, Held(i)', slot'[i].pic = b
          PROVE  b # q /\ Held(i) /\ slot[i].pic = b
      BY <1>3, <1>6, <1>7, <1>14, <3>1
    <3>2. ASSUME b # q, NEW i \in 1..Slots, Held(i), slot[i].pic = b
          PROVE  Held(i)' /\ slot'[i].pic = b
      BY <1>6, <1>7, <3>2 DEF q
    <3> QED BY <3>1, <3>2
  <2> QED BY <1>5, <1>15, <2>1, <2>2 DEF Kept
<1>17. UnusedBuffers' >= 0
  <2>1. \A j \in 1..Slots : slot'[j].buf => slot[j].buf /\ slot'[j].pic = slot[j].pic
    BY <1>4, <1>6 DEF Free
  <2>2. Taken' \subseteq Taken
    <3>1. extra' \subseteq extra
      BY <1>5
    <3> QED BY <2>1, <3>1, Zenon DEF Taken
  <2> QED BY <2>2, UnusedSame
<1> QED
  BY <1>10, <1>11, <1>12, <1>13, <1>16, <1>17

\* The window is emptied.
LEMMA WindowOwns ==
  ASSUME OwnInv, VprocReset \/ Clear
  PROVE  /\ SlotTypes' /\ Stations' /\ Apart' /\ Counted' /\ Buffered' /\ Numbered' /\ Owned' /\ Kept'
         /\ UnusedBuffers' >= 0
<1> USE DEF OwnInv
<1>1. SlotTypes' /\ Stations' /\ ClrPrev /\ prev' = 0
  BY WindowTypes
<1>2. /\ UNCHANGED <<cur, pics, frames, held, got, hpc, job, jobs, vtasks>>
      /\ Windowed' = Windowed \/ vtasks = << >>
  BY DEF VprocReset, Clear, halVars, parserVars, taskVars, userVars, Windowed
<1>3. /\ \A i, k : WaitsAt(k, i)' <=> WaitsAt(k, i)
      /\ \A i, k : Queues(k, i)' <=> Queues(k, i)
      /\ \A i : Pushes(i)' <=> Pushes(i)
  BY <1>2, WaitsStay, JobsStay, PushStays
<1>4. ApartAll
  BY ApartIs
<1>5. CASE prev = 0
  <2>1. UNCHANGED <<slot, extra>>
    BY <1>1, <1>5 DEF ClrPrev, slotVars
  <2>2. OthersRest({})
    BY <1>1, <1>2, <1>3, <1>5, <2>1, OthersIf
  <2>3. Counted' /\ Buffered' /\ Numbered' /\ Owned' /\ Kept' /\ UnusedBuffers' >= 0
    BY <1>1, <1>2, <2>1, <2>2, SteadyOwns
  <2>4. ApartAll'
    <3>1. \A j \in 1..Slots : /\ Unsent(j)' => ~Waiting(j)' /\ prev' # j
                              /\ Waiting(j)' => prev' # j
      BY <1>4, <2>2 DEF OthersRest, ApartAll
    <3> QED BY <1>2, <1>3, <1>4, <3>1 DEF ApartAll
  <2> QED BY <1>1, <2>3, <2>4, ApartWillBe
<1>6. CASE prev # 0
  <2>1. PICK p \in 1..Slots : p = prev
    BY <1>6 DEF SlotTypes
  <2>2. slot[p].use > 0
    BY <2>1, OwnerHasUse
  <2>3. \A j \in (1..Slots) \ {p} : slot'[j] = slot[j]
    BY <1>1, <1>6, <2>1, <2>2, ClrUseTypes DEF ClrPrev
  <2>4. OthersRest({p})
    BY <1>1, <1>2, <1>3, <2>1, <2>3, OthersIf
  <2>5. ~Unsent(p) /\ ~Waiting(p)
    BY <1>4, <2>1 DEF ApartAll
  <2>6. ~Unsent(p)' /\ (Sent(p)' <=> Sent(p)) /\ ~Waiting(p)' /\ prev' # p
    <3>1. ~Unsent(p)' /\ (Sent(p)' <=> Sent(p))
      BY <1>2, <1>3, <2>5, PlacesAre, PlacesWillBe
    <3>2. ~Waiting(p)'
      BY <1>2, <1>3, <2>5, PlacesAre, PlacesWillBe DEF WaitsAt
    <3> QED BY <1>1, <3>1, <3>2
  <2>7. Counted' /\ Buffered' /\ Numbered' /\ Owned' /\ Kept' /\ UnusedBuffers' >= 0
    <3>1. OthersRest({} \cup {p}) /\ Enters({}) /\ p \notin {}
      BY <2>4 DEF OthersRest, Enters
    <3> QED BY <1>1, <1>2, <2>1, <2>6, <3>1, LeavesOwns
  <2>8. ApartAll'
    <3>1. \A j \in 1..Slots : /\ Unsent(j)' => ~Waiting(j)' /\ prev' # j
                              /\ Waiting(j)' => prev' # j
      BY <1>4, <2>4, <2>6 DEF OthersRest, ApartAll
    <3> QED BY <1>2, <1>3, <1>4, <3>1 DEF ApartAll
  <2> QED BY <1>1, <2>7, <2>8, ApartWillBe
<1> QED
  BY <1>5, <1>6

\* The picture of the first task takes the window's place.
LEMMA ShiftOwns ==
  ASSUME OwnInv, Shift
  PROVE  /\ SlotTypes' /\ Stations' /\ Apart' /\ Counted' /\ Buffered' /\ Numbered' /\ Owned' /\ Kept'
         /\ UnusedBuffers' >= 0
<1> USE DEF OwnInv
<1>1. /\ SlotTypes' /\ Stations' /\ ClrPrev /\ prev' = vtasks[1].slot
      /\ 1 \in DOMAIN vtasks /\ IsPicture(vtasks[1]) /\ vtasks[1].slot \in 1..Slots
  BY ShiftTypes
<1>2. PICK s \in 1..Slots : s = vtasks[1].slot
  BY <1>1
<1>3. /\ UNCHANGED <<cur, pics, frames, held, got, hpc, job, jobs, vtasks>>
      /\ vpc = "shift" /\ vpc' \in {"clear", "idle"}
  BY DEF Shift, halVars, parserVars, taskVars, userVars
<1>4. /\ \A i, k : WaitsAt(k, i)' <=> WaitsAt(k, i) /\ k # 1
      /\ \A i, k : Queues(k, i)' <=> Queues(k, i)
      /\ \A i : Pushes(i)' <=> Pushes(i)
      /\ WaitsAt(1, s) /\ \A i : WaitsAt(1, i) => i = s
  <2>1. \A i, k : WaitsAt(k, i)' <=> WaitsAt(k, i) /\ k # 1
    BY <1>3 DEF WaitsAt
  <2>2. WaitsAt(1, s) /\ \A i : WaitsAt(1, i) => i = s
    BY <1>1, <1>2, <1>3 DEF WaitsAt
  <2> QED BY <1>3, <2>1, <2>2, JobsStay, PushStays
<1>5. ApartAll
  BY ApartIs
<1>6. Waiting(s) /\ prev # s /\ ~Unsent(s) /\ cur.slot # s
  BY <1>1, <1>4, <1>5, PlacesAre DEF ApartAll
<1>7. ~Waiting(s)' /\ prev' = s
  <2>1. \A k : WaitsAt(k, s) => k = 1
    BY <1>4, <1>5 DEF ApartAll
  <2>2. \A k : ~WaitsAt(k, s)'
    BY <1>4, <2>1
  <2> QED BY <1>1, <1>2, <2>2, PlacesWillBe
<1>8. (Unsent(s)' <=> Unsent(s)) /\ (Sent(s)' <=> Sent(s))
  BY <1>3, <1>4, PlacesAre, PlacesWillBe
<1>9. Owners(s)' = Owners(s) /\ Mine(s)' /\ Mine(s) /\ Held(s)' /\ Held(s)
  BY <1>3, <1>6, <1>7, <1>8 DEF Owners, Mine, Held
<1>10. CASE prev = 0
  <2>1. UNCHANGED <<slot, extra>>
    BY <1>1, <1>10 DEF ClrPrev, slotVars
  <2>2. OthersRest({s})
    <3>1. \A j \in (1..Slots) \ {s} : prev' = j <=> prev = j
      BY <1>7, <1>10
    <3>2. \A j \in (1..Slots) \ {s} : \A k : WaitsAt(k, j)' <=> WaitsAt(k, j)
      BY <1>4
    <3> QED BY <1>3, <1>4, <2>1, <3>1, <3>2, OthersIf
  <2>3. Enters({s})
    BY <1>9, <2>1 DEF Enters
  <2>4. Counted' /\ Buffered' /\ Numbered' /\ Owned' /\ Kept' /\ UnusedBuffers' >= 0
    BY <1>1, <1>3, <2>1, <2>2, <2>3, EntersOwns
  <2>5. ApartAll'
    <3>1. \A j \in 1..Slots : /\ Unsent(j)' => ~Waiting(j)' /\ prev' # j
                              /\ Waiting(j)' => prev' # j
      BY <1>5, <1>6, <1>7, <1>8, <2>2 DEF OthersRest, ApartAll
    <3> QED BY <1>3, <1>4, <1>5, <3>1 DEF ApartAll
  <2> QED BY <1>1, <2>4, <2>5, ApartWillBe
<1>11. CASE prev # 0
  <2>1. PICK p \in 1..Slots : p = prev
    BY <1>11 DEF SlotTypes
  <2>2. slot[p].use > 0 /\ p # s
    BY <1>6, <2>1, OwnerHasUse
  <2>3. \A j \in (1..Slots) \ {p} : slot'[j] = slot[j]
    BY <1>1, <1>11, <2>1, <2>2, ClrUseTypes DEF ClrPrev
  <2>4. OthersRest({s} \cup {p})
    <3>1. \A j \in (1..Slots) \ ({s} \cup {p}) : prev' = j <=> prev = j
      BY <1>7, <2>1
    <3>2. \A j \in (1..Slots) \ ({s} \cup {p}) : \A k : WaitsAt(k, j)' <=> WaitsAt(k, j)
      BY <1>4
    <3> QED BY <1>3, <1>4, <2>3, <3>1, <3>2, OthersIf
  <2>5. ~Unsent(p) /\ ~Waiting(p)
    BY <1>5, <2>1 DEF ApartAll
  <2>6. ~Unsent(p)' /\ (Sent(p)' <=> Sent(p)) /\ ~Waiting(p)' /\ prev' # p
    <3>1. ~Unsent(p)' /\ (Sent(p)' <=> Sent(p))
      BY <1>3, <1>4, <2>5, PlacesAre, PlacesWillBe
    <3>2. ~Waiting(p)'
      BY <1>3, <1>4, <2>5, PlacesAre, PlacesWillBe DEF WaitsAt
    <3> QED BY <1>7, <2>2, <3>1, <3>2
  <2>7. Counted' /\ Buffered' /\ Numbered' /\ Owned' /\ Kept' /\ UnusedBuffers' >= 0
    <3>1. Enters({s}) /\ p \notin {s}
      BY <1>9, <2>2, <2>3 DEF Enters
    <3> QED BY <1>1, <1>3, <2>1, <2>4, <2>6, <3>1, LeavesOwns
  <2>8. ApartAll'
    <3>1. \A j \in 1..Slots : /\ Unsent(j)' => ~Waiting(j)' /\ prev' # j
                              /\ Waiting(j)' => prev' # j
      BY <1>5, <1>6, <1>7, <1>8, <2>4, <2>6 DEF OthersRest, ApartAll
    <3> QED BY <1>3, <1>4, <1>5, <3>1 DEF ApartAll
  <2> QED BY <1>1, <2>7, <2>8, ApartWillBe
<1> QED
  BY <1>10, <1>11

\* The first task is done.
LEMMA IdleOwns ==
  ASSUME OwnInv, Idle
  PROVE  /\ SlotTypes' /\ Stations' /\ Apart' /\ Counted' /\ Buffered' /\ Numbered' /\ Owned' /\ Kept'
         /\ UnusedBuffers' >= 0
<1> USE DEF OwnInv
<1>1. SlotTypes' /\ Stations' /\ vtasks # << >> /\ vtasks' = Tail(vtasks)
  BY IdleTypes
<1>2. /\ UNCHANGED <<cur, pics, slot, extra, frames, held, got, hpc, job, jobs, prev>>
      /\ vpc = "idle" /\ vpc' = "test"
  BY DEF Idle, halVars, parserVars, slotVars, userVars
<1>3. /\ \A i, k : Queues(k, i)' <=> Queues(k, i)
      /\ \A i : Pushes(i)' <=> Pushes(i)
  BY <1>2, JobsStay, PushStays
<1>4. /\ \A i, k : WaitsAt(k, i)' => k \in Nat /\ WaitsAt(k + 1, i)
      /\ \A i, k : WaitsAt(k, i) => WaitsAt(k - 1, i)'
  <2>1. /\ DOMAIN vtasks \subseteq Nat \ {0}
        /\ \A k \in Nat \ {0} : k \in DOMAIN Tail(vtasks) <=> k + 1 \in DOMAIN vtasks
        /\ \A k \in DOMAIN Tail(vtasks) : Tail(vtasks)[k] = vtasks[k + 1] /\ k \in Nat \ {0}
        /\ \A k \in DOMAIN vtasks :
             k = 1 \/ (k - 1 \in DOMAIN Tail(vtasks) /\ Tail(vtasks)[k - 1] = vtasks[k])
    BY <1>1, Advanced DEF SlotTypes
  <2> QED BY <1>1, <1>2, <2>1 DEF WaitsAt
<1>5. ApartAll
  BY ApartIs
<1>6. \A i \in 1..Slots : Waiting(i)' <=> Waiting(i)
  <2>1. ASSUME NEW i \in 1..Slots, Waiting(i) PROVE Waiting(i)'
    <3>1. PICK k \in DOMAIN vtasks : WaitsAt(k, i)
      BY <2>1, PlacesAre
    <3>2. PICK l : l = k - 1
      OBVIOUS
    <3>3. WaitsAt(l, i)'
      BY <1>4, <3>1, <3>2
    <3> QED BY <3>3, PlacesWillBe DEF WaitsAt
  <2>2. ASSUME NEW i \in 1..Slots, Waiting(i)' PROVE Waiting(i)
    <3>1. PICK k \in DOMAIN vtasks' : WaitsAt(k, i)'
      BY <2>2, PlacesWillBe
    <3>2. WaitsAt(k + 1, i)
      BY <1>4, <3>1
    <3> QED BY <3>2, PlacesAre DEF WaitsAt
  <2> QED BY <2>1, <2>2
<1>7. \A i \in 1..Slots : (Unsent(i)' <=> Unsent(i)) /\ (Sent(i)' <=> Sent(i))
  BY <1>2, <1>3, PlacesAre, PlacesWillBe
<1>8. OthersRest({})
  BY <1>2, <1>6, <1>7 DEF OthersRest, Held, Mine
<1>9. ApartAll'
  <2>1. \A j \in 1..Slots : /\ Unsent(j)' => ~Waiting(j)' /\ prev' # j
                            /\ Waiting(j)' => prev' # j
    BY <1>5, <1>8 DEF OthersRest, ApartAll
  <2>2. ASSUME NEW j \in 1..Slots, NEW k, NEW l, WaitsAt(k, j)', WaitsAt(l, j)' PROVE k = l
    <3>1. k \in Nat /\ l \in Nat /\ WaitsAt(k + 1, j) /\ WaitsAt(l + 1, j)
      BY <1>4, <2>2
    <3>2. k + 1 = l + 1
      BY <1>5, <3>1 DEF ApartAll
    <3> QED BY <3>1, <3>2
  <2> QED BY <1>2, <1>3, <1>5, <2>1, <2>2 DEF ApartAll
<1> QED
  BY <1>1, <1>2, <1>8, <1>9, ApartWillBe, SteadyOwns

\* The thread puts a frame into the display queue.
LEMMA OutputOwns ==
  ASSUME OwnInv, PassOn \/ Deinterlace
  PROVE  /\ SlotTypes' /\ Stations' /\ Apart' /\ Counted' /\ Buffered' /\ Numbered' /\ Owned' /\ Kept'
         /\ UnusedBuffers' >= 0
<1> USE DEF OwnInv
<1>1. SlotTypes' /\ Stations'
  BY PassOnTypes, DeinterlaceTypes
<1>2. \E f \in Frames : /\ f.buf \in {NoBuf, NewBuf} /\ frames' = Append(frames, f)
                        /\ got' = got - (IF f.buf = NewBuf THEN 1 ELSE 0)
  <2>1. CASE PassOn
    <3>1. SignOf(Head(vtasks)) \in Frames /\ SignOf(Head(vtasks)).buf = NoBuf
      BY <2>1, PassOnTypes
    <3>2. frames' = Append(frames, SignOf(Head(vtasks))) /\ got' = got /\ got \in Nat
      BY <2>1 DEF PassOn, vprocVars, SlotTypes
    <3> QED BY <3>1, <3>2 DEF NoBuf, NewBuf
  <2>2. CASE Deinterlace
    <3>1. PICK f \in Frames : frames' = Append(frames, f) /\ f.buf = NewBuf
      BY <2>2, DeinterlaceTypes
    <3>2. got' = got - 1
      BY <2>2, DeinterlaceTypes
    <3> QED BY <3>1, <3>2 DEF NoBuf, NewBuf
  <2> QED BY <2>1, <2>2
<1>3. /\ UNCHANGED <<cur, pics, slot, extra, held, hpc, job, jobs, prev, vtasks>>
      /\ Windowed' = Windowed \/ ~IsPicture(vtasks[1])
  <2>1. CASE PassOn
    BY <2>1, PassOnTypes DEF PassOn, halVars, parserVars, slotVars, taskVars, userVars
  <2>2. CASE Deinterlace
    BY <2>2 DEF Deinterlace, halVars, parserVars, slotVars, taskVars, userVars, Windowed
  <2> QED BY <2>1, <2>2
<1>4. /\ \A i, k : WaitsAt(k, i)' <=> WaitsAt(k, i)
      /\ \A i, k : Queues(k, i)' <=> Queues(k, i)
      /\ \A i : Pushes(i)' <=> Pushes(i)
  BY <1>3, WaitsStay, JobsStay, PushStays
<1>5. OthersRest({}) /\ Resting
  BY <1>3, <1>4, OthersIf, RestingIf
<1>6. Counted' /\ Buffered' /\ Numbered' /\ Owned' /\ Kept' /\ UnusedBuffers' >= 0
  BY <1>1, <1>2, <1>3, <1>5, FrameOwns
<1> QED
  BY <1>1, <1>5, <1>6, RestingApart

\* A buffer for the hardware to write to.
LEMMA GetBufferOwns ==
  ASSUME OwnInv, GetBuffer
  PROVE  /\ SlotTypes' /\ Stations' /\ Apart' /\ Counted' /\ Buffered' /\ Numbered' /\ Owned' /\ Kept'
         /\ UnusedBuffers' >= 0
<1> USE DEF OwnInv
<1>1. SlotTypes' /\ Stations'
  BY PlainTypes
<1>2. /\ UNCHANGED <<cur, pics, slot, extra, frames, held, hpc, job, jobs, prev, vpc, vtasks>>
      /\ got' = got + 1 /\ UnusedBuffers > 0
  BY DEF GetBuffer, halVars, parserVars, slotVars, taskVars, userVars
<1>3. Resting
  BY <1>2, WaitsStay, JobsStay, PushStays, RestingIf DEF Windowed
<1>4. Apart' /\ Counted' /\ Buffered' /\ Numbered' /\ Owned' /\ Kept'
  BY <1>2, <1>3, RestingApart, RestingCounted, RestingBuffered, NumberedStays, RestingOwned, RestingKept
<1>5. UnusedBuffers' >= 0
  <2>1. /\ got \in Nat /\ NewOf(frames) \in Nat /\ NewOf(held) \in Nat /\ BufferCount \in Nat
        /\ Cardinality(Taken) \in Nat
    BY NewNat, TakenFinite, VprocAssumption DEF SlotTypes
  <2> QED BY <1>2, <2>1, TakenStays, UnusedIs, UnusedWillBe
<1> QED
  BY <1>1, <1>4, <1>5

\* A step that moves nothing.
LEMMA PlainOwns ==
  ASSUME OwnInv,
         \/ Gate \/ ResetHal \/ ResetVproc \/ HalStart \/ HalSignal \/ Work \/ Sleep
         \/ TakePicture \/ Spurious \/ UserReset
  PROVE  /\ SlotTypes' /\ Stations' /\ Apart' /\ Counted' /\ Buffered' /\ Numbered' /\ Owned' /\ Kept'
         /\ UnusedBuffers' >= 0
<1> USE DEF OwnInv
<1>1. SlotTypes' /\ Stations'
  BY PlainTypes
<1>2. UNCHANGED <<cur, pics, slot, extra, frames, held, got, job, jobs, prev, vtasks>>
  BY DEF Gate, ResetHal, ResetVproc, HalStart, HalSignal, Work, Sleep, TakePicture, Spurious, UserReset,
         halVars, parserVars, slotVars, vprocVars, taskVars, userVars
<1>3. Windowed' = Windowed
  BY DEF Gate, ResetHal, ResetVproc, HalStart, HalSignal, Work, Sleep, TakePicture, Spurious, UserReset,
         On, vprocVars, Windowed
<1>4. hpc' = hpc \/ (hpc = "signal" /\ hpc' = "clr") \/ (hpc = "signal" /\ ~IsPicture(job))
  BY DEF Gate, ResetHal, ResetVproc, HalStart, HalSignal, Work, Sleep, TakePicture, Spurious, UserReset,
         halVars
<1>5. \A i : /\ Pushes(i)' <=> Pushes(i)
             /\ hpc' = "put" <=> hpc = "put"
             /\ hpc' \in {"signal", "clr"} /\ Pushes(i)' <=> hpc \in {"signal", "clr"} /\ Pushes(i)
  <2>1. hpc' \in {"rest", "put", "signal", "clr"} /\ (hpc' = "put" <=> hpc = "put")
    BY <1>1 DEF Stations, Gate, ResetHal, ResetVproc, HalStart, HalSignal, Work, Sleep, TakePicture,
           Spurious, UserReset, halVars
  <2> QED BY <1>2, <1>4, <2>1 DEF Pushes
<1>6. /\ \A i, k : WaitsAt(k, i)' <=> WaitsAt(k, i)
      /\ \A i, k : Queues(k, i)' <=> Queues(k, i)
  BY <1>2, <1>3, WaitsStay, JobsStay
<1>7. OthersRest({})
  BY <1>2, <1>5, <1>6, OthersIf
<1>8. ApartAll'
  <2>1. ApartAll
    BY ApartIs
  <2>2. \A j \in 1..Slots : /\ Unsent(j)' => ~Waiting(j)' /\ prev' # j
                            /\ Waiting(j)' => prev' # j
    BY <1>7, <2>1 DEF OthersRest, ApartAll
  <2> QED BY <1>2, <1>5, <1>6, <2>1, <2>2 DEF ApartAll
<1> QED
  BY <1>1, <1>2, <1>7, <1>8, ApartWillBe, SteadyOwns

\* The application takes a frame, gives it back, or drops all that are queued.
LEMMA UserPlaces ==
  ASSUME OwnInv, TakeFrame \/ ReleaseFrame \/ UserFlush
  PROVE  /\ SlotTypes' /\ Stations' /\ Apart' /\ Counted' /\ Buffered' /\ Numbered' /\ OthersRest({})
         /\ UNCHANGED <<slot, cur, pics, got>> /\ (\A b : Alone(b) => Alone(b)')
<1> USE DEF OwnInv
<1>1. SlotTypes' /\ Stations'
  BY UserTypes
<1>2. UNCHANGED <<cur, pics, slot, got, hpc, job, jobs, prev, vpc, vtasks>>
  BY DEF TakeFrame, ReleaseFrame, UserFlush, halVars, parserVars, slotVars, vprocVars, taskVars
<1>3. /\ \A i, k : WaitsAt(k, i)' <=> WaitsAt(k, i)
      /\ \A i, k : Queues(k, i)' <=> Queues(k, i)
      /\ \A i : Pushes(i)' <=> Pushes(i)
  BY <1>2, WaitsStay, JobsStay, PushStays DEF Windowed
<1>4. OthersRest({}) /\ Resting
  BY <1>2, <1>3, OthersIf, RestingIf
<1> QED
  BY <1>1, <1>2, <1>4, RestingApart, SteadyKeeps

LEMMA TakeFrameOwns ==
  ASSUME OwnInv, TakeFrame
  PROVE  Owned' /\ Kept' /\ UnusedBuffers' >= 0
<1> USE DEF OwnInv
<1>1. /\ frames # << >> /\ held = << >> /\ held' = << Head(frames) >> /\ frames' = Tail(frames)
      /\ extra' = extra
  BY DEF TakeFrame, slotVars
<1>2. /\ OthersRest({}) /\ UNCHANGED <<slot, cur, pics, got>> /\ (\A b : Alone(b) => Alone(b)')
      /\ SlotTypes'
  BY UserPlaces
<1>3. /\ Head(frames) = frames[1] /\ 1 \in DOMAIN frames /\ DOMAIN frames \subseteq Nat \ {0}
      /\ \A k \in Nat \ {0} : k \in DOMAIN frames' <=> k + 1 \in DOMAIN frames
      /\ \A k \in DOMAIN frames' : frames'[k] = frames[k + 1] /\ k \in Nat \ {0}
      /\ \A k \in DOMAIN frames :
           k = 1 \/ (k - 1 \in DOMAIN frames' /\ frames'[k - 1] = frames[k])
  BY <1>1, Advanced DEF SlotTypes
<1>4. Len(held') = 1 /\ DOMAIN held' = {1} /\ held'[1] = frames[1]
  BY <1>1, <1>3
<1>5. Owned'
  <2>1. Bufs(held)' /\ Bufs(frames)' /\ Len(held') <= 1
    <3>1. \A k \in DOMAIN frames : frames[k].buf \in {NoBuf, NewBuf} \cup 1..pics
      BY DEF Owned, Bufs
    <3>2. \A k \in DOMAIN frames' : frames'[k].buf \in {NoBuf, NewBuf} \cup 1..pics
      BY <1>3, <3>1
    <3>3. \A k \in DOMAIN held' : held'[k].buf \in {NoBuf, NewBuf} \cup 1..pics
      BY <1>3, <1>4, <3>1
    <3> QED BY <1>2, <1>4, <3>2, <3>3 DEF Bufs
  <2>2. \A k, l \in DOMAIN frames : frames[k].buf = frames[l].buf /\ frames[k].buf > 0 => k = l
    BY DEF Owned
  <2>3. \A k, l \in DOMAIN frames' : frames'[k].buf = frames'[l].buf /\ frames'[k].buf > 0 => k = l
    <3> SUFFICES ASSUME NEW k \in DOMAIN frames', NEW l \in DOMAIN frames',
                        frames'[k].buf = frames'[l].buf, frames'[k].buf > 0
                 PROVE  k = l
      OBVIOUS
    <3>1. /\ k \in Nat \ {0} /\ l \in Nat \ {0} /\ k + 1 \in DOMAIN frames /\ l + 1 \in DOMAIN frames
          /\ frames'[k] = frames[k + 1] /\ frames'[l] = frames[l + 1]
      BY <1>3
    <3>2. k + 1 = l + 1
      BY <2>2, <3>1
    <3> QED BY <3>1, <3>2
  <2>4. \A k \in DOMAIN frames', l \in DOMAIN held' :
          frames'[k].buf = held'[l].buf => frames'[k].buf <= 0
    <3> SUFFICES ASSUME NEW k \in DOMAIN frames', frames'[k].buf = frames[1].buf
                 PROVE  frames'[k].buf <= 0
      BY <1>4
    <3>1. k \in Nat \ {0} /\ k + 1 \in DOMAIN frames /\ frames'[k] = frames[k + 1]
      BY <1>3
    <3>2. ~(frames[k + 1].buf > 0)
      <4>1. k + 1 # 1
        BY <3>1
      <4> QED BY <1>3, <2>2, <3>1, <4>1
    <3>3. frames[k + 1].buf \in Int
      BY <3>1 DEF Owned, Bufs, NoBuf, NewBuf, SlotTypes
    <3> QED BY <3>1, <3>2, <3>3
  <2>5. \A k \in DOMAIN frames' : Alone(frames[k].buf)'
    <3> TAKE k \in DOMAIN frames'
    <3>1. PICK b : b = frames'[k].buf
      OBVIOUS
    <3>2. Alone(b)
      BY <1>3, <3>1 DEF Owned
    <3>3. Alone(b)'
      BY <1>2, <3>2
    <3> QED BY <3>1, <3>3 DEF Alone
  <2>6. \A k \in DOMAIN held' : Alone(held[k].buf)'
    <3> TAKE k \in DOMAIN held'
    <3>1. PICK b : b = frames[1].buf
      OBVIOUS
    <3>2. Alone(b) /\ b = held'[k].buf
      BY <1>3, <1>4, <3>1 DEF Owned
    <3>3. Alone(b)'
      BY <1>2, <3>2
    <3> QED BY <3>2, <3>3 DEF Alone
  <2> QED BY <2>1, <2>3, <2>4, <2>5, <2>6 DEF Owned
<1>6. Kept'
  <2>1. \A b : b \in BuffersOf(frames') \cup BuffersOf(held') <=> b \in BuffersOf(frames)
    <3>1. ASSUME NEW b, b \in BuffersOf(frames) PROVE b \in BuffersOf(frames') \cup BuffersOf(held')
      BY <1>3, <1>4, <3>1 DEF BuffersOf
    <3>2. ASSUME NEW b, b \in BuffersOf(frames') \cup BuffersOf(held') PROVE b \in BuffersOf(frames)
      BY <1>3, <1>4, <3>2 DEF BuffersOf
    <3> QED BY <3>1, <3>2
  <2>2. BuffersOf(held) = {}
    BY <1>1 DEF BuffersOf
  <2>3. \A b \in 1..pics : b \in (BuffersOf(frames) \cup BuffersOf(held))'
                             <=> b \in BuffersOf(frames) \cup BuffersOf(held)
    BY <2>1, <2>2 DEF BuffersOf
  <2> QED BY <1>1, <1>2, <2>3 DEF Kept, OthersRest
<1>7. UnusedBuffers' >= 0
  <2>1. NewOf(frames') + NewOf(held') = NewOf(frames)
    BY <1>1, NewTaken DEF SlotTypes
  <2>2. NewOf(held) = 0
    BY <1>1, NewNone
  <2>3. /\ got \in Nat /\ NewOf(frames) \in Nat /\ NewOf(held') \in Nat /\ NewOf(frames') \in Nat
    BY <1>2, NewNat DEF SlotTypes
  <2>4. got' + NewOf(frames') + NewOf(held') <= got + NewOf(frames) + NewOf(held)
    BY <1>2, <2>1, <2>2, <2>3
  <2> QED BY <1>1, <1>2, <2>4, TakenStays, UnusedKept
<1> QED
  BY <1>5, <1>6, <1>7

\* What is given back is no one else's.
LEMMA GivenBackOwns ==
  ASSUME OwnInv, ReleaseFrame \/ UserFlush
  PROVE  Owned' /\ Kept' /\ UnusedBuffers' >= 0
<1> USE DEF OwnInv
<1>1. /\ OthersRest({}) /\ UNCHANGED <<slot, cur, pics, got>> /\ (\A b : Alone(b) => Alone(b)')
      /\ SlotTypes'
  BY UserPlaces
<1>2. PICK out \in {"held", "frames"} :
        /\ out = "held" => /\ held' = << >> /\ frames' = frames
                           /\ extra' = extra \ BuffersOf(held)
        /\ out = "frames" => /\ frames' = << >> /\ held' = held
                             /\ extra' = extra \ BuffersOf(frames)
  BY DEF ReleaseFrame, UserFlush
<1>3. DOMAIN << >> = {} /\ BuffersOf(<< >>) = {}
  BY DEF BuffersOf
<1>4. Owned'
  <2>1. CASE out = "held"
    <3>1. held' = << >> /\ frames' = frames /\ Len(held') = 0
      BY <1>2, <2>1
    <3> QED BY <1>1, <1>3, <3>1 DEF Owned, Bufs
  <2>2. CASE out = "frames"
    <3>1. frames' = << >> /\ held' = held
      BY <1>2, <2>2
    <3> QED BY <1>1, <1>3, <3>1 DEF Owned, Bufs
  <2> QED BY <2>1, <2>2
<1>5. Kept'
  <2>1. \A b \in 1..pics : b \in BuffersOf(held) => b \notin BuffersOf(frames)
    BY DEF BuffersOf, Owned
  <2>2. \A b \in 1..pics : b \in BuffersOf(frames) \cup BuffersOf(held) =>
                             ~\E i \in 1..Slots : Held(i) /\ slot[i].pic = b
    BY DEF BuffersOf, Owned, Alone, Held
  <2>3. \A i \in 1..Slots : (Held(i)' <=> Held(i)) /\ slot'[i].pic = slot[i].pic
    BY <1>1 DEF OthersRest
  <2>4. CASE out = "held"
    <3>1. /\ (BuffersOf(frames) \cup BuffersOf(held))' = BuffersOf(frames)
          /\ extra' = extra \ BuffersOf(held)
      BY <1>2, <1>3, <2>4 DEF BuffersOf
    <3> QED BY <1>1, <2>1, <2>2, <2>3, <3>1 DEF Kept
  <2>5. CASE out = "frames"
    <3>1. /\ (BuffersOf(frames) \cup BuffersOf(held))' = BuffersOf(held)
          /\ extra' = extra \ BuffersOf(frames)
      BY <1>2, <1>3, <2>5 DEF BuffersOf
    <3> QED BY <1>1, <2>1, <2>2, <2>3, <3>1 DEF Kept
  <2> QED BY <2>4, <2>5
<1>6. UnusedBuffers' >= 0
  <2>1. extra' \subseteq extra
    BY <1>2
  <2>2. Taken' \subseteq Taken
    BY <1>1, <2>1, Zenon DEF Taken
  <2>3. NewOf(<< >>) = 0 /\ got \in Nat /\ NewOf(frames) \in Nat /\ NewOf(held) \in Nat
    BY NewNone, NewNat DEF SlotTypes
  <2>4. got' + NewOf(frames') + NewOf(held') <= got + NewOf(frames) + NewOf(held)
    <3>1. CASE out = "held"
      <4>1. held' = << >> /\ frames' = frames
        BY <1>2, <3>1
      <4>2. NewOf(held') = 0 /\ NewOf(frames') = NewOf(frames)
        BY <2>3, <4>1
      <4> QED BY <1>1, <2>3, <4>2
    <3>2. CASE out = "frames"
      <4>1. frames' = << >> /\ held' = held
        BY <1>2, <3>2
      <4>2. NewOf(frames') = 0 /\ NewOf(held') = NewOf(held)
        BY <2>3, <4>1
      <4> QED BY <1>1, <2>3, <4>2
    <3> QED BY <3>1, <3>2
  <2> QED BY <1>1, <2>2, <2>4, UnusedKept
<1> QED
  BY <1>4, <1>5, <1>6

-----------------------------------------------------------------------------
LEMMA InitOwns == Init => OwnInv
<1> SUFFICES ASSUME Init PROVE OwnInv
  OBVIOUS
<1>1. RestInv
  BY InitRests
<1>2. SlotTypes /\ Stations
  <2>1. 0 \in 0..Slots
    BY VprocAssumption
  <2>2. << >> \in Seq(Tasks) /\ << >> \in Seq(Frames)
    OBVIOUS
  <2>3. slot \in [1..Slots -> [pic : Nat, buf : BOOLEAN, use : Nat]]
    BY DEF Init, Free
  <2> QED BY <2>1, <2>2, <2>3 DEF Init, SlotTypes, Stations
<1>3. \A i \in 1..Slots : ~Unsent(i) /\ ~Sent(i) /\ ~Waiting(i) /\ prev # i
  BY DEF Init, Unsent, Sent, Waiting, NoTask
<1>4. Apart
  BY DEF Init, Apart, Pushes, Unsent, Waiting, NoTask
<1>5. Counted /\ Buffered /\ Numbered
  BY <1>3 DEF Init, Counted, Owners, Buffered, Held, Mine, Numbered, Free
<1>6. Owned
  BY DEF Init, Owned, Bufs
<1>7. Kept
  BY DEF Init, Kept
<1>8. UnusedBuffers >= 0
  <2>1. Taken = {}
    BY DEF Init, Taken, Free
  <2>2. NewOf(frames) = 0 /\ NewOf(held) = 0 /\ Cardinality(Taken) = 0 /\ got = 0
    BY <2>1, NewNone, FS_EmptySet DEF Init
  <2>3. BufferCount \in Nat
    BY VprocAssumption
  <2> QED BY <2>2, <2>3, UnusedIs
<1> QED
  BY <1>1, <1>2, <1>4, <1>5, <1>6, <1>7, <1>8 DEF OwnInv

LEMMA StutterOwns ==
  ASSUME OwnInv, UNCHANGED vars
  PROVE  /\ SlotTypes' /\ Stations' /\ Apart' /\ Counted' /\ Buffered' /\ Numbered' /\ Owned' /\ Kept'
         /\ UnusedBuffers' >= 0
<1> USE DEF OwnInv
<1>1. UNCHANGED <<cur, pics, slot, extra, frames, held, got, hpc, ppc, job, jobs, prev, vpc, vtasks>>
  BY DEF vars, halVars, parserVars, slotVars, vprocVars, taskVars, userVars
<1>2. SlotTypes' /\ Stations'
  BY <1>1 DEF SlotTypes, Stations
<1>3. Resting
  BY <1>1, WaitsStay, JobsStay, PushStays, RestingIf DEF Windowed
<1> QED
  BY <1>1, <1>2, <1>3, RestingKeeps

\* A step of any of the threads.
LEMMA StepOwns ==
  ASSUME OwnInv, [Next]_vars
  PROVE  OwnInv'
<1> DEFINE Rest == /\ SlotTypes' /\ Stations' /\ Apart' /\ Counted' /\ Buffered' /\ Numbered' /\ Owned'
                   /\ Kept' /\ UnusedBuffers' >= 0
<1>1. RestInv'
  BY ParserRests, HalRests, VprocRests, UserRests, StutterRests DEF Next, OwnInv
<1> SUFFICES Rest
  BY <1>1 DEF OwnInv
<1>2. CASE Parse
  BY <1>2, ParseOwns
<1>3. CASE ParseEos
  BY <1>3, ParseEosTypes, RestingKeeps
     DEF OwnInv, ParseEos, slotVars, vprocVars, userVars
<1>4. CASE Get
  <2>1. CASE Retried
    BY <2>1, RetriedTypes, RestingKeeps DEF OwnInv, Retried
  <2>2. CASE \E t \in Pictures : Got(t)
    BY <2>2, GotOwns
  <2> QED BY <1>4, <2>1, <2>2, GetEffect DEF OwnInv
<1>5. CASE \/ Gate \/ ResetHal \/ ResetVproc \/ HalStart \/ HalSignal \/ Work \/ Sleep
           \/ TakePicture \/ Spurious \/ UserReset
  BY <1>5, PlainOwns
<1>6. CASE ResetDone
  BY <1>6, ResetDoneOwns
<1>7. CASE HalTake
  BY <1>7, HalTakeOwns
<1>8. CASE HalDirect
  BY <1>8, HalDirectOwns
<1>9. CASE HalPut
  BY <1>9, HalPutOwns
<1>10. CASE HalPutEos
  BY <1>10, HalPutEosTypes, RestingKeeps
     DEF OwnInv, HalPutEos, parserVars, slotVars, vprocVars, userVars
<1>11. CASE HalClr
  BY <1>11, HalClrOwns
<1>12. CASE VprocReset \/ Clear
  BY <1>12, WindowOwns
<1>13. CASE PassOn \/ Deinterlace
  BY <1>13, OutputOwns
<1>14. CASE GetBuffer
  BY <1>14, GetBufferOwns
<1>15. CASE Shift
  BY <1>15, ShiftOwns
<1>16. CASE Idle
  BY <1>16, IdleOwns
<1>17. CASE TakeFrame
  BY <1>17, UserPlaces, TakeFrameOwns
<1>18. CASE ReleaseFrame \/ UserFlush
  BY <1>18, UserPlaces, GivenBackOwns
<1>19. CASE UNCHANGED vars
  BY <1>19, StutterOwns
<1> QED
  BY <1>2, <1>3, <1>4, <1>5, <1>6, <1>7, <1>8, <1>9, <1>10, <1>11, <1>12, <1>13, <1>14, <1>15,
     <1>16, <1>17, <1>18, <1>19 DEF Next, ParserStep, HalStep, VprocStep

\* What a reader should know: with any number of slots, buffers and pictures,
\* every use of a slot has its owner, the references of mpp_buffer_get are with
\* the slots and frames that will give them back, and no more buffers are taken
\* than the group has.
THEOREM AlwaysUsesExact == Spec => []UsesExact
<1>1. OwnInv => UsesExact
  <2> SUFFICES ASSUME OwnInv PROVE UsesExact
    OBVIOUS
  <2> USE DEF OwnInv
  <2>1. ASSUME NEW i \in 1..Slots
        PROVE  /\ slot[i] = Free <=> slot[i].use = 0
               /\ slot[i].use = Cardinality({x \in {1, 2, 3} :
                            \/ x = 1 /\ (Unsent(i) \/ Sent(i))
                            \/ x = 2 /\ Waiting(i)
                            \/ x = 3 /\ prev = i})
    <3>1. slot[i].use = Owners(i) /\ (slot[i] = Free <=> slot[i].use = 0)
      BY DEF Counted, Free
    <3>2. (Unsent(i) \/ Sent(i)) \in BOOLEAN /\ Waiting(i) \in BOOLEAN /\ (prev = i) \in BOOLEAN
      BY DEF Unsent, Sent, Waiting
    <3> DEFINE U == Unsent(i) \/ Sent(i)
               W == Waiting(i)
               V == prev = i
    <3>3. slot[i].use = (IF U THEN 1 ELSE 0) + (IF W THEN 1 ELSE 0) + (IF V THEN 1 ELSE 0)
      BY <3>1 DEF Owners
    <3>4. U \in BOOLEAN /\ W \in BOOLEAN /\ V \in BOOLEAN
      BY <3>2
    <3> HIDE DEF U, W, V
    <3>5. slot[i].use = Cardinality({x \in {1, 2, 3} : (x = 1 /\ U) \/ (x = 2 /\ W) \/ (x = 3 /\ V)})
      <4>1. (IF U THEN 1 ELSE 0) + (IF W THEN 1 ELSE 0) + (IF V THEN 1 ELSE 0)
              = Cardinality({x \in {1, 2, 3} : (x = 1 /\ U) \/ (x = 2 /\ W) \/ (x = 3 /\ V)})
        BY <3>4, ThreeOwners, Zenon
      <4> QED BY <3>3, <4>1
    <3> QED BY <3>1, <3>5 DEF U, W, V
  <2>2. \A i \in 1..Slots : OwnsBuffer(i) <=> Held(i)
    <3>1. \A i \in 1..Slots : cur.slot = i => cur # NoTask
      BY DEF NoTask
    <3> QED BY <3>1 DEF OwnsBuffer, Held, Mine, Buffered
  <2>3. extra = ((BuffersOf(frames) \cup BuffersOf(held)) \ {NoBuf, NewBuf})
                  \cup {slot[i].pic : i \in {j \in 1..Slots : OwnsBuffer(j)}}
    <3>1. BuffersOf(frames) \cup BuffersOf(held) \subseteq {NoBuf, NewBuf} \cup 1..pics
      BY DEF BuffersOf, Owned, Bufs
    <3>2. \A i \in 1..Slots : Held(i) => slot[i].pic \in 1..pics
      <4>1. \A i \in 1..Slots : Held(i) => slot[i].use > 0
        BY OwnerHasUse DEF Held, Mine
      <4> QED BY <4>1 DEF Numbered
    <3>3. \A b \in 1..pics : b \notin {NoBuf, NewBuf}
      BY DEF NoBuf, NewBuf
    <3>4. \A b : b \in {slot[i].pic : i \in {j \in 1..Slots : OwnsBuffer(j)}}
                   <=> \E i \in 1..Slots : Held(i) /\ slot[i].pic = b
      BY <2>2
    <3> QED BY <3>1, <3>2, <3>3, <3>4 DEF Kept
  <2> QED BY <2>1, <2>3 DEF UsesExact
<1>2. Init => OwnInv
  BY InitOwns
<1>3. OwnInv /\ [Next]_vars => OwnInv'
  BY StepOwns
<1> QED
  BY <1>1, <1>2, <1>3, PTL DEF Spec

-----------------------------------------------------------------------------
(* The order of the frames.  Every task that the thread has not answered yet *)
(* will make a frame at its key, the time of its picture or half a picture   *)
(* before.  In the order in which they will be answered, that is in the      *)
(* tasks of the thread, the one the hal thread holds, the tasks of the hal   *)
(* thread, and the one the parser has, the keys go up without a gap, from    *)
(* the last frame that is out.                                               *)

Final(t) == t.kind \in {"last", "eos"}

Key(t) ==
    IF t.kind = "eos" THEN 2 * pics + 1
    ELSE IF t.kind = "change" THEN 2 * slot[t.slot].pic - 1
    ELSE 2 * slot[t.slot].pic

\* Task u comes next after time a: at once, or a picture after a picture.
Rises(a, u) == Key(u) = a + 1 \/ (IsPicture(u) /\ Key(u) = a + 2)

\* Nothing comes after task t.
Ends(t) ==
    /\ t.kind # "change"
    /\ IsPicture(t) => slot[t.slot].pic = pics
    /\ Final(t) => ended

\* Task u, or nothing, comes after task t; a geometry change comes directly
\* before the picture that has it.
Joined(t, u) ==
    IF u = NoTask THEN Ends(t)
    ELSE /\ ~Final(t)
         /\ t.kind = "change" => IsPicture(u) /\ u.slot = t.slot
         /\ Rises(Key(t), u)

\* What comes after task k of queue q, before r; after the task of the hal
\* thread; and after the tasks of the post-processing.
Follower(q, k, r) == IF k + 1 \in DOMAIN q THEN q[k + 1] ELSE r
AfterJob == IF jobs # << >> THEN jobs[1] ELSE cur
AfterTasks == IF hpc = "put" THEN job ELSE AfterJob

\* The first task of the thread that is not answered, and the first of all.
From == IF vpc \in {"shift", "clear", "idle"} THEN 2 ELSE 1
First == IF From \in DOMAIN vtasks THEN vtasks[From] ELSE AfterTasks

LastTime == IF frames = << >> THEN shown ELSE frames[Len(frames)].pts

JobsJoined == \A k \in DOMAIN jobs : Joined(jobs[k], Follower(jobs, k, cur))
JobJoined == hpc = "put" => Joined(job, AfterJob)
TasksJoined ==
    \A k \in DOMAIN vtasks : k >= From => Joined(vtasks[k], Follower(vtasks, k, AfterTasks))

\* The parser's task is the newest picture.
Newest == cur # NoTask => slot[cur.slot].pic = pics /\ ~ended

\* The first task follows the last frame; without one all pictures are out.
Starts ==
    IF First = NoTask THEN LastTime = 2 * pics \/ (LastTime = 2 * pics + 1 /\ ended)
    ELSE Rises(LastTime, First)

\* The last frame is that of the window's picture, or it was made from both; with
\* no picture in the window one frame is made of the next.
Window ==
    /\ vpc = "second" => prev # 0
    /\ vpc = "buffer" => got <= Needed
    /\ vpc = "shift" => LastTime = Key(vtasks[1])
    /\ prev # 0 /\ vpc \notin {"shift", "clear"} =>
         LastTime = 2 * slot[prev].pic + (IF vpc = "second" THEN 1 ELSE 0)

\* Behind a frame that says end of stream comes only the second of its pair.
EosFrames ==
    \A k \in DOMAIN frames : frames[k].eos =>
      /\ ended
      /\ First = NoTask \/ (vpc = "second" /\ k = Len(frames) /\ Final(vtasks[1]))

Before(k) == IF k = 1 THEN shown ELSE frames[k - 1].pts
Times ==
    /\ \A k \in DOMAIN frames : frames[k].pts - Before(k) \in {1, 2}
    /\ \A k \in DOMAIN frames : frames[k].eos /\ k + 1 \in DOMAIN frames =>
         /\ frames[k + 1].eos /\ k + 1 = Len(frames)
         /\ frames[k + 1].pts = frames[k].pts + 1

Order ==
    /\ JobsJoined /\ JobJoined /\ TasksJoined /\ Newest /\ Starts
    /\ Window /\ EosFrames /\ Times /\ shown \in Int

OrderInv == OwnInv /\ (apc = "run" => Order)

-----------------------------------------------------------------------------
(* The tasks that are to be answered, and pairs of them *)

Pending(t) ==
    \/ \E k \in DOMAIN jobs : t = jobs[k]
    \/ hpc = "put" /\ t = job
    \/ \E k \in DOMAIN vtasks : k >= From /\ t = vtasks[k]
    \/ cur # NoTask /\ t = cur

Adjacent(t, u) ==
    \/ \E k \in DOMAIN jobs : t = jobs[k] /\ u = Follower(jobs, k, cur)
    \/ hpc = "put" /\ t = job /\ u = AfterJob
    \/ \E k \in DOMAIN vtasks :
         k >= From /\ t = vtasks[k] /\ u = Follower(vtasks, k, AfterTasks)

LEMMA AllJoined ==
  JobsJoined /\ JobJoined /\ TasksJoined <=> \A t, u : Adjacent(t, u) => Joined(t, u)
<1>1. ASSUME JobsJoined, JobJoined, TasksJoined PROVE \A t, u : Adjacent(t, u) => Joined(t, u)
  BY <1>1 DEF JobsJoined, JobJoined, TasksJoined, Adjacent
<1>2. ASSUME \A t, u : Adjacent(t, u) => Joined(t, u) PROVE JobsJoined /\ JobJoined /\ TasksJoined
  BY <1>2 DEF JobsJoined, JobJoined, TasksJoined, Adjacent
<1> QED
  BY <1>1, <1>2

LEMMA AllWillJoin ==
  ASSUME \A t, u : Adjacent(t, u)' => Joined(t, u)'
  PROVE  JobsJoined' /\ JobJoined' /\ TasksJoined'
BY DEF JobsJoined, JobJoined, TasksJoined, Adjacent

LEMMA PendingTask ==
  ASSUME SlotTypes, Stations, NEW t, Pending(t)
  PROVE  t \in Tasks /\ t # NoTask
<1>1. NoTask \notin Tasks /\ Pictures \subseteq Tasks
  BY DEF NoTask, Tasks, Pictures
<1>2. \A k \in DOMAIN jobs : jobs[k] \in Tasks
  BY Member DEF SlotTypes
<1>3. \A k \in DOMAIN vtasks : vtasks[k] \in Tasks
  BY Member DEF SlotTypes
<1> QED
  BY <1>1, <1>2, <1>3 DEF Pending, SlotTypes, Stations

LEMMA AdjacentPending ==
  ASSUME SlotTypes, Stations, NEW t, NEW u, Adjacent(t, u)
  PROVE  Pending(t) /\ (u = NoTask \/ Pending(u))
<1>1. From \in {1, 2}
  BY DEF From
<1>2. DOMAIN vtasks \subseteq Nat /\ DOMAIN jobs \subseteq Nat
  BY DEF SlotTypes
<1>3. jobs # << >> => 1 \in DOMAIN jobs
  BY Advanced DEF SlotTypes
<1>4. AfterJob = NoTask \/ Pending(AfterJob)
  BY <1>3 DEF AfterJob, Pending
<1>5. AfterTasks = NoTask \/ Pending(AfterTasks)
  BY <1>4 DEF AfterTasks, Pending
<1>6. ASSUME NEW k \in DOMAIN jobs, t = jobs[k], u = Follower(jobs, k, cur)
      PROVE  Pending(t) /\ (u = NoTask \/ Pending(u))
  BY <1>6 DEF Follower, Pending
<1>7. ASSUME NEW k \in DOMAIN vtasks, k >= From, t = vtasks[k], u = Follower(vtasks, k, AfterTasks)
      PROVE  Pending(t) /\ (u = NoTask \/ Pending(u))
  <2>1. k + 1 >= From
    BY <1>1, <1>2, <1>7
  <2> QED BY <1>5, <1>7, <2>1 DEF Follower, Pending
<1>8. ASSUME hpc = "put", t = job, u = AfterJob PROVE Pending(t) /\ (u = NoTask \/ Pending(u))
  BY <1>4, <1>8 DEF Pending
<1> QED
  BY <1>6, <1>7, <1>8 DEF Adjacent

\* A picture that is pending has its slot, and a geometry change that of the
\* picture behind it.
Waits(i) == Unsent(i) \/ Waiting(i)

LEMMA PicturePlaced ==
  ASSUME SlotTypes, Stations, NEW t, Pending(t), IsPicture(t)
  PROVE  t.slot \in 1..Slots /\ Waits(t.slot)
<1>1. t \in Tasks
  BY PendingTask
<1>2. PICK i \in 1..Slots : i = t.slot
  BY <1>1, PictureSlot
<1>3. CASE \E k \in DOMAIN jobs : t = jobs[k]
  BY <1>2, <1>3 DEF Waits, Unsent
<1>4. CASE hpc = "put" /\ t = job
  BY <1>2, <1>4 DEF Waits, Unsent
<1>5. CASE \E k \in DOMAIN vtasks : k >= From /\ t = vtasks[k]
  <2>1. PICK k \in DOMAIN vtasks : k >= From /\ t = vtasks[k]
    BY <1>5
  <2>2. k = 1 => vpc \notin {"clear", "idle"}
    BY <2>1 DEF From
  <2> QED BY <1>2, <2>1, <2>2 DEF Waits, Waiting
<1>6. CASE cur # NoTask /\ t = cur
  BY <1>2, <1>6 DEF Waits, Unsent
<1> QED
  BY <1>2, <1>3, <1>4, <1>5, <1>6 DEF Pending

LEMMA PendingPlaced ==
  ASSUME OwnInv, JobsJoined, JobJoined, TasksJoined, NEW t, Pending(t), t.kind # "eos"
  PROVE  t.slot \in 1..Slots /\ Waits(t.slot)
<1> USE DEF OwnInv
<1>1. CASE IsPicture(t)
  BY <1>1, PicturePlaced
<1>2. CASE ~IsPicture(t)
  <2>1. t.kind = "change"
    BY <1>2, PendingTask DEF Tasks, Pictures, IsPicture
  <2>2. \E u : Adjacent(t, u)
    <3>1. t # cur
      BY <1>2, <2>1 DEF SlotTypes, Pictures, NoTask
    <3> QED BY <3>1 DEF Pending, Adjacent
  <2>3. PICK u : Adjacent(t, u)
    BY <2>2
  <2>4. u # NoTask /\ IsPicture(u) /\ u.slot = t.slot
    BY <2>1, <2>3, AllJoined DEF Joined, Ends
  <2>5. Pending(u)
    BY <2>3, <2>4, AdjacentPending
  <2> QED BY <2>4, <2>5, PicturePlaced
<1> QED
  BY <1>1, <1>2

\* A step that keeps the pictures of those slots, and parses none, keeps what is
\* joined.
Steady == UNCHANGED pics /\ \A i \in 1..Slots : Waits(i) => slot'[i].pic = slot[i].pic

LEMMA KeyStays ==
  ASSUME OwnInv, JobsJoined, JobJoined, TasksJoined, Steady, NEW t, Pending(t)
  PROVE  Key(t)' = Key(t) /\ (IsPicture(t) => slot'[t.slot].pic = slot[t.slot].pic)
<1>1. CASE t.kind = "eos"
  BY <1>1 DEF Key, Steady, IsPicture
<1>2. CASE t.kind # "eos"
  <2>1. slot'[t.slot].pic = slot[t.slot].pic
    BY <1>2, PendingPlaced DEF Steady
  <2> QED BY <1>2, <2>1 DEF Key
<1> QED
  BY <1>1, <1>2

LEMMA JoinedStays ==
  ASSUME OwnInv, JobsJoined, JobJoined, TasksJoined, Steady, ended => ended',
         NEW t, NEW u, Adjacent(t, u)
  PROVE  Joined(t, u)'
<1>1. Joined(t, u) /\ Pending(t) /\ (u = NoTask \/ Pending(u))
  BY AllJoined, AdjacentPending DEF OwnInv
<1>2. Key(t)' = Key(t) /\ (IsPicture(t) => slot'[t.slot].pic = slot[t.slot].pic) /\ pics' = pics
  BY <1>1, KeyStays DEF Steady
<1>3. CASE u = NoTask
  BY <1>1, <1>2, <1>3 DEF Joined, Ends
<1>4. CASE u # NoTask
  <2>1. Key(u)' = Key(u)
    BY <1>1, <1>4, KeyStays
  <2> QED BY <1>1, <1>2, <1>4, <2>1 DEF Joined, Rises
<1> QED
  BY <1>3, <1>4

\* The first task is pending, and what follows it is joined to it.
LEMMA FirstPending ==
  ASSUME SlotTypes, Stations
  PROVE  First = NoTask \/ Pending(First)
<1>1. jobs # << >> => 1 \in DOMAIN jobs
  BY Advanced DEF SlotTypes
<1>2. AfterTasks = NoTask \/ Pending(AfterTasks)
  BY <1>1 DEF AfterTasks, AfterJob, Pending
<1>3. From \in {1, 2} /\ From >= From
  BY DEF From
<1> QED
  BY <1>2, <1>3 DEF First, Pending

-----------------------------------------------------------------------------
(* Steps that answer no task and add none *)

\* The parts about the tasks, for a step after which no other tasks are adjacent.
Tasked == JobsJoined /\ JobJoined /\ TasksJoined /\ Newest /\ Starts

LEMMA TaskedStays ==
  ASSUME OwnInv, Tasked, Steady, SlotTypes', UNCHANGED <<cur, ended>>, First' = First, LastTime' = LastTime,
         \A t, u : Adjacent(t, u)' => Adjacent(t, u)
  PROVE  Tasked'
<1> USE DEF Tasked
<1>1. JobsJoined' /\ JobJoined' /\ TasksJoined'
  BY AllWillJoin, JoinedStays
<1>2. Newest'
  <2>1. ASSUME cur # NoTask PROVE slot'[cur.slot].pic = slot[cur.slot].pic
    <3>1. Pending(cur) /\ IsPicture(cur)
      BY <2>1 DEF Pending, OwnInv, SlotTypes, Pictures, IsPicture
    <3> QED BY <3>1, KeyStays
  <2> QED BY <2>1 DEF Newest, Steady
<1>3. Starts'
  <2>1. CASE First = NoTask
    BY <2>1 DEF Starts, Steady
  <2>2. CASE First # NoTask
    <3>1. Key(First)' = Key(First)
      BY <2>2, FirstPending, KeyStays DEF OwnInv
    <3> QED BY <2>2, <3>1 DEF Starts, Rises, Key, IsPicture
  <2> QED BY <2>1, <2>2
<1> QED
  BY <1>1, <1>2, <1>3

\* The queues and what is first in them stay.
LEMMA QueuesStay ==
  ASSUME UNCHANGED <<jobs, cur, vtasks, job>>, From' = From, hpc' = "put" <=> hpc = "put"
  PROVE  First' = First /\ \A t, u : Adjacent(t, u)' => Adjacent(t, u)
<1>1. AfterJob' = AfterJob /\ AfterTasks' = AfterTasks
  BY DEF AfterJob, AfterTasks
<1>2. First' = First
  BY <1>1 DEF First
<1>3. ASSUME NEW t, NEW u, Adjacent(t, u)' PROVE Adjacent(t, u)
  BY <1>1, <1>3 DEF Adjacent, Follower
<1> QED
  BY <1>2, <1>3

\* The slots stay, but for buffers and uses.
LEMMA SlotsSteady ==
  ASSUME UNCHANGED <<pics, slot>> PROVE Steady
BY DEF Steady

LEMMA TimesStay ==
  ASSUME Times, UNCHANGED <<frames, shown>>
  PROVE  Times' /\ LastTime' = LastTime
BY DEF Times, Before, LastTime

LEMMA EosFramesStay ==
  ASSUME EosFrames, UNCHANGED <<frames, ended, vtasks>>, First' = First, vpc = "second" => vpc' = "second"
  PROVE  EosFrames'
BY DEF EosFrames, Final

\* Steps of the threads that move nothing.
LEMMA PlainOrdered ==
  ASSUME OwnInv, Order, SlotTypes', ~resetFlag,
         \/ Gate \/ HalStart \/ HalSignal \/ Work \/ Sleep \/ Spurious \/ TakePicture
         \/ GetBuffer \/ ReleaseFrame
  PROVE  Order'
<1>1. /\ UNCHANGED <<cur, pics, slot, ended, frames, shown, job, jobs, prev, vtasks>>
      /\ hpc' = "put" <=> hpc = "put"
  BY DEF Gate, HalStart, HalSignal, Work, Sleep, TakePicture, Spurious, GetBuffer, ReleaseFrame,
         halVars, parserVars, slotVars, vprocVars, taskVars, userVars, OwnInv, Stations
<1>2. /\ From' = From /\ (vpc = "second" <=> vpc' = "second")
      /\ vpc' = vpc \/ (vpc # "shift" /\ vpc' # "shift")
      /\ vpc' = vpc \/ (vpc # "clear" /\ vpc' # "clear")
      /\ vpc = "off" => prev = 0
  BY DEF Gate, HalStart, HalSignal, Work, Sleep, TakePicture, Spurious, GetBuffer, ReleaseFrame,
         vprocVars, From, On, OwnInv, RestInv, ThreadRests, Quiet
<1>3. vpc' = "buffer" => got' <= Needed
  <2>1. got \in Nat /\ Needed \in {1, 2}
    BY DEF OwnInv, SlotTypes, Needed
  <2>2. vpc = "work" => got = 0
    BY DEF OwnInv, RestInv, ThreadRests
  <2>3. CASE GetBuffer
    BY <2>1, <2>3 DEF GetBuffer
  <2>4. CASE TakePicture
    BY <2>1, <2>2, <2>4 DEF TakePicture, vprocVars
  <2>5. CASE \/ Gate \/ HalStart \/ HalSignal \/ Work \/ Sleep \/ Spurious \/ ReleaseFrame
    BY <2>5 DEF Gate, HalStart, HalSignal, Work, Sleep, Spurious, ReleaseFrame, vprocVars, Order, Window
  <2> QED BY <2>3, <2>4, <2>5
<1>4. Times' /\ LastTime' = LastTime /\ First' = First
      /\ \A t, u : Adjacent(t, u)' => Adjacent(t, u)
  BY <1>1, <1>2, TimesStay, QueuesStay DEF Order
<1>5. Tasked'
  BY <1>1, <1>4, SlotsSteady, TaskedStays DEF Order, Tasked
<1>6. EosFrames'
  BY <1>1, <1>2, <1>4, EosFramesStay DEF Order
<1>7. Window'
  <2>1. Needed' = Needed
    BY <1>1 DEF Needed
  <2>2. vpc' = "shift" => LastTime' = Key(vtasks[1])'
    BY <1>1, <1>2, <1>4 DEF Order, Window, Key
  <2> QED BY <1>1, <1>2, <1>3, <1>4, <2>1, <2>2 DEF Order, Window
<1> QED
  BY <1>1, <1>4, <1>5, <1>6, <1>7 DEF Order, Tasked

-----------------------------------------------------------------------------
\* push_display's clear takes the slot from nobody who waits with it.
LEMMA ClrSteady ==
  ASSUME OwnInv, HalClr
  PROVE  Steady /\ \A i \in 1..Slots : Mine(i) => slot'[i].pic = slot[i].pic
<1> USE DEF OwnInv
<1>1. IsPicture(job) /\ job.slot \in 1..Slots /\ slot[job.slot].use > 0
  BY HalClrTypes
<1>2. PICK s \in 1..Slots : s = job.slot
  BY <1>1
<1>3. hpc = "clr" /\ slot' = ClrUse(slot, s) /\ pics' = pics
  BY <1>2 DEF HalClr, parserVars
<1>4. \A j \in 1..Slots : j # s => slot'[j] = slot[j]
  BY <1>1, <1>2, <1>3, ClrUseTypes
<1>5. Sent(s) /\ ~Unsent(s)
  <2>1. Pushes(s)
    BY <1>1, <1>2, <1>3 DEF Pushes
  <2> QED BY <1>2, <1>3, <2>1, PlacesAre, ApartIs DEF ApartAll
<1>6. ASSUME Mine(s) PROVE slot'[s].pic = slot[s].pic
  <2>1. Waiting(s) \/ prev = s
    BY <1>5, <1>6 DEF Mine
  <2>2. slot[s].use > 1
    BY <1>5, <2>1 DEF Counted, Owners
  <2> QED BY <1>1, <1>2, <1>3, <2>2, ClrUseTypes
<1>7. \A i \in 1..Slots : Mine(i) => slot'[i].pic = slot[i].pic
  BY <1>4, <1>6
<1> QED
  BY <1>3, <1>7 DEF Steady, Waits, Mine

LEMMA HalClrOrdered ==
  ASSUME OwnInv, Order, SlotTypes', HalClr
  PROVE  Order'
<1>1. /\ UNCHANGED <<cur, pics, ended, frames, shown, job, jobs, vpc, prev, got, vtasks>>
      /\ hpc = "clr" /\ hpc' = "rest"
  BY DEF HalClr, parserVars, vprocVars, taskVars, userVars
<1>2. Steady /\ \A i \in 1..Slots : Mine(i) => slot'[i].pic = slot[i].pic
  BY ClrSteady
<1>3. /\ Times' /\ LastTime' = LastTime /\ First' = First
      /\ \A t, u : Adjacent(t, u)' => Adjacent(t, u)
  BY <1>1, TimesStay, QueuesStay DEF Order, From
<1>4. Tasked'
  BY <1>1, <1>2, <1>3, TaskedStays DEF Order, Tasked
<1>5. EosFrames'
  BY <1>1, <1>3, EosFramesStay DEF Order
<1>6. prev # 0 => slot'[prev].pic = slot[prev].pic
  <2>1. prev # 0 => prev \in 1..Slots /\ Mine(prev)
    BY DEF OwnInv, SlotTypes, Mine
  <2> QED BY <1>2, <2>1
<1>7. vpc = "shift" => Key(vtasks[1])' = Key(vtasks[1])
  <2> SUFFICES ASSUME vpc = "shift" PROVE Key(vtasks[1])' = Key(vtasks[1])
    OBVIOUS
  <2>1. vtasks # << >> /\ IsPicture(Head(vtasks))
    BY DEF OwnInv, Stations
  <2>2. 1 \in DOMAIN vtasks /\ Head(vtasks) = vtasks[1] /\ vtasks[1] \in Tasks
    BY <2>1, Advanced DEF OwnInv, SlotTypes
  <2>3. PICK i \in 1..Slots : i = vtasks[1].slot
    BY <2>1, <2>2, PictureSlot
  <2>4. Waiting(i)
    BY <2>1, <2>2, <2>3 DEF Waiting
  <2> QED BY <1>1, <1>2, <2>3, <2>4 DEF Mine, Key
<1>8. Window'
  <2>1. Needed' = Needed
    BY <1>1 DEF Needed
  <2> QED BY <1>1, <1>3, <1>6, <1>7, <2>1 DEF Order, Window
<1> QED
  BY <1>1, <1>3, <1>4, <1>5, <1>8 DEF Order, Tasked

\* The window lets go of a slot in which nobody waits.
LEMMA PrevSteady ==
  ASSUME OwnInv, ClrPrev, UNCHANGED pics
  PROVE  Steady
<1> USE DEF OwnInv
<1>1. CASE prev = 0
  BY <1>1 DEF Steady, ClrPrev, slotVars
<1>2. CASE prev # 0
  <2>1. PICK s \in 1..Slots : s = prev
    BY <1>2 DEF SlotTypes
  <2>2. slot[s].use > 0 /\ slot' = ClrUse(slot, s)
    BY <1>2, <2>1, OwnerHasUse DEF ClrPrev
  <2>3. \A j \in 1..Slots : j # s => slot'[j] = slot[j]
    BY <2>2, ClrUseTypes
  <2>4. ~Waits(s)
    BY <2>1, ApartIs DEF ApartAll, Waits
  <2> QED BY <2>3, <2>4 DEF Steady
<1> QED
  BY <1>1, <1>2

LEMMA ClearOrdered ==
  ASSUME OwnInv, Order, SlotTypes', Clear
  PROVE  Order'
<1>1. /\ UNCHANGED <<cur, pics, ended, frames, shown, job, jobs, hpc, vtasks>>
      /\ vpc = "clear" /\ vpc' = "idle" /\ prev' = 0
  BY DEF Clear, Emptied, parserVars, taskVars, userVars, halVars
<1>2. Steady
  BY <1>1, WindowTypes, PrevSteady DEF OwnInv
<1>3. /\ Times' /\ LastTime' = LastTime /\ First' = First
      /\ \A t, u : Adjacent(t, u)' => Adjacent(t, u)
  BY <1>1, TimesStay, QueuesStay DEF Order, From
<1>4. Tasked'
  BY <1>1, <1>2, <1>3, TaskedStays DEF Order, Tasked
<1>5. EosFrames'
  BY <1>1, <1>3, EosFramesStay DEF Order
<1>6. Window'
  BY <1>1 DEF Window
<1> QED
  BY <1>1, <1>3, <1>4, <1>5, <1>6 DEF Order, Tasked

LEMMA ShiftOrdered ==
  ASSUME OwnInv, Order, SlotTypes', Shift
  PROVE  Order'
<1>1. /\ UNCHANGED <<cur, pics, ended, frames, shown, job, jobs, hpc, vtasks>>
      /\ vpc = "shift" /\ vpc' \in {"clear", "idle"} /\ prev' = vtasks[1].slot
      /\ 1 \in DOMAIN vtasks /\ IsPicture(vtasks[1]) /\ vtasks[1].slot \in 1..Slots /\ ClrPrev
  BY ShiftTypes DEF Shift, parserVars, taskVars, userVars, halVars, OwnInv
<1>2. Steady
  BY <1>1, PrevSteady
<1>3. /\ Times' /\ LastTime' = LastTime /\ First' = First
      /\ \A t, u : Adjacent(t, u)' => Adjacent(t, u)
  BY <1>1, TimesStay, QueuesStay DEF Order, From
<1>4. Tasked'
  BY <1>1, <1>2, <1>3, TaskedStays DEF Order, Tasked
<1>5. EosFrames'
  BY <1>1, <1>3, EosFramesStay DEF Order
<1>6. PICK i \in 1..Slots : i = vtasks[1].slot
  BY <1>1
<1>7. slot'[i].pic = slot[i].pic /\ slot[i].pic \in Nat
  <2>1. Waiting(i)
    BY <1>1, <1>6 DEF Waiting
  <2> QED BY <1>2, <2>1 DEF Steady, Waits, OwnInv, SlotTypes
<1>8. LastTime' = 2 * slot'[i].pic + 0
  <2>1. LastTime = Key(vtasks[1])
    BY <1>1 DEF Order, Window
  <2> QED BY <1>1, <1>3, <1>6, <1>7, <2>1 DEF Key, IsPicture
<1>9. Window'
  BY <1>1, <1>6, <1>8 DEF Window
<1> QED
  BY <1>1, <1>3, <1>4, <1>5, <1>9 DEF Order, Tasked

-----------------------------------------------------------------------------
(* Steps that move a task from one queue to the next *)

\* What such a step leaves alone.
MovesOnly ==
    /\ UNCHANGED <<cur, pics, ended, frames, shown, vpc, prev, got>>
    /\ vtasks = << >> \/ vpc \notin {"second", "shift"} \/ vtasks'[1] = vtasks[1]

LEMMA MovesOrdered ==
  ASSUME OwnInv, Order, SlotTypes', Stations', MovesOnly, First' = First, Steady,
         \A i \in 1..Slots : slot'[i].pic = slot[i].pic,
         \A t, u : Adjacent(t, u)' => Adjacent(t, u)
  PROVE  Order'
<1> USE DEF MovesOnly
<1>1. Times' /\ LastTime' = LastTime
  BY TimesStay DEF Order
<1>2. Tasked'
  BY <1>1, TaskedStays DEF Order, Tasked
<1>3. vpc \in {"second", "shift"} => vtasks'[1] = vtasks[1]
  BY DEF OwnInv, Stations
<1>4. EosFrames'
  BY <1>3 DEF Order, EosFrames, Final
<1>5. vpc = "shift" => Key(vtasks[1])' = Key(vtasks[1])
  <2> SUFFICES ASSUME vpc = "shift" PROVE Key(vtasks[1])' = Key(vtasks[1])
    OBVIOUS
  <2>1. vtasks # << >> /\ IsPicture(Head(vtasks))
    BY DEF OwnInv, Stations
  <2>2. 1 \in DOMAIN vtasks /\ Head(vtasks) = vtasks[1] /\ vtasks[1] \in Tasks
    BY <2>1, Advanced DEF OwnInv, SlotTypes
  <2>3. vtasks[1].slot \in 1..Slots
    BY <2>1, <2>2, PictureSlot
  <2> QED BY <1>3, <2>3 DEF Key
<1>6. prev # 0 => slot'[prev].pic = slot[prev].pic
  BY DEF OwnInv, SlotTypes
<1>7. Window'
  BY <1>1, <1>5, <1>6 DEF Order, Window, Needed
<1> QED
  BY <1>1, <1>2, <1>4, <1>7 DEF Order, Tasked

\* The hal thread takes its next task.
LEMMA HalTakeOrdered ==
  ASSUME OwnInv, Order, SlotTypes', Stations', HalTake
  PROVE  Order'
<1> USE DEF OwnInv
<1>1. /\ UNCHANGED <<cur, pics, slot, ended, frames, shown, vpc, prev, got, vtasks>>
      /\ hpc = "rest" /\ hpc' = "put" /\ jobs # << >> /\ jobs' = Tail(jobs) /\ job' = jobs[1]
  BY Advanced DEF HalTake, parserVars, slotVars, vprocVars, taskVars, userVars, SlotTypes
<1>2. /\ 1 \in DOMAIN jobs /\ DOMAIN jobs \subseteq Nat \ {0}
      /\ \A k \in Nat \ {0} : k \in DOMAIN jobs' <=> k + 1 \in DOMAIN jobs
      /\ \A k \in DOMAIN jobs' : jobs'[k] = jobs[k + 1] /\ k \in Nat \ {0}
  BY <1>1, Advanced DEF SlotTypes
<1>3. jobs' # << >> <=> 2 \in DOMAIN jobs
  <2>1. jobs' # << >> <=> 1 \in DOMAIN jobs'
    BY Advanced, EmptySeq DEF SlotTypes
  <2> QED BY <1>2, <2>1
<1>4. AfterTasks' = AfterTasks /\ From' = From
  BY <1>1 DEF AfterTasks, AfterJob, From
<1>5. AfterJob' = Follower(jobs, 1, cur)
  <2>1. jobs' # << >> => jobs'[1] = jobs[2]
    BY <1>2, <1>3
  <2> QED BY <1>1, <1>3, <2>1 DEF AfterJob, Follower
<1>6. ASSUME NEW t, NEW u, Adjacent(t, u)' PROVE Adjacent(t, u)
  <2>1. CASE \E k \in DOMAIN jobs' : t = jobs'[k] /\ u = Follower(jobs, k, cur)'
    <3>1. PICK k \in DOMAIN jobs' : t = jobs'[k] /\ u = Follower(jobs, k, cur)'
      BY <2>1
    <3>2. /\ k \in Nat \ {0} /\ k + 1 \in DOMAIN jobs /\ t = jobs[k + 1]
          /\ k + 1 \in DOMAIN jobs' <=> (k + 1) + 1 \in DOMAIN jobs
      BY <1>2, <3>1
    <3>3. u = Follower(jobs, k + 1, cur)
      BY <1>1, <1>2, <3>1, <3>2 DEF Follower
    <3> QED BY <3>2, <3>3 DEF Adjacent
  <2>2. CASE t = job' /\ u = AfterJob'
    BY <1>1, <1>2, <1>5, <2>2 DEF Adjacent
  <2>3. CASE \E k \in DOMAIN vtasks' : k >= From' /\ t = vtasks'[k] /\ u = Follower(vtasks, k, AfterTasks)'
    BY <1>1, <1>4, <2>3 DEF Adjacent, Follower
  <2> QED BY <1>6, <2>1, <2>2, <2>3 DEF Adjacent
<1>7. First' = First
  BY <1>1, <1>4 DEF First
<1>8. MovesOnly /\ Steady
  BY <1>1 DEF MovesOnly, Steady
<1> QED
  BY <1>1, <1>6, <1>7, <1>8, MovesOrdered

\* The hal thread gives its task to the post-processing.
Gave == vtasks' = Append(vtasks, job) /\ job \in Tasks
LEMMA GaveOrdered ==
  ASSUME OwnInv, Order, SlotTypes', Stations', Gave, hpc = "put", hpc' # "put",
         \A i \in 1..Slots : slot'[i].pic = slot[i].pic,
         UNCHANGED <<cur, pics, ended, frames, shown, vpc, prev, got, jobs, job>>
  PROVE  Order'
<1> USE DEF OwnInv
<1>1. /\ Len(vtasks) \in Nat /\ DOMAIN vtasks = 1..Len(vtasks) /\ DOMAIN vtasks' = 1..(Len(vtasks) + 1)
      /\ \A k \in DOMAIN vtasks : vtasks'[k] = vtasks[k]
      /\ vtasks'[Len(vtasks) + 1] = job
  BY DEF Gave, SlotTypes
<1>2. /\ AfterTasks = job /\ AfterTasks' = AfterJob /\ AfterJob' = AfterJob
      /\ From' = From /\ From \in {1, 2}
  BY DEF AfterTasks, AfterJob, From
<1>3. From <= Len(vtasks) + 1
  <2>1. From = 2 => vtasks # << >>
    BY DEF From, Stations
  <2>2. vtasks # << >> => Len(vtasks) >= 1
    BY <1>1, EmptySeq DEF SlotTypes
  <2> QED BY <1>1, <1>2, <2>1, <2>2
<1>4. ASSUME NEW t, NEW u, Adjacent(t, u)' PROVE Adjacent(t, u)
  <2>1. CASE \E k \in DOMAIN jobs' : t = jobs'[k] /\ u = Follower(jobs, k, cur)'
    BY <2>1 DEF Adjacent, Follower
  <2>2. CASE \E k \in DOMAIN vtasks' : k >= From' /\ t = vtasks'[k] /\ u = Follower(vtasks, k, AfterTasks)'
    <3>1. PICK k \in DOMAIN vtasks' : k >= From' /\ t = vtasks'[k] /\ u = Follower(vtasks, k, AfterTasks)'
      BY <2>2
    <3>2. CASE k = Len(vtasks) + 1
      <4>1. t = job /\ u = AfterJob
        BY <1>1, <1>2, <3>1, <3>2 DEF Follower
      <4> QED BY <4>1 DEF Adjacent
    <3>3. CASE k = Len(vtasks)
      <4>1. k \in DOMAIN vtasks /\ t = vtasks[k] /\ u = job
        BY <1>1, <3>1, <3>3 DEF Follower
      <4>2. Follower(vtasks, k, AfterTasks) = job
        BY <1>1, <1>2, <3>3 DEF Follower
      <4> QED BY <1>2, <3>1, <4>1, <4>2 DEF Adjacent
    <3>4. CASE k < Len(vtasks)
      <4>1. k \in DOMAIN vtasks /\ k + 1 \in DOMAIN vtasks /\ t = vtasks[k] /\ u = vtasks[k + 1]
        BY <1>1, <3>1, <3>4 DEF Follower
      <4>2. Follower(vtasks, k, AfterTasks) = u
        BY <4>1 DEF Follower
      <4> QED BY <1>2, <3>1, <4>1, <4>2 DEF Adjacent
    <3> QED BY <1>1, <3>1, <3>2, <3>3, <3>4
  <2> QED BY <1>4, <2>1, <2>2 DEF Adjacent
<1>5. First' = First
  <2>1. CASE From \in DOMAIN vtasks
    BY <1>1, <1>2, <2>1 DEF First
  <2>2. CASE From \notin DOMAIN vtasks
    <3>1. From = Len(vtasks) + 1
      BY <1>1, <1>2, <1>3, <2>2
    <3> QED BY <1>1, <1>2, <3>1 DEF First
  <2> QED BY <2>1, <2>2
<1>6. MovesOnly /\ Steady
  <2>1. vtasks # << >> => 1 \in DOMAIN vtasks
    BY Advanced DEF SlotTypes
  <2>2. vtasks # << >> => vtasks'[1] = vtasks[1]
    BY <1>1, <2>1
  <2> QED BY <2>2 DEF MovesOnly, Steady
<1> QED
  BY <1>4, <1>5, <1>6, MovesOrdered

LEMMA HalPutOrdered ==
  ASSUME OwnInv, Order, SlotTypes', Stations', HalPut
  PROVE  Order'
<1>1. /\ UNCHANGED <<cur, pics, ended, frames, shown, vpc, prev, got, jobs, job>>
      /\ hpc = "put" /\ hpc' # "put" /\ vtasks' = Append(vtasks, job)
      /\ slot' = IF IsPicture(job) THEN Queued(slot, job.slot) ELSE slot
  BY DEF HalPut, parserVars, vprocVars, userVars
<1>2. job \in Tasks
  BY <1>1 DEF OwnInv, SlotTypes, Stations
<1>3. \A i \in 1..Slots : slot'[i].pic = slot[i].pic
  BY <1>1 DEF Queued, OwnInv, SlotTypes
<1> QED
  BY <1>1, <1>2, <1>3, GaveOrdered DEF Gave

\* The thread is done with its first task.
LEMMA IdleOrdered ==
  ASSUME OwnInv, Order, SlotTypes', Stations', Idle
  PROVE  Order'
<1> USE DEF OwnInv
<1>1. /\ UNCHANGED <<cur, pics, slot, ended, frames, shown, prev, got, jobs, job, hpc>>
      /\ vpc = "idle" /\ vpc' = "test" /\ vtasks # << >> /\ vtasks' = Tail(vtasks)
  BY IdleTypes DEF Idle, parserVars, slotVars, halVars, userVars
<1>2. /\ \A k \in Nat \ {0} : k \in DOMAIN vtasks' <=> k + 1 \in DOMAIN vtasks
      /\ \A k \in DOMAIN vtasks' : vtasks'[k] = vtasks[k + 1] /\ k \in Nat \ {0}
  BY <1>1, Advanced DEF SlotTypes
<1>3. From = 2 /\ From' = 1 /\ AfterTasks' = AfterTasks
  BY <1>1 DEF From, AfterTasks, AfterJob
<1>4. ASSUME NEW t, NEW u, Adjacent(t, u)' PROVE Adjacent(t, u)
  <2>1. CASE (\E k \in DOMAIN jobs' : t = jobs'[k] /\ u = Follower(jobs, k, cur)')
             \/ (hpc' = "put" /\ t = job' /\ u = AfterJob')
    BY <1>1, <2>1 DEF Adjacent, Follower, AfterJob
  <2>2. CASE \E k \in DOMAIN vtasks' : k >= From' /\ t = vtasks'[k] /\ u = Follower(vtasks, k, AfterTasks)'
    <3>1. PICK k \in DOMAIN vtasks' : t = vtasks'[k] /\ u = Follower(vtasks, k, AfterTasks)'
      BY <2>2
    <3>2. /\ k \in Nat \ {0} /\ k + 1 \in DOMAIN vtasks /\ t = vtasks[k + 1] /\ k + 1 >= From
          /\ k + 1 \in DOMAIN vtasks' <=> (k + 1) + 1 \in DOMAIN vtasks
      BY <1>2, <1>3, <3>1
    <3>3. u = Follower(vtasks, k + 1, AfterTasks)
      BY <1>2, <1>3, <3>1, <3>2 DEF Follower
    <3> QED BY <3>2, <3>3 DEF Adjacent
  <2> QED BY <1>4, <2>1, <2>2 DEF Adjacent
<1>5. First' = First
  <2>1. 1 \in DOMAIN vtasks' <=> 2 \in DOMAIN vtasks
    BY <1>2
  <2>2. 1 \in DOMAIN vtasks' => vtasks'[1] = vtasks[2]
    BY <1>2
  <2> QED BY <1>3, <2>1, <2>2 DEF First
<1>6. Steady
  BY <1>1 DEF Steady
<1>7. Times' /\ LastTime' = LastTime
  BY <1>1, TimesStay DEF Order
<1>8. Tasked'
  BY <1>1, <1>4, <1>5, <1>6, <1>7, TaskedStays DEF Order, Tasked
<1>9. EosFrames'
  BY <1>1, <1>5 DEF Order, EosFrames
<1>10. Window'
  BY <1>1, <1>7 DEF Order, Window
<1> QED
  BY <1>1, <1>7, <1>8, <1>9, <1>10 DEF Order, Tasked

\* The application takes a frame.
LEMMA TakeFrameOrdered ==
  ASSUME OwnInv, Order, SlotTypes', TakeFrame
  PROVE  Order'
<1> USE DEF OwnInv
<1>1. /\ UNCHANGED <<cur, pics, slot, ended, prev, got, jobs, job, hpc, vtasks, vpc>>
      /\ frames # << >> /\ frames' = Tail(frames) /\ shown' = frames[1].pts
  BY Advanced DEF TakeFrame, parserVars, slotVars, halVars, vprocVars, taskVars, SlotTypes
<1>2. /\ Len(frames) \in Nat \ {0} /\ Len(frames') = Len(frames) - 1
      /\ DOMAIN frames = 1..Len(frames) /\ DOMAIN frames' = 1..(Len(frames) - 1)
      /\ \A k \in DOMAIN frames' : frames'[k] = frames[k + 1]
      /\ \A k \in DOMAIN frames : frames[k] \in Frames
  <2>1. Len(frames) \in Nat \ {0} /\ DOMAIN frames = 1..Len(frames)
    BY <1>1, EmptySeq DEF SlotTypes
  <2>2. /\ frames' \in Seq(Frames) /\ Len(frames') = Len(frames) - 1
        /\ \A k \in 1..Len(frames') : frames'[k] = frames[k + 1]
    BY <1>1, HeadTailProperties DEF SlotTypes
  <2>3. DOMAIN frames' = 1..Len(frames')
    BY <2>2
  <2> QED BY <2>1, <2>2, <2>3, Member DEF SlotTypes
<1>3. LastTime' = LastTime
  <2>1. CASE Len(frames) = 1
    <3>1. frames' = << >>
      BY <1>2, <2>1, EmptySeq DEF SlotTypes
    <3> QED BY <1>1, <2>1, <3>1 DEF LastTime
  <2>2. CASE Len(frames) > 1
    <3>1. frames' # << >> /\ frames'[Len(frames')] = frames[Len(frames)]
      BY <1>2, <2>2
    <3> QED BY <1>1, <3>1 DEF LastTime
  <2> QED BY <1>2, <2>1, <2>2
<1>4. First' = First /\ \A t, u : Adjacent(t, u)' => Adjacent(t, u)
  BY <1>1, QueuesStay DEF From
<1>5. Tasked'
  BY <1>1, <1>3, <1>4, SlotsSteady, TaskedStays DEF Order, Tasked
<1>6. EosFrames'
  BY <1>1, <1>2, <1>4 DEF Order, EosFrames
<1>7. Window'
  BY <1>1, <1>3 DEF Order, Window, Needed, Key
<1>8. Times'
  <2>1. ASSUME NEW k \in DOMAIN frames' PROVE frames'[k].pts - Before(k)' \in {1, 2}
    <3>1. k + 1 \in DOMAIN frames /\ frames'[k] = frames[k + 1] /\ k \in Nat \ {0} /\ k + 1 # 1
      BY <1>2, <2>1
    <3>2. Before(k)' = Before(k + 1)
      <4>1. CASE k = 1
        BY <1>1, <4>1 DEF Before
      <4>2. CASE k # 1
        <5>1. frames'[k - 1] = frames[k]
          BY <1>2, <2>1, <4>2
        <5> QED BY <3>1, <4>2, <5>1 DEF Before
      <4> QED BY <4>1, <4>2
    <3> QED BY <3>1, <3>2 DEF Order, Times
  <2>2. ASSUME NEW k \in DOMAIN frames', frames'[k].eos, k + 1 \in DOMAIN frames'
        PROVE  /\ frames'[k + 1].eos /\ k + 1 = Len(frames')
               /\ frames'[k + 1].pts = frames'[k].pts + 1
    <3>1. /\ k + 1 \in DOMAIN frames /\ frames'[k] = frames[k + 1] /\ (k + 1) + 1 \in DOMAIN frames
          /\ frames'[k + 1] = frames[(k + 1) + 1]
      BY <1>2, <2>2
    <3> QED BY <1>2, <2>2, <3>1 DEF Order, Times
  <2> QED BY <2>1, <2>2 DEF Times
<1>9. shown' \in Int
  BY <1>1, <1>2 DEF Frames
<1> QED
  BY <1>5, <1>6, <1>7, <1>8, <1>9 DEF Order, Tasked

LEMMA LastTimeInt ==
  ASSUME SlotTypes, shown \in Int
  PROVE  LastTime \in Int /\ pics \in Nat
<1>1. CASE frames = << >>
  BY <1>1 DEF LastTime, SlotTypes
<1>2. CASE frames # << >>
  <2>1. Len(frames) \in DOMAIN frames
    BY <1>2, EmptySeq DEF SlotTypes
  <2>2. frames[Len(frames)] \in Frames
    BY <2>1, Member DEF SlotTypes
  <2> QED BY <1>2, <2>2 DEF LastTime, Frames, SlotTypes
<1> QED
  BY <1>1, <1>2

\* A task that has the end of the stream behind it is the last picture.
LEMMA BeforeEos ==
  ASSUME SlotTypes, NEW t \in Tasks, NEW u, u.kind = "eos"
  PROVE  /\ Joined(t, u) => Ends(t)
         /\ Ends(t) /\ ~ended => Joined(t, u)
<1>1. u # NoTask /\ ~IsPicture(u) /\ Key(u) = 2 * pics + 1 /\ pics \in Nat
  BY DEF NoTask, IsPicture, Key, SlotTypes
<1>2. CASE IsPicture(t)
  <2>1. t.slot \in 1..Slots
    BY <1>2, PictureSlot
  <2>2. slot[t.slot].pic \in Nat /\ Key(t) = 2 * slot[t.slot].pic /\ t.kind # "change"
    BY <1>2, <2>1 DEF SlotTypes, Key, IsPicture
  <2>3. Joined(t, u) <=> ~Final(t) /\ slot[t.slot].pic = pics
    BY <1>1, <2>2 DEF Joined, Rises
  <2> QED BY <1>2, <2>2, <2>3 DEF Ends
<1>3. CASE ~IsPicture(t)
  <2>1. t.kind \in {"change", "eos"}
    BY <1>3 DEF Tasks, Pictures, IsPicture
  <2> QED BY <1>1, <2>1 DEF Joined, Ends, Final
<1> QED
  BY <1>2, <1>3

\* The end of the stream, without a handle: it is dropped.
LEMMA DroppedOrdered ==
  ASSUME OwnInv, Order, SlotTypes', HalPutEos, UNCHANGED vtasks
  PROVE  Order'
<1> USE DEF OwnInv
<1>1. /\ UNCHANGED <<cur, pics, slot, ended, frames, shown, vpc, prev, got, jobs, job>>
      /\ hpc = "put" /\ hpc' = "signal" /\ job.kind = "eos" /\ job # NoTask
  BY DEF HalPutEos, parserVars, slotVars, vprocVars, userVars, Stations
<1>2. AfterJob = NoTask /\ ended
  BY <1>1 DEF Order, JobJoined, Joined, Final, Ends
<1>3. jobs = << >> /\ cur = NoTask
  <2>1. jobs # << >> => jobs[1] \in Tasks /\ NoTask \notin Tasks
    BY Advanced, Member DEF SlotTypes, NoTask, Tasks, Pictures
  <2> QED BY <1>2, <2>1 DEF AfterJob
<1>4. From' = From /\ AfterTasks = job /\ AfterTasks' = NoTask
  BY <1>1, <1>3 DEF From, AfterTasks, AfterJob
<1>5. LastTime' = LastTime /\ Times' /\ Window'
  BY <1>1, TimesStay DEF Order, Window, Needed, Key
<1>6. EosFrames'
  BY <1>1, <1>4 DEF Order, EosFrames, First, Final
<1>7. Starts'
  <2>1. CASE From \in DOMAIN vtasks
    BY <1>1, <1>4, <1>5, <2>1 DEF Order, Starts, First, Rises, Key
  <2>2. CASE From \notin DOMAIN vtasks
    <3>1. First = job /\ First' = NoTask
      BY <1>4, <2>2 DEF First
    <3>2. 2 * pics + 1 = LastTime + 1
      BY <1>1, <3>1 DEF Order, Starts, Rises, Key, IsPicture
    <3>3. LastTime \in Int /\ pics \in Nat
      BY LastTimeInt DEF Order
    <3> QED BY <1>1, <1>5, <3>1, <3>2, <3>3 DEF Starts
  <2> QED BY <2>1, <2>2
<1>8. JobsJoined' /\ JobJoined' /\ Newest'
  BY <1>1, <1>3 DEF JobsJoined, JobJoined, Newest
<1>9. TasksJoined'
  <2> SUFFICES ASSUME NEW k \in DOMAIN vtasks, k >= From
               PROVE  Joined(vtasks[k], Follower(vtasks, k, AfterTasks))'
    BY <1>4 DEF TasksJoined
  <2>1. vtasks[k] \in Tasks /\ Joined(vtasks[k], Follower(vtasks, k, AfterTasks))
    BY Member DEF Order, TasksJoined, SlotTypes
  <2>2. CASE k + 1 \in DOMAIN vtasks
    BY <1>1, <2>1, <2>2 DEF Follower, Joined, Ends, Rises, Key
  <2>3. CASE k + 1 \notin DOMAIN vtasks
    <3>1. Follower(vtasks, k, AfterTasks)' = NoTask /\ Follower(vtasks, k, AfterTasks) = job
      BY <1>4, <2>3 DEF Follower
    <3>2. Ends(vtasks[k])
      BY <1>1, <2>1, <3>1, BeforeEos
    <3> QED BY <1>1, <3>1, <3>2 DEF Joined, Ends
  <2> QED BY <2>2, <2>3
<1> QED
  BY <1>1, <1>5, <1>6, <1>7, <1>8, <1>9 DEF Order

LEMMA HalPutEosOrdered ==
  ASSUME OwnInv, Order, SlotTypes', Stations', HalPutEos
  PROVE  Order'
<1>1. CASE UNCHANGED vtasks
  BY <1>1, DroppedOrdered
<1>2. CASE vtasks' = Append(vtasks, job)
  <2>1. /\ UNCHANGED <<cur, pics, slot, ended, frames, shown, vpc, prev, got, jobs, job>>
        /\ hpc = "put" /\ hpc' # "put" /\ job \in Tasks
    BY DEF HalPutEos, parserVars, slotVars, vprocVars, userVars, OwnInv, SlotTypes, Stations
  <2> QED BY <1>2, <2>1, GaveOrdered DEF Gave
<1> QED
  BY <1>1, <1>2 DEF HalPutEos

-----------------------------------------------------------------------------
(* Steps of the parser thread *)

\* A task goes to the hal thread: it comes behind what has had the parser's task
\* behind it.
LEMMA NewPairs ==
  ASSUME SlotTypes, Stations, NEW x \in Tasks, jobs' = Append(jobs, x), UNCHANGED <<hpc, job, vpc, vtasks>>
  PROVE  /\ \A t, u : Adjacent(t, u)' =>
              \/ Adjacent(t, u) /\ u # NoTask
              \/ Adjacent(t, cur) /\ u = x
              \/ t = x /\ u = cur'
         /\ (First' = First /\ First # NoTask) \/ (First = cur /\ First' = x)
<1>1. /\ Len(jobs) \in Nat /\ DOMAIN jobs = 1..Len(jobs) /\ DOMAIN jobs' = 1..(Len(jobs) + 1)
      /\ \A k \in DOMAIN jobs : jobs'[k] = jobs[k] /\ jobs[k] \in Tasks
      /\ jobs'[Len(jobs) + 1] = x /\ jobs' # << >>
      /\ jobs # << >> <=> Len(jobs) >= 1
  BY Appended, EmptySeq, Member DEF SlotTypes
<1>2. NoTask \notin Tasks
  BY DEF NoTask, Tasks, Pictures
<1>3. (AfterJob' = AfterJob /\ AfterJob \in Tasks) \/ (AfterJob = cur /\ AfterJob' = x)
  <2>1. CASE jobs = << >>
    BY <1>1, <2>1 DEF AfterJob
  <2>2. CASE jobs # << >>
    <3>1. 1 \in DOMAIN jobs
      BY <1>1, <2>2
    <3>2. jobs'[1] = jobs[1] /\ jobs[1] \in Tasks
      BY <1>1, <3>1
    <3> QED BY <1>1, <2>2, <3>2 DEF AfterJob
  <2> QED BY <2>1, <2>2
<1>4. (AfterTasks' = AfterTasks /\ AfterTasks \in Tasks) \/ (AfterTasks = cur /\ AfterTasks' = x)
  <2>1. hpc = "put" => job \in Tasks
    BY DEF SlotTypes, Stations
  <2> QED BY <1>3, <2>1 DEF AfterTasks
<1>5. (First' = First /\ First # NoTask) \/ (First = cur /\ First' = x)
  <2>1. \A k \in DOMAIN vtasks : vtasks[k] # NoTask
    BY <1>2, Member DEF SlotTypes
  <2>2. From' = From
    BY DEF From
  <2> QED BY <1>2, <1>4, <2>1, <2>2 DEF First
<1>6. ASSUME NEW t, NEW u, Adjacent(t, u)'
      PROVE  \/ Adjacent(t, u) /\ u # NoTask
             \/ Adjacent(t, cur) /\ u = x
             \/ t = x /\ u = cur'
  <2>1. CASE \E k \in DOMAIN jobs' : t = jobs'[k] /\ u = Follower(jobs, k, cur)'
    <3>1. PICK k \in DOMAIN jobs' : t = jobs'[k] /\ u = Follower(jobs, k, cur)'
      BY <2>1
    <3>2. CASE k = Len(jobs) + 1
      BY <1>1, <3>1, <3>2 DEF Follower
    <3>3. CASE k = Len(jobs)
      <4>1. k \in DOMAIN jobs /\ t = jobs[k] /\ u = x /\ Follower(jobs, k, cur) = cur
        BY <1>1, <3>1, <3>3 DEF Follower
      <4> QED BY <4>1 DEF Adjacent
    <3>4. CASE k < Len(jobs)
      <4>1. k \in DOMAIN jobs /\ t = jobs[k] /\ u = jobs[k + 1] /\ k + 1 \in DOMAIN jobs
        BY <1>1, <3>1, <3>4 DEF Follower
      <4>2. u = Follower(jobs, k, cur) /\ u # NoTask
        BY <1>1, <1>2, <4>1 DEF Follower
      <4> QED BY <4>1, <4>2 DEF Adjacent
    <3> QED BY <1>1, <3>1, <3>2, <3>3, <3>4
  <2>2. CASE hpc' = "put" /\ t = job' /\ u = AfterJob'
    BY <1>2, <1>3, <2>2 DEF Adjacent
  <2>3. CASE \E k \in DOMAIN vtasks' : k >= From' /\ t = vtasks'[k] /\ u = Follower(vtasks, k, AfterTasks)'
    <3>1. PICK k \in DOMAIN vtasks : k >= From /\ t = vtasks[k] /\ u = Follower(vtasks, k, AfterTasks)'
      BY <2>3 DEF From
    <3>2. CASE k + 1 \in DOMAIN vtasks
      <4>1. u = Follower(vtasks, k, AfterTasks) /\ u # NoTask
        BY <1>2, <3>1, <3>2, Member DEF Follower, SlotTypes
      <4> QED BY <3>1, <4>1 DEF Adjacent
    <3>3. CASE k + 1 \notin DOMAIN vtasks
      <4>1. u = AfterTasks' /\ Follower(vtasks, k, AfterTasks) = AfterTasks
        BY <3>1, <3>3 DEF Follower
      <4>2. Adjacent(t, AfterTasks)
        BY <3>1, <4>1 DEF Adjacent
      <4> QED BY <1>2, <1>4, <4>1, <4>2
    <3> QED BY <3>2, <3>3
  <2> QED BY <1>6, <2>1, <2>2, <2>3 DEF Adjacent
<1> QED
  BY <1>5, <1>6

\* The picture that has got its buffer is sent.
LEMMA GotOrdered ==
  ASSUME OwnInv, Order, SlotTypes', NEW t \in Pictures, Got(t),
         ended' = (t.kind = "last"), UNCHANGED shown
  PROVE  Order'
<1> USE DEF OwnInv
<1>1. /\ UNCHANGED <<pics, hpc, job, vpc, prev, got, vtasks, frames>>
      /\ jobs' = Append(jobs, t) /\ cur = t /\ cur' = NoTask
      /\ slot' = [slot EXCEPT ![t.slot].buf = TRUE]
  BY DEF Got
<1>2. t \in Tasks /\ t # NoTask /\ t.slot \in 1..Slots /\ t.kind \in {"pic", "last"}
  BY DEF Tasks, Pictures, NoTask
<1>3. \A i \in 1..Slots : slot'[i].pic = slot[i].pic
  BY <1>1, <1>2 DEF SlotTypes
<1>4. Steady
  BY <1>1, <1>3 DEF Steady
<1>5. slot[t.slot].pic = pics /\ ~ended
  BY <1>1, <1>2 DEF Order, Newest
<1>6. First' = First /\ First # NoTask
  BY <1>1, <1>2, NewPairs
<1>7. Times' /\ LastTime' = LastTime
  BY <1>1, TimesStay DEF Order
<1>8. JobsJoined' /\ JobJoined' /\ TasksJoined'
  <2> SUFFICES ASSUME NEW v, NEW u, Adjacent(v, u)' PROVE Joined(v, u)'
    BY AllWillJoin
  <2>1. Adjacent(v, u) \/ (v = t /\ u = NoTask)
    BY <1>1, <1>2, NewPairs
  <2>2. ended => ended'
    BY <1>5
  <2>3. CASE Adjacent(v, u)
    BY <1>4, <2>2, <2>3, JoinedStays DEF Order
  <2>4. CASE v = t /\ u = NoTask
    BY <1>1, <1>2, <1>3, <1>5, <2>4 DEF Joined, Ends, Final
  <2> QED BY <2>1, <2>3, <2>4
<1>9. Starts'
  <2>1. Key(First)' = Key(First)
    BY <1>4, <1>6, FirstPending, KeyStays DEF Order
  <2> QED BY <1>6, <1>7, <2>1 DEF Order, Starts, Rises, IsPicture
<1>10. Newest'
  BY <1>1 DEF Newest
<1>11. EosFrames'
  BY <1>1, <1>5 DEF Order, EosFrames
<1>12. Window'
  <2>1. prev # 0 => slot'[prev].pic = slot[prev].pic
    BY <1>3 DEF SlotTypes
  <2>2. vpc = "shift" => Key(vtasks[1])' = Key(vtasks[1])
    <3>1. vpc = "shift" => 1 \in DOMAIN vtasks /\ vtasks[1] \in Tasks /\ IsPicture(vtasks[1])
      BY Advanced DEF Stations, SlotTypes
    <3> QED BY <1>1, <1>3, <3>1, PictureSlot DEF Key
  <2> QED BY <1>1, <1>7, <2>1, <2>2 DEF Order, Window, Needed
<1> QED
  BY <1>1, <1>7, <1>8, <1>9, <1>10, <1>11, <1>12 DEF Order

LEMMA GetOrdered ==
  ASSUME OwnInv, Order, SlotTypes', Stations', Get
  PROVE  Order'
<1> USE DEF OwnInv
<1>1. UNCHANGED shown
  BY DEF Get, userVars
<1>2. CASE UnusedBuffers > 0
  <2>1. PICK t \in Pictures : t = cur
    BY DEF SlotTypes, Stations, Get
  <2>2. Got(t) /\ ended' = (t.kind = "last")
    BY <1>2, <2>1 DEF Got, Get, vprocVars, taskVars, userVars
  <2> QED BY <1>1, <2>2, GotOrdered
<1>3. CASE ~(UnusedBuffers > 0)
  <2>1. UNCHANGED <<cur, pics, slot, ended, frames, shown, job, jobs, hpc, vpc, prev, got, vtasks>>
    BY <1>3 DEF Get, vprocVars, taskVars, userVars
  <2>2. First' = First /\ (\A t, u : Adjacent(t, u)' => Adjacent(t, u))
    BY <2>1, QueuesStay DEF From
  <2>3. MovesOnly /\ Steady
    BY <2>1 DEF MovesOnly, Steady
  <2> QED BY <2>1, <2>2, <2>3, MovesOrdered
<1> QED
  BY <1>2, <1>3

\* The stream ends without a picture.
LEMMA ParseEosOrdered ==
  ASSUME OwnInv, Order, SlotTypes', ParseEos
  PROVE  Order'
<1> USE DEF OwnInv
<1> DEFINE x == [kind |-> "eos", slot |-> 0]
<1>1. /\ UNCHANGED <<pics, slot, hpc, job, vpc, prev, got, vtasks, frames, shown, cur>>
      /\ jobs' = Append(jobs, x) /\ cur = NoTask /\ ~ended /\ ended'
  BY DEF ParseEos, Stations, slotVars, vprocVars, taskVars, userVars
<1>2. x \in Tasks /\ x # NoTask /\ x.kind = "eos" /\ x.kind # "change" /\ ~IsPicture(x)
  BY DEF Tasks, NoTask, IsPicture
<1> HIDE DEF x
<1>3. Times' /\ LastTime' = LastTime /\ LastTime \in Int /\ pics \in Nat
  BY <1>1, TimesStay, LastTimeInt DEF Order
<1>4. Steady
  BY <1>1 DEF Steady
<1>5. JobsJoined' /\ JobJoined' /\ TasksJoined'
  <2> SUFFICES ASSUME NEW t, NEW u, Adjacent(t, u)' PROVE Joined(t, u)'
    BY AllWillJoin
  <2>1. Adjacent(t, u) \/ (Adjacent(t, NoTask) /\ u = x) \/ (t = x /\ u = NoTask)
    BY <1>1, <1>2, NewPairs
  <2>2. CASE Adjacent(t, u)
    BY <1>1, <1>4, <2>2, JoinedStays DEF Order
  <2>3. CASE Adjacent(t, NoTask) /\ u = x
    <3>1. t \in Tasks /\ Joined(t, NoTask)
      BY <2>3, AllJoined, AdjacentPending, PendingTask DEF Order
    <3>2. Joined(t, x)
      BY <1>1, <1>2, <3>1, BeforeEos DEF Joined
    <3> QED BY <1>1, <1>2, <2>3, <3>2 DEF Joined, Final, Rises, Key
  <2>4. CASE t = x /\ u = NoTask
    BY <1>1, <1>2, <2>4 DEF Joined, Ends
  <2> QED BY <2>1, <2>2, <2>3, <2>4
<1>6. Starts'
  <2>1. CASE First' = First /\ First # NoTask
    BY <1>1, <1>3, <2>1 DEF Order, Starts, Rises, Key
  <2>2. CASE First = NoTask /\ First' = x
    <3>1. LastTime = 2 * pics
      BY <1>1, <2>2 DEF Order, Starts
    <3>2. Key(x)' = LastTime + 1
      BY <1>1, <1>2, <1>3, <3>1 DEF Key
    <3> QED BY <1>2, <1>3, <2>2, <3>2 DEF Starts, Rises
  <2> QED BY <1>1, <1>2, <2>1, <2>2, NewPairs
<1>7. Newest' /\ EosFrames'
  BY <1>1 DEF Newest, Order, EosFrames
<1>8. Window'
  BY <1>1, <1>3 DEF Order, Window, Needed, Key
<1> QED
  BY <1>1, <1>3, <1>5, <1>6, <1>7, <1>8 DEF Order

\* The parser has another task: it comes behind what has had the old one behind it.
LEMMA OtherPairs ==
  ASSUME SlotTypes, Stations, UNCHANGED <<jobs, hpc, job, vpc, vtasks>>
  PROVE  /\ \A t, u : Adjacent(t, u)' =>
              \/ Adjacent(t, u) /\ u # NoTask
              \/ Adjacent(t, cur) /\ u = cur'
         /\ (First' = First /\ First # NoTask) \/ (First = cur /\ First' = cur')
<1>1. /\ \A k \in DOMAIN jobs : jobs[k] # NoTask
      /\ \A k \in DOMAIN vtasks : vtasks[k] # NoTask
  BY Member DEF SlotTypes, NoTask, Tasks, Pictures
<1>2. (AfterJob' = AfterJob /\ AfterJob # NoTask) \/ (AfterJob = cur /\ AfterJob' = cur')
  <2>1. jobs # << >> => 1 \in DOMAIN jobs
    BY Advanced DEF SlotTypes
  <2> QED BY <1>1, <2>1 DEF AfterJob
<1>3. (AfterTasks' = AfterTasks /\ AfterTasks # NoTask) \/ (AfterTasks = cur /\ AfterTasks' = cur')
  BY <1>2 DEF AfterTasks, Stations
<1>4. From' = From
  BY DEF From
<1>5. (First' = First /\ First # NoTask) \/ (First = cur /\ First' = cur')
  BY <1>1, <1>3, <1>4 DEF First
<1>6. ASSUME NEW t, NEW u, Adjacent(t, u)'
      PROVE  (Adjacent(t, u) /\ u # NoTask) \/ (Adjacent(t, cur) /\ u = cur')
  <2>1. CASE \E k \in DOMAIN jobs' : t = jobs'[k] /\ u = Follower(jobs, k, cur)'
    BY <1>1, <2>1 DEF Adjacent, Follower
  <2>2. CASE hpc' = "put" /\ t = job' /\ u = AfterJob'
    BY <1>2, <2>2 DEF Adjacent
  <2>3. CASE \E k \in DOMAIN vtasks' : k >= From' /\ t = vtasks'[k] /\ u = Follower(vtasks, k, AfterTasks)'
    BY <1>1, <1>3, <1>4, <2>3 DEF Adjacent, Follower
  <2> QED BY <1>6, <2>1, <2>2, <2>3 DEF Adjacent
<1> QED
  BY <1>5, <1>6

\* While the stream has not ended no task that is to be answered ends it.
LEMMA NoneFinal ==
  ASSUME OwnInv, Order, ~ended, cur = NoTask, NEW t, Pending(t)
  PROVE  ~Final(t) /\ t.kind # "eos"
<1>1. PICK u : Adjacent(t, u)
  BY DEF Pending, Adjacent
<1>2. Joined(t, u)
  BY <1>1, AllJoined DEF Order
<1> QED
  BY <1>2 DEF Joined, Ends, Final

\* A new picture in a free slot: the tasks that are to be answered keep theirs.
Arrives(i, p, c) ==
    /\ slot[i] = Free /\ p.kind \in {"pic", "last"} /\ p.slot = i /\ cur = NoTask /\ cur' = p
    /\ c = [kind |-> "change", slot |-> i]
    /\ pics' = pics + 1
    /\ slot' = [slot EXCEPT ![i] = [pic |-> pics + 1, buf |-> FALSE, use |-> 1]]
    /\ jobs' = jobs \/ jobs' = Append(jobs, c)
    /\ ~ended /\ UNCHANGED <<ended, hpc, job, vpc, prev, got, vtasks, frames, shown>>

LEMMA OthersKeep ==
  ASSUME OwnInv, Order, NEW i \in 1..Slots, NEW p, NEW c, Arrives(i, p, c)
  PROVE  /\ \A j \in 1..Slots : Waits(j) \/ prev = j => j # i /\ slot'[j] = slot[j]
         /\ \A t : Pending(t) => Key(t)' = Key(t)
         /\ slot'[i].pic = pics + 1 /\ pics \in Nat
<1> USE DEF OwnInv
<1>1. slot[i].use = 0
  BY DEF Arrives, Free
<1>2. \A j \in 1..Slots : Waits(j) \/ prev = j => j # i /\ slot'[j] = slot[j]
  <2> SUFFICES ASSUME NEW j \in 1..Slots, Waits(j) \/ prev = j PROVE j # i /\ slot'[j] = slot[j]
    OBVIOUS
  <2>1. slot[j].use > 0
    BY OwnerHasUse DEF Waits
  <2> QED BY <1>1, <2>1 DEF Arrives, SlotTypes
<1>3. ASSUME NEW t, Pending(t) PROVE Key(t)' = Key(t)
  <2>1. t.kind # "eos"
    BY <1>3, NoneFinal DEF Arrives
  <2>2. t.slot \in 1..Slots /\ Waits(t.slot)
    BY <1>3, <2>1, PendingPlaced DEF Order
  <2> QED BY <1>2, <2>1, <2>2 DEF Key
<1>4. slot'[i].pic = pics + 1 /\ pics \in Nat
  BY DEF Arrives, SlotTypes
<1> QED
  BY <1>2, <1>3, <1>4

\* It comes behind the last picture, and its geometry change between both.
LEMMA ComesBehind ==
  ASSUME OwnInv, Order, NEW i \in 1..Slots, NEW p, NEW c, Arrives(i, p, c)
  PROVE  /\ \A t, u : Adjacent(t, u) /\ u # NoTask => Joined(t, u)'
         /\ \A t : Adjacent(t, NoTask) => Joined(t, p)' /\ Joined(t, c)'
         /\ Joined(c, p)' /\ c # NoTask /\ p # NoTask
         /\ Key(p)' = 2 * pics + 2 /\ Key(c)' = 2 * pics + 1
<1> USE DEF OwnInv
<1>1. /\ IsPicture(p) /\ p.slot = i /\ p.kind # "eos" /\ p.kind # "change" /\ p # NoTask
      /\ ~IsPicture(c) /\ c.slot = i /\ c.kind = "change" /\ c # NoTask
  BY DEF Arrives, IsPicture, NoTask
<1>2. slot'[i].pic = pics + 1 /\ pics \in Nat
  BY OthersKeep
<1>3. Key(p)' = 2 * pics + 2 /\ Key(c)' = 2 * pics + 1
  BY <1>1, <1>2 DEF Key
<1>4. Joined(c, p)'
  BY <1>1, <1>2, <1>3 DEF Joined, Rises, Final
<1>5. ASSUME NEW t, NEW u, Adjacent(t, u), u # NoTask PROVE Joined(t, u)'
  <2>1. Joined(t, u) /\ Pending(t) /\ Pending(u)
    BY <1>5, AllJoined, AdjacentPending DEF Order
  <2>2. Key(t)' = Key(t) /\ Key(u)' = Key(u)
    BY <2>1, OthersKeep
  <2> QED BY <1>5, <2>1, <2>2 DEF Joined, Rises
<1>6. ASSUME NEW t, Adjacent(t, NoTask) PROVE Joined(t, p)' /\ Joined(t, c)'
  <2>1. Joined(t, NoTask) /\ Pending(t) /\ t \in Tasks
    BY <1>6, AllJoined, AdjacentPending, PendingTask DEF Order
  <2>2. ~Final(t) /\ t.kind # "eos" /\ t.kind # "change"
    BY <2>1, NoneFinal DEF Joined, Ends, Arrives
  <2>3. IsPicture(t)
    BY <2>1, <2>2 DEF Tasks, Pictures, IsPicture
  <2>4. slot[t.slot].pic = pics
    BY <2>1, <2>3 DEF Joined, Ends
  <2>5. Key(t)' = 2 * pics
    BY <2>1, <2>2, <2>4, OthersKeep DEF Key
  <2> QED BY <1>1, <1>2, <1>3, <2>2, <2>5 DEF Joined, Rises
<1> QED
  BY <1>1, <1>3, <1>4, <1>5, <1>6

LEMMA ArrivesOrdered ==
  ASSUME OwnInv, Order, SlotTypes', NEW i \in 1..Slots, NEW p, NEW c, Arrives(i, p, c)
  PROVE  Order'
<1> USE DEF OwnInv
<1>1. /\ UNCHANGED <<ended, hpc, job, vpc, prev, got, vtasks, frames, shown>>
      /\ cur = NoTask /\ cur' = p /\ pics' = pics + 1 /\ ~ended
      /\ p.slot = i /\ IsPicture(p)
  BY DEF Arrives, IsPicture
<1>2. Times' /\ LastTime' = LastTime /\ LastTime \in Int /\ pics \in Nat
  BY <1>1, TimesStay, LastTimeInt DEF Order
<1>3. c \in Tasks
  BY DEF Arrives, Tasks
<1>4. /\ \A t, u : Adjacent(t, u)' =>
             \/ Adjacent(t, u) /\ u # NoTask
             \/ Adjacent(t, NoTask) /\ u \in {p, c}
             \/ t = c /\ u = p
      /\ (First' = First /\ First # NoTask) \/ (First = NoTask /\ First' \in {p, c})
  <2>1. CASE jobs' = jobs
    BY <1>1, <2>1, OtherPairs
  <2>2. CASE jobs' = Append(jobs, c)
    BY <1>1, <1>3, <2>2, NewPairs
  <2> QED BY <2>1, <2>2 DEF Arrives
<1>5. JobsJoined' /\ JobJoined' /\ TasksJoined'
  <2> SUFFICES ASSUME NEW t, NEW u, Adjacent(t, u)' PROVE Joined(t, u)'
    BY AllWillJoin
  <2> QED BY <1>4, ComesBehind
<1>6. Starts'
  <2>1. CASE First' = First /\ First # NoTask
    <3>1. Key(First)' = Key(First)
      BY <2>1, FirstPending, OthersKeep
    <3> QED BY <1>2, <2>1, <3>1 DEF Order, Starts, Rises, IsPicture
  <2>2. CASE First = NoTask /\ First' \in {p, c}
    <3>1. LastTime = 2 * pics
      BY <1>1, <2>2 DEF Order, Starts
    <3>2. /\ p # NoTask /\ c # NoTask
          /\ Key(p)' = 2 * pics + 2 /\ Key(c)' = 2 * pics + 1
      BY ComesBehind
    <3>3. Rises(LastTime, p)' /\ Rises(LastTime, c)'
      BY <1>1, <1>2, <3>1, <3>2 DEF Rises, IsPicture
    <3> QED BY <1>2, <2>2, <3>2, <3>3 DEF Starts
  <2> QED BY <1>4, <2>1, <2>2
<1>7. Newest'
  BY <1>1, OthersKeep DEF Newest
<1>8. EosFrames'
  BY <1>1 DEF Order, EosFrames
<1>9. Window'
  <2>1. prev # 0 => slot'[prev].pic = slot[prev].pic
    BY OthersKeep DEF SlotTypes
  <2>2. vpc = "shift" => Key(vtasks[1])' = Key(vtasks[1])
    <3> SUFFICES ASSUME vpc = "shift" PROVE Key(vtasks[1])' = Key(vtasks[1])
      OBVIOUS
    <3>1. 1 \in DOMAIN vtasks /\ vtasks[1] \in Tasks /\ IsPicture(vtasks[1])
      BY Advanced DEF Stations, SlotTypes
    <3>2. PICK j \in 1..Slots : j = vtasks[1].slot
      BY <3>1, PictureSlot
    <3>3. Waiting(j)
      BY <3>1, <3>2 DEF Waiting
    <3>4. slot'[j] = slot[j]
      BY <3>3, OthersKeep DEF Waits
    <3> QED BY <1>1, <3>1, <3>2, <3>4 DEF Key, IsPicture
  <2> QED BY <1>1, <1>2, <2>1, <2>2 DEF Order, Window, Needed
<1> QED
  BY <1>1, <1>2, <1>5, <1>6, <1>7, <1>8, <1>9 DEF Order

LEMMA ParseOrdered ==
  ASSUME OwnInv, Order, SlotTypes', Parse
  PROVE  Order'
<1> USE DEF OwnInv
<1> DEFINE i == Min(FreeSlots)
<1>1. i \in 1..Slots /\ slot[i] = Free
  <2>1. FreeSlots \subseteq Nat /\ FreeSlots # {}
    BY VprocAssumption DEF FreeSlots, Parse, MayParse
  <2>2. i \in FreeSlots
    BY <2>1, LeastIn
  <2> QED BY <2>2 DEF FreeSlots
<1>2. PICK last, change \in BOOLEAN :
        /\ ppc = "parse" /\ ~ended /\ pics' = pics + 1
        /\ slot' = [slot EXCEPT ![i] = [pic |-> pics', buf |-> FALSE, use |-> 1]]
        /\ cur' = [kind |-> IF last THEN "last" ELSE "pic", slot |-> i]
        /\ jobs' = IF change THEN Append(jobs, [kind |-> "change", slot |-> i]) ELSE jobs
  BY DEF Parse
<1>3. UNCHANGED <<ended, hpc, job, vpc, prev, got, vtasks, frames, shown>>
  BY DEF Parse, vprocVars, taskVars, userVars
<1> HIDE DEF i
<1>4. cur'.kind \in {"pic", "last"} /\ cur'.slot = i
  BY <1>2
<1>5. Arrives(i, cur', [kind |-> "change", slot |-> i])
  BY <1>1, <1>2, <1>3, <1>4 DEF Arrives, Stations
<1> QED
  BY <1>1, <1>5, ArrivesOrdered

-----------------------------------------------------------------------------
(* Steps that answer a task *)

\* A frame that is one or two half pictures later than the last one; behind an
\* end of stream it is the second of the pair.
LEMMA EmitTimes ==
  ASSUME SlotTypes, Times, NEW f \in Frames, frames' = Append(frames, f), UNCHANGED shown,
         f.pts - LastTime \in {1, 2},
         \A k \in DOMAIN frames : frames[k].eos =>
           k = Len(frames) /\ f.eos /\ f.pts = LastTime + 1
  PROVE  Times' /\ LastTime' = f.pts
<1>1. /\ Len(frames) \in Nat /\ DOMAIN frames = 1..Len(frames) /\ DOMAIN frames' = 1..(Len(frames) + 1)
      /\ Len(frames') = Len(frames) + 1 /\ frames' # << >>
      /\ \A k \in DOMAIN frames : frames'[k] = frames[k]
      /\ frames'[Len(frames) + 1] = f
      /\ frames = << >> <=> Len(frames) = 0
  BY Appended, EmptySeq DEF SlotTypes
<1>2. LastTime' = f.pts
  BY <1>1 DEF LastTime
<1>3. ASSUME NEW k \in DOMAIN frames' PROVE frames'[k].pts - Before(k)' \in {1, 2}
  <2>1. CASE k = Len(frames) + 1
    <3>1. Before(k)' = LastTime
      <4>1. CASE Len(frames) = 0
        BY <1>1, <2>1, <4>1 DEF Before, LastTime
      <4>2. CASE Len(frames) # 0
        <5>1. k # 1 /\ k - 1 = Len(frames) /\ Len(frames) \in DOMAIN frames
          BY <1>1, <2>1, <4>2
        <5>2. frames'[Len(frames)] = frames[Len(frames)]
          BY <1>1, <5>1
        <5> QED BY <1>1, <4>2, <5>1, <5>2 DEF Before, LastTime
      <4> QED BY <4>1, <4>2
    <3> QED BY <1>1, <2>1, <3>1
  <2>2. CASE k \in DOMAIN frames
    <3>1. Before(k)' = Before(k)
      <4>1. k # 1 => k - 1 \in DOMAIN frames
        BY <1>1, <2>2
      <4> QED BY <1>1, <4>1 DEF Before
    <3> QED BY <1>1, <2>2, <3>1 DEF Times
  <2> QED BY <1>1, <1>3, <2>1, <2>2
<1>4. ASSUME NEW k \in DOMAIN frames', frames'[k].eos, k + 1 \in DOMAIN frames'
      PROVE  /\ frames'[k + 1].eos /\ k + 1 = Len(frames')
             /\ frames'[k + 1].pts = frames'[k].pts + 1
  <2>1. k \in DOMAIN frames /\ frames'[k] = frames[k]
    BY <1>1, <1>4
  <2>2. k = Len(frames) /\ f.eos /\ f.pts = LastTime + 1
    BY <1>4, <2>1
  <2>3. LastTime = frames[k].pts
    BY <1>1, <2>1, <2>2 DEF LastTime
  <2> QED BY <1>1, <2>1, <2>2, <2>3
<1> QED
  BY <1>2, <1>3, <1>4 DEF Times

\* The time of a task's frame.
LEMMA TaskTime ==
  ASSUME OwnInv, Order, NEW t, First = t, t # NoTask
  PROVE  /\ t \in Tasks /\ Pending(t) /\ Rises(LastTime, t)
         /\ Key(t) \in Int /\ LastTime \in Int /\ Key(t) - LastTime \in {1, 2}
         /\ IsPicture(t) => t.slot \in 1..Slots /\ slot[t.slot].pic \in Nat /\ Key(t) = 2 * slot[t.slot].pic
<1> USE DEF OwnInv
<1>1. t \in Tasks /\ Pending(t) /\ Rises(LastTime, t)
  BY FirstPending, PendingTask DEF Order, Starts
<1>2. LastTime \in Int /\ pics \in Nat
  BY LastTimeInt DEF Order
<1>3. t.kind # "eos" => t.slot \in 1..Slots /\ slot[t.slot].pic \in Nat
  BY <1>1, PendingPlaced DEF Order, SlotTypes
<1>4. Key(t) \in Int
  BY <1>2, <1>3 DEF Key
<1>5. IsPicture(t) => t.kind # "eos" /\ t.kind # "change"
  BY DEF IsPicture
<1>6. IsPicture(t) => Key(t) = 2 * slot[t.slot].pic
  BY <1>5 DEF Key
<1> QED
  BY <1>1, <1>2, <1>3, <1>4, <1>5, <1>6 DEF Rises

LEMMA PrevPicture ==
  ASSUME SlotTypes, prev # 0
  PROVE  slot[prev].pic \in Nat
<1>1. prev \in 1..Slots
  BY DEF SlotTypes
<1> QED
  BY <1>1 DEF SlotTypes

\* The last frame of the first task: what follows it is first now.
LEMMA AnsweredOrdered ==
  ASSUME OwnInv, Order, SlotTypes', NEW t, NEW u, First = t, t # NoTask, Adjacent(t, u), First' = u,
         NEW f \in Frames, frames' = Append(frames, f), f.pts = Key(t), f.eos <=> Final(t),
         UNCHANGED <<cur, pics, slot, ended, shown>>,
         \A v, w : Adjacent(v, w)' => Adjacent(v, w),
         \A k \in DOMAIN frames : frames[k].eos =>
           Final(t) /\ k = Len(frames) /\ Key(t) = LastTime + 1
  PROVE  Tasked' /\ Times' /\ EosFrames' /\ LastTime' = Key(t)
<1> USE DEF OwnInv
<1>1. t \in Tasks /\ Key(t) - LastTime \in {1, 2}
  BY TaskTime
<1>2. Times' /\ LastTime' = Key(t)
  BY <1>1, EmitTimes DEF Order
<1>3. Joined(t, u) /\ Joined(t, u)'
  <2>1. Steady
    BY DEF Steady
  <2> QED BY <2>1, AllJoined, JoinedStays DEF Order
<1>4. JobsJoined' /\ JobJoined' /\ TasksJoined'
  BY AllWillJoin, SlotsSteady, JoinedStays DEF Order
<1>5. Newest'
  BY DEF Order, Newest
<1>6. Key(t)' = Key(t)
  BY DEF Key
<1>7. Starts'
  <2>1. CASE u # NoTask
    <3>1. Rises(Key(t), u)'
      BY <1>3, <2>1 DEF Joined
    <3> QED BY <1>2, <1>6, <2>1, <3>1 DEF Starts, Rises
  <2>2. CASE u = NoTask
    <3>1. Ends(t) /\ t.kind # "change"
      BY <1>3, <2>2 DEF Joined, Ends
    <3>2. IsPicture(t) \/ t.kind = "eos"
      BY <1>1, <3>1 DEF Tasks, Pictures, IsPicture
    <3>3. CASE IsPicture(t)
      <4>1. Key(t) = 2 * pics
        BY <3>1, <3>3 DEF Ends, Key, IsPicture
      <4> QED BY <1>2, <2>2, <4>1 DEF Starts
    <3>4. CASE t.kind = "eos"
      <4>1. Key(t) = 2 * pics + 1 /\ ended
        BY <3>1, <3>4 DEF Ends, Key, Final
      <4> QED BY <1>2, <2>2, <4>1 DEF Starts
    <3> QED BY <3>2, <3>3, <3>4
  <2> QED BY <2>1, <2>2
<1>8. EosFrames'
  <2>1. Final(t) => u = NoTask /\ ended
    BY <1>3 DEF Joined, Ends
  <2>2. ASSUME NEW k \in DOMAIN frames', frames'[k].eos PROVE Final(t)
    <3>1. CASE k \in DOMAIN frames
      <4>1. frames'[k] = frames[k]
        BY <3>1, Appended DEF SlotTypes
      <4> QED BY <2>2, <3>1, <4>1
    <3>2. CASE k \notin DOMAIN frames
      <4>1. frames'[k] = f
        BY <2>2, <3>2, Appended DEF SlotTypes
      <4> QED BY <2>2, <4>1
    <3> QED BY <3>1, <3>2
  <2> QED BY <2>1, <2>2 DEF EosFrames
<1> QED
  BY <1>2, <1>4, <1>5, <1>7, <1>8 DEF Tasked

\* Without the thread the hal thread answers its task itself.
LEMMA HalDirectOrdered ==
  ASSUME OwnInv, Order, SlotTypes', HalDirect
  PROVE  Order'
<1> USE DEF OwnInv
<1>1. /\ UNCHANGED <<cur, pics, slot, ended, jobs, job, shown, vpc, prev, got, vtasks>>
      /\ hpc = "put" /\ hpc' # "put" /\ vpc = "off"
  BY DEF HalDirect, On, parserVars, slotVars, vprocVars, taskVars, userVars
<1>2. vtasks = << >> /\ prev = 0
  BY <1>1 DEF RestInv, ThreadRests, Quiet
<1>3. From \notin DOMAIN vtasks /\ From' \notin DOMAIN vtasks' /\ vtasks' = << >>
  BY <1>1, <1>2
<1>4. First = job /\ First' = AfterJob /\ job # NoTask
  BY <1>1, <1>3 DEF First, AfterTasks, AfterJob, Stations
<1>5. /\ job \in Tasks
      /\ IsPicture(job) => slot[job.slot].pic \in Nat /\ Key(job) = 2 * slot[job.slot].pic
  BY <1>4, TaskTime
<1> DEFINE p == slot[job.slot].pic
           f == IF IsPicture(job) THEN FrameOf(2 * p, job.kind = "last", p) ELSE SignOf(job)
<1>6. f \in Frames /\ f.pts = Key(job) /\ (f.eos <=> Final(job))
  <2>1. CASE IsPicture(job)
    <3>1. f = FrameOf(2 * p, job.kind = "last", p)
      BY <2>1
    <3>2. p \in Nat /\ Key(job) = 2 * p
      BY <1>5, <2>1
    <3> HIDE DEF p, f
    <3>3. f.pts = 2 * p /\ f.eos = (job.kind = "last")
      BY <3>1 DEF FrameOf
    <3>4. f \in Frames
      BY <3>1, <3>2 DEF FrameOf, Frames
    <3>5. job.kind = "last" <=> Final(job)
      BY <2>1 DEF Final, IsPicture
    <3> QED BY <3>2, <3>3, <3>4, <3>5
  <2>2. CASE ~IsPicture(job)
    <3>1. f = SignOf(job)
      BY <2>2
    <3>2. f \in Frames
      BY <1>5, <3>1, SignIsFrame
    <3> HIDE DEF p, f
    <3> QED BY <1>5, <2>2, <3>1, <3>2
            DEF SignOf, FrameOf, Key, Final, IsPicture, Tasks, Pictures
  <2> QED BY <2>1, <2>2
<1>7. frames' = Append(frames, f)
  BY DEF HalDirect
<1> HIDE DEF f
<1>8. Adjacent(job, AfterJob) /\ \A v, w : Adjacent(v, w)' => Adjacent(v, w)
  BY <1>1, <1>3 DEF Adjacent, Follower, AfterJob
<1>9. \A k \in DOMAIN frames : ~frames[k].eos
  BY <1>1, <1>4 DEF Order, EosFrames
<1>10. Tasked' /\ Times' /\ EosFrames'
  BY <1>1, <1>4, <1>6, <1>7, <1>8, <1>9, AnsweredOrdered
<1>11. Window'
  BY <1>1, <1>2 DEF Window
<1> QED
  BY <1>1, <1>10, <1>11 DEF Order, Tasked

\* The thread's first task, and what it has behind it.
LEMMA HeadTask ==
  ASSUME OwnInv, vtasks # << >>, vpc \notin {"shift", "clear", "idle"}
  PROVE  /\ 1 \in DOMAIN vtasks /\ Head(vtasks) = vtasks[1] /\ First = vtasks[1]
         /\ vtasks[1] # NoTask /\ Adjacent(vtasks[1], Follower(vtasks, 1, AfterTasks))
<1> USE DEF OwnInv
<1>1. 1 \in DOMAIN vtasks /\ Head(vtasks) = vtasks[1] /\ vtasks[1] \in Tasks /\ From = 1
  BY Advanced DEF SlotTypes, From
<1>2. vtasks[1] # NoTask
  BY <1>1 DEF NoTask, Tasks, Pictures
<1> QED
  BY <1>1, <1>2 DEF First, Adjacent

\* When it is answered the second task is first.
LEMMA NextTask ==
  ASSUME OwnInv, vtasks # << >>, vpc \notin {"shift", "clear", "idle"},
         vpc' \in {"shift", "clear", "idle"}, UNCHANGED <<cur, jobs, hpc, job, vtasks>>
  PROVE  /\ First' = Follower(vtasks, 1, AfterTasks)
         /\ \A v, w : Adjacent(v, w)' => Adjacent(v, w)
<1>1. From = 1 /\ From' = 2 /\ AfterTasks' = AfterTasks /\ AfterJob' = AfterJob
  BY DEF From, AfterTasks, AfterJob
<1>2. First' = Follower(vtasks, 1, AfterTasks)
  BY <1>1 DEF First, Follower
<1>3. DOMAIN vtasks \subseteq Nat
  BY Advanced DEF OwnInv, SlotTypes
<1>4. ASSUME NEW v, NEW w, Adjacent(v, w)' PROVE Adjacent(v, w)
  <2>1. \A k \in DOMAIN vtasks : k >= 2 => k >= 1
    BY <1>3
  <2> QED BY <1>1, <1>4, <2>1 DEF Adjacent, Follower
<1> QED
  BY <1>2, <1>4

LEMMA PassOnOrdered ==
  ASSUME OwnInv, Order, SlotTypes', PassOn
  PROVE  Order'
<1> USE DEF OwnInv
<1>1. /\ UNCHANGED <<cur, pics, slot, ended, jobs, hpc, job, shown, prev, got, vtasks>>
      /\ vpc = "work" /\ vpc' = "clear" /\ vtasks # << >>
  BY DEF PassOn, Stations, halVars, parserVars, slotVars, taskVars, userVars
<1>2. PICK t : t = vtasks[1]
  OBVIOUS
<1>3. /\ Head(vtasks) = t /\ First = t /\ t # NoTask /\ Adjacent(t, Follower(vtasks, 1, AfterTasks))
  BY <1>1, <1>2, HeadTask
<1>4. t \in Tasks /\ ~IsPicture(t)
  BY <1>3, TaskTime DEF PassOn
<1> DEFINE f == SignOf(t)
<1>5. f \in Frames /\ f.pts = Key(t) /\ (f.eos <=> Final(t))
  <2>1. f \in Frames
    BY <1>4, SignIsFrame
  <2> QED BY <1>4, <2>1 DEF SignOf, FrameOf, Key, Final, IsPicture, Tasks, Pictures
<1>6. frames' = Append(frames, f)
  BY <1>3 DEF PassOn
<1> HIDE DEF f
<1>7. First' = Follower(vtasks, 1, AfterTasks) /\ \A v, w : Adjacent(v, w)' => Adjacent(v, w)
  BY <1>1, NextTask
<1>8. \A k \in DOMAIN frames : ~frames[k].eos
  BY <1>1, <1>3 DEF Order, EosFrames
<1>9. Tasked' /\ Times' /\ EosFrames'
  BY <1>1, <1>3, <1>5, <1>6, <1>7, <1>8, AnsweredOrdered
<1>10. Window'
  BY <1>1 DEF Window
<1> QED
  BY <1>1, <1>9, <1>10 DEF Order, Tasked

\* The first frame of a pair lies between the window's picture and the next.
LEMMA FirstFrameOrdered ==
  ASSUME OwnInv, Order, SlotTypes', Deinterlace, got = 2
  PROVE  Order'
<1> USE DEF OwnInv
<1>1. /\ UNCHANGED <<cur, pics, slot, ended, jobs, hpc, job, shown, prev, vtasks>>
      /\ vpc = "buffer" /\ vpc' = "second" /\ vtasks # << >> /\ IsPicture(Head(vtasks))
      /\ prev # 0
  BY DEF Deinterlace, Needed, RestInv, ThreadRests, Stations,
         halVars, parserVars, slotVars, taskVars, userVars
<1>2. PICK t : t = vtasks[1]
  OBVIOUS
<1>3. /\ Head(vtasks) = t /\ First = t /\ t # NoTask /\ Adjacent(t, Follower(vtasks, 1, AfterTasks))
  BY <1>1, <1>2, HeadTask
<1> DEFINE p == slot[t.slot].pic
           q == slot[prev].pic
           f == FrameOf(p + q, t.kind = "last", NewBuf)
<1>4. p \in Nat /\ q \in Nat /\ p = q + 1 /\ LastTime = 2 * q
  <2>1. p \in Nat /\ Key(t) = 2 * p /\ Rises(LastTime, t)
    BY <1>1, <1>3, TaskTime
  <2>2. q \in Nat
    BY <1>1, PrevPicture
  <2>3. LastTime = 2 * q
    BY <1>1, <2>2 DEF Order, Window
  <2> HIDE DEF p, q
  <2> QED BY <2>1, <2>2, <2>3 DEF Rises
<1>5. f \in Frames /\ f.pts = LastTime + 1 /\ f.eos = (t.kind = "last")
  <2> HIDE DEF p, q
  <2> QED BY <1>4 DEF FrameOf, Frames, NewBuf
<1>6. frames' = Append(frames, f)
  BY <1>3 DEF Deinterlace
<1>7. \A k \in DOMAIN frames : ~frames[k].eos
  BY <1>1, <1>3 DEF Order, EosFrames
<1>8. First' = First /\ \A v, w : Adjacent(v, w)' => Adjacent(v, w)
  BY <1>1, QueuesStay DEF From
<1>9. Times' /\ LastTime' = LastTime + 1
  <2>1. f.pts - LastTime = 1
    <3> HIDE DEF p, q, f
    <3> QED BY <1>4, <1>5
  <2> HIDE DEF f
  <2> QED BY <1>1, <1>5, <1>6, <1>7, <2>1, EmitTimes DEF Order
<1>10. Key(t)' = 2 * p
  BY <1>1, <1>3, TaskTime DEF Key
<1>11. Starts'
  <2>1. Key(t)' = LastTime' + 1
    <3> HIDE DEF p, q
    <3> QED BY <1>4, <1>9, <1>10
  <2> QED BY <1>3, <1>8, <2>1 DEF Starts, Rises
<1>12. JobsJoined' /\ JobJoined' /\ TasksJoined' /\ Newest'
  <2>1. Newest'
    BY <1>1 DEF Order, Newest
  <2> QED BY <1>1, <1>8, <2>1, AllWillJoin, SlotsSteady, JoinedStays DEF Order
<1>13. EosFrames'
  <2>1. Final(t) => ended
    <3>1. Joined(t, Follower(vtasks, 1, AfterTasks))
      BY <1>3, AllJoined DEF Order
    <3> QED BY <3>1 DEF Joined, Ends
  <2>2. ASSUME NEW k \in DOMAIN frames', frames'[k].eos PROVE k = Len(frames') /\ Final(t)
    <3> HIDE DEF f
    <3>1. k \in DOMAIN frames => frames'[k] = frames[k]
      BY <1>5, <1>6, Appended DEF SlotTypes
    <3>2. k \notin DOMAIN frames => k = Len(frames') /\ frames'[k] = f
      BY <1>5, <1>6, <2>2, Appended DEF SlotTypes
    <3> QED BY <1>5, <1>7, <2>2, <3>1, <3>2 DEF Final
  <2> QED BY <1>1, <1>2, <2>1, <2>2 DEF EosFrames, Final
<1>14. Window'
  <2>1. LastTime' = 2 * slot'[prev].pic + 1
    BY <1>1, <1>4, <1>9
  <2> QED BY <1>1, <2>1 DEF Window
<1> QED
  BY <1>1, <1>9, <1>11, <1>12, <1>13, <1>14 DEF Order

\* The second of a pair, or the only one, is that of the picture.
LEMMA LastFrameOrdered ==
  ASSUME OwnInv, Order, SlotTypes', Deinterlace, got # 2
  PROVE  Order'
<1> USE DEF OwnInv
<1>1. /\ UNCHANGED <<cur, pics, slot, ended, jobs, hpc, job, shown, prev, vtasks>>
      /\ vpc \in {"buffer", "second"} /\ vpc' = "shift" /\ vtasks # << >> /\ IsPicture(Head(vtasks))
  BY DEF Deinterlace, Stations, halVars, parserVars, slotVars, taskVars, userVars
<1>2. PICK t : t = vtasks[1]
  OBVIOUS
<1>3. /\ Head(vtasks) = t /\ First = t /\ t # NoTask /\ Adjacent(t, Follower(vtasks, 1, AfterTasks))
  BY <1>1, <1>2, HeadTask
<1> DEFINE p == slot[t.slot].pic
           f == FrameOf(2 * p, t.kind = "last", NewBuf)
<1>4. p \in Nat /\ Key(t) = 2 * p /\ Rises(LastTime, t) /\ LastTime \in Int
  BY <1>1, <1>3, TaskTime
<1>5. f \in Frames /\ f.pts = Key(t) /\ (f.eos <=> Final(t))
  <2> HIDE DEF p
  <2>1. f \in Frames /\ f.pts = Key(t) /\ f.eos = (t.kind = "last")
    BY <1>4 DEF FrameOf, Frames, NewBuf
  <2>2. t.kind = "last" <=> Final(t)
    BY <1>1, <1>3 DEF Final, IsPicture
  <2> HIDE DEF f
  <2> QED BY <2>1, <2>2
<1>6. frames' = Append(frames, f)
  BY <1>3 DEF Deinterlace
<1>7. First' = Follower(vtasks, 1, AfterTasks) /\ \A v, w : Adjacent(v, w)' => Adjacent(v, w)
  BY <1>1, NextTask
<1>8. ASSUME NEW k \in DOMAIN frames, frames[k].eos
      PROVE  Final(t) /\ k = Len(frames) /\ Key(t) = LastTime + 1
  <2>1. vpc = "second" /\ k = Len(frames) /\ Final(t)
    BY <1>2, <1>3, <1>8 DEF Order, EosFrames
  <2>2. prev # 0 /\ LastTime = 2 * slot[prev].pic + 1
    BY <2>1 DEF Order, Window
  <2>3. slot[prev].pic \in Nat
    BY <2>2, PrevPicture
  <2> HIDE DEF p
  <2> QED BY <1>4, <2>1, <2>2, <2>3 DEF Rises
<1>9. Tasked' /\ Times' /\ EosFrames' /\ LastTime' = Key(t)
  <2> HIDE DEF f
  <2> QED BY <1>1, <1>3, <1>5, <1>6, <1>7, <1>8, AnsweredOrdered
<1>10. Window'
  <2>1. Key(vtasks[1])' = Key(t)
    BY <1>1, <1>2 DEF Key
  <2> QED BY <1>1, <1>9, <2>1 DEF Window
<1> QED
  BY <1>1, <1>9, <1>10 DEF Order, Tasked

-----------------------------------------------------------------------------
(* All steps *)

\* The reset that is done has left nothing, and all times up to that of the last
\* picture are past.
LEMMA FlushOrdered ==
  ASSUME OwnInv, UserFlush
  PROVE  Order'
<1> USE DEF OwnInv
<1>1. /\ cur' = NoTask /\ jobs' = << >> /\ hpc' = "rest" /\ vtasks' = << >> /\ prev' = 0
      /\ vpc' \in {"off", "test", "asleep"} /\ frames' = << >> /\ shown' = 2 * pics' /\ pics' \in Nat
  BY DEF UserFlush, RestInv, ResetWalks, Quiet, parserVars, halVars, vprocVars, taskVars, SlotTypes
<1>2. First' = NoTask /\ LastTime' = 2 * pics'
  BY <1>1 DEF First, AfterTasks, AfterJob, LastTime
<1>3. JobsJoined' /\ JobJoined' /\ TasksJoined' /\ Newest' /\ Window' /\ EosFrames' /\ Times'
  BY <1>1 DEF JobsJoined, JobJoined, TasksJoined, Newest, Window, EosFrames, Times
<1> QED
  BY <1>1, <1>2, <1>3 DEF Order, Starts

LEMMA InitOrdered == Init => OrderInv
<1> SUFFICES ASSUME Init PROVE Order
  BY InitOwns DEF OrderInv
<1>1. First = NoTask /\ LastTime = 2 * pics
  BY DEF Init, First, AfterTasks, AfterJob, LastTime
<1>2. JobsJoined /\ JobJoined /\ TasksJoined /\ Newest /\ Window /\ EosFrames /\ Times
  BY DEF Init, JobsJoined, JobJoined, TasksJoined, Newest, Window, EosFrames, Times
<1> QED
  BY <1>1, <1>2 DEF Init, Order, Starts

LEMMA StutterOrdered ==
  ASSUME OwnInv, Order, SlotTypes', Stations', UNCHANGED vars
  PROVE  Order'
<1>1. UNCHANGED <<cur, pics, slot, ended, frames, shown, job, jobs, hpc, vpc, prev, got, vtasks>>
  BY DEF vars, parserVars, slotVars, halVars, vprocVars, taskVars, userVars
<1>2. First' = First /\ \A t, u : Adjacent(t, u)' => Adjacent(t, u)
  BY <1>1, QueuesStay DEF From
<1>3. MovesOnly /\ Steady
  BY <1>1 DEF MovesOnly, Steady
<1> QED
  BY <1>1, <1>2, <1>3, MovesOrdered

\* While the application does not reset there is no step of a reset.
LEMMA StepOrdered ==
  ASSUME OrderInv, [Next]_vars
  PROVE  OrderInv'
<1>1. OwnInv /\ OwnInv'
  BY StepOwns DEF OrderInv
<1>2. SlotTypes' /\ Stations'
  BY <1>1 DEF OwnInv
<1>3. CASE UserFlush
  BY <1>1, <1>3, FlushOrdered DEF OrderInv
<1>4. CASE apc' # "run"
  BY <1>1, <1>4 DEF OrderInv
<1>5. CASE apc' = "run" /\ ~UserFlush
  <2>1. apc = "run"
    <3>1. ~ResetDone /\ ~UserReset
      BY <1>5 DEF ResetDone, UserReset
    <3> QED BY <1>5, <3>1
            DEF Next, ParserStep, HalStep, VprocStep, Parse, ParseEos, Gate, Get, ResetHal, ResetVproc,
                HalTake, HalDirect, HalStart, HalPut, HalPutEos, HalSignal, HalClr, Work, Sleep,
                VprocReset, PassOn, TakePicture, GetBuffer, Deinterlace, Shift, Clear, Idle, Spurious,
                TakeFrame, ReleaseFrame, userVars, vars
  <2>2. Order /\ ~resetFlag /\ ppc \notin {"hal", "vproc", "done"} /\ ~vreset
    BY <1>1, <2>1 DEF OrderInv, OwnInv, RestInv, ResetWalks, ThreadRests
  <2>3. ~ResetHal /\ ~ResetVproc /\ ~ResetDone /\ ~VprocReset /\ ~UserReset
    BY <1>5, <2>2 DEF ResetHal, ResetVproc, ResetDone, VprocReset, Sleeps, UserReset
  <2>4. CASE \/ Gate \/ HalStart \/ HalSignal \/ Work \/ Sleep \/ Spurious \/ TakePicture
             \/ GetBuffer \/ ReleaseFrame
    BY <1>1, <1>2, <2>2, <2>4, PlainOrdered DEF OrderInv
  <2>5. CASE Parse \/ ParseEos \/ Get
    BY <1>1, <1>2, <2>2, <2>5, ParseOrdered, ParseEosOrdered, GetOrdered DEF OrderInv
  <2>6. CASE HalTake \/ HalDirect \/ HalPut \/ HalPutEos \/ HalClr
    BY <1>1, <1>2, <2>2, <2>6, HalTakeOrdered, HalDirectOrdered, HalPutOrdered, HalPutEosOrdered,
       HalClrOrdered DEF OrderInv
  <2>7. CASE PassOn \/ Deinterlace
    BY <1>1, <1>2, <2>2, <2>7, PassOnOrdered, FirstFrameOrdered, LastFrameOrdered DEF OrderInv
  <2>8. CASE Shift \/ Clear \/ Idle
    BY <1>1, <1>2, <2>2, <2>8, ShiftOrdered, ClearOrdered, IdleOrdered DEF OrderInv
  <2>9. CASE TakeFrame
    BY <1>1, <1>2, <2>2, <2>9, TakeFrameOrdered DEF OrderInv
  <2>10. CASE UNCHANGED vars
    BY <1>1, <1>2, <2>2, <2>10, StutterOrdered DEF OrderInv
  <2> QED BY <1>5, <2>3, <2>4, <2>5, <2>6, <2>7, <2>8, <2>9, <2>10
          DEF Next, ParserStep, HalStep, VprocStep
<1> QED
  BY <1>3, <1>4, <1>5

\* What a reader should know: however many pictures, geometry changes and resets
\* there are, and however the threads run, the frames come in the order of their
\* times with none missing, and nothing comes behind an end of stream but the
\* second frame of its pair.
THEOREM AlwaysInOrder == Spec => []FramesInOrder
<1>1. OrderInv => FramesInOrder
  <2> SUFFICES ASSUME OrderInv, apc = "run" PROVE FramesInOrder
    BY DEF FramesInOrder
  <2> DEFINE pts == [k \in DOMAIN frames |-> frames[k].pts]
             times == << shown >> \o pts
  <2>1. Order /\ frames \in Seq(Frames)
    BY DEF OrderInv, OwnInv, SlotTypes
  <2>2. DOMAIN frames = 1..Len(frames) /\ Len(frames) \in Nat
    BY <2>1
  <2>3. \A k \in DOMAIN frames : times[k + 1] = frames[k].pts
    <3>1. pts \in Seq(Int) /\ Len(pts) = Len(frames)
      <4>1. \A k \in DOMAIN frames : frames[k].pts \in Int
        <5>1. \A k \in DOMAIN frames : frames[k] \in Frames
          BY <2>1, Member
        <5> QED BY <5>1 DEF Frames
      <4>2. pts \in [1..Len(frames) -> Int]
        BY <2>2, <4>1
      <4> HIDE DEF pts
      <4> QED BY <2>2, <4>2
    <3>2. \A k \in DOMAIN frames : pts[k] = frames[k].pts
      OBVIOUS
    <3> HIDE DEF pts
    <3> QED BY <2>1, <2>2, <3>1, <3>2 DEF Order
  <2>4. \A k \in DOMAIN frames : times[k] = Before(k)
    <3>1. times[1] = shown
      BY <2>1, <2>2 DEF Order
    <3>2. ASSUME NEW k \in DOMAIN frames, k # 1 PROVE times[k] = frames[k - 1].pts
      <4>1. k - 1 \in DOMAIN frames /\ (k - 1) + 1 = k
        BY <2>2, <3>2
      <4> HIDE DEF times
      <4> QED BY <2>3, <4>1
    <3> HIDE DEF times
    <3> QED BY <3>1, <3>2 DEF Before
  <2> HIDE DEF times
  <2>5. \A k \in DOMAIN frames : times[k + 1] - times[k] \in {1, 2}
    BY <2>1, <2>3, <2>4 DEF Order, Times
  <2>6. \A k \in 1..(Len(frames) - 1) :
          frames[k].eos => /\ frames[k + 1].eos /\ k + 1 = Len(frames)
                           /\ frames[k + 1].pts = frames[k].pts + 1
    <3>1. \A k \in 1..(Len(frames) - 1) : k \in DOMAIN frames /\ k + 1 \in DOMAIN frames
      BY <2>2
    <3> QED BY <2>1, <3>1 DEF Order, Times
  <2> QED BY <2>5, <2>6 DEF FramesInOrder, times
<1>2. Init => OrderInv
  BY InitOrdered
<1>3. OrderInv /\ [Next]_vars => OrderInv'
  BY StepOrdered
<1> QED
  BY <1>1, <1>2, <1>3, PTL DEF Spec
=============================================================================
