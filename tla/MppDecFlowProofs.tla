--------------------------- MODULE MppDecFlowProofs ---------------------------
(***************************************************************************)
(* Proofs about MppDecFlow, for every number of slots, buffers, geometries *)
(* and pictures: the flags and counters of every slot are exactly those of *)
(* its users, and the hal thread runs the parser's flush only while the    *)
(* parser rests.  What becomes of the pictures in the slots is the subject *)
(* of MppDecPictureProofs.                                                 *)
(*                                                                         *)
(* The invariant is built in layers, each a conjunction of named parts,    *)
(* and each proved from the ones before it: types, the control of the two  *)
(* threads, their todo lists, the pictures on their way, the stages of the *)
(* display, and the flags of each slot.                                    *)
(***************************************************************************)
EXTENDS MppDecFlow, FiniteSetTheorems, SequenceTheorems, TLAPS

-----------------------------------------------------------------------------
(* Types *)

Entries == Slots \cup {NoSlot}
Flags == {"CODEC_USE", "HAL_INPUT", "HAL_OUTPUT", "QUEUE_USE"}
Refs == [slot : Entries, enqueued : BOOLEAN, size : Infos \cup {0}]
DecTasks ==
    [parsed : BOOLEAN, out : Entries, refer : Entries \X Entries, eos : BOOLEAN,
     infoGen : BOOLEAN, waitInfo : BOOLEAN, prevRdy : BOOLEAN]
HalJobs ==
    [kind : {"none", "frame", "info", "eos", "reset"}, out : Entries,
     refer : Entries \X Entries, eos : BOOLEAN]
OutFrames == [pic : Nat \cup {-1}, buf : Buffers \cup {NoBuf}, eos : BOOLEAN]
SlotCalls ==
    ({"set", "clr"} \X Slots \X Flags)
      \cup ({"enqueue"} \X Slots \X {"DISPLAY"})
      \cup ({"frame"} \X Slots \X Infos)
      \cup ({"reset", "put"} \X Slots \X {0})

SlotTypes ==
    /\ slot \in [Slots -> SlotEntry]
    /\ queue \in [QueueTypes -> Seq(Slots)]
    /\ usedCount \in Int /\ bufRef \in [Buffers -> Int] /\ slotError \in BOOLEAN
    /\ info \in Infos \cup {0} /\ infoSet \in Infos \cup {0} /\ infoChanged \in BOOLEAN

ParserTypes ==
    /\ ref0 \in Refs /\ ref1 \in Refs /\ foundI \in BOOLEAN /\ gotEos \in BOOLEAN
    /\ ppc \in {"top", "check", "submit", "eos", "waithal", "drain"}
    /\ ptodo \in Seq(SlotCalls) /\ task \in DecTasks

HalTypes ==
    /\ procQ \in Seq(HalJobs) /\ procDone \in Nat
    /\ hpc \in {"top", "hw", "push", "put"} /\ htodo \in Seq(SlotCalls)
    /\ hal \in HalJobs /\ hcur \in Entries

OtherTypes ==
    /\ resetFlag \in BOOLEAN /\ halReset \in {"none", "posted", "done"}
    /\ flushDue \in BOOLEAN /\ readyCmd \in BOOLEAN
    /\ frames \in Seq(OutFrames) /\ held \subseteq Buffers
    /\ pic \in [Slots -> Nat] /\ coded \in Seq({"I", "P", "B", "N"})
    /\ decoded \subseteq Nat /\ shown \in Seq(Nat) /\ dropped \subseteq Nat
    /\ eosSent \in Nat /\ Len(coded) <= MaxPics /\ resets \in 0 .. MaxResets

Types == SlotTypes /\ ParserTypes /\ HalTypes /\ OtherTypes

-----------------------------------------------------------------------------
(* The control of the threads *)

HasTask(kind) == \E k \in DOMAIN procQ : procQ[k].kind = kind
InfoShown == \E k \in DOMAIN frames : frames[k] = InfoFrame
OneInfoTask == \A j, k \in DOMAIN procQ : procQ[j].kind = "info" /\ procQ[k].kind = "info" => j = k
OneInfoFrame == \A j, k \in DOMAIN frames : frames[j] = InfoFrame /\ frames[k] = InfoFrame => j = k

\* The parser thread: where it has calls to make, and what it knows of its task.
ParserRests ==
    /\ ppc \in {"top", "submit", "waithal"} => ptodo = << >>
    /\ ppc \in {"check", "submit"} => task.parsed
    /\ ppc = "eos" => gotEos /\ ~task.parsed
    /\ ~task.parsed => ~task.infoGen /\ ~task.waitInfo /\ ~task.eos
    /\ task.waitInfo => task.infoGen
    /\ ppc = "submit" => ~task.infoGen
    /\ task.parsed => task.out # NoSlot
    /\ task.parsed /\ task.eos /\ ppc # "drain" => gotEos

\* The hal thread: the task it works on is the first one until it is taken away.
HalRests ==
    /\ hpc = "top" => htodo = << >> /\ hal = NoHal
    /\ hpc # "put" => hcur = NoSlot
    /\ hpc = "hw" => htodo = << >> /\ hal.kind = "frame"
    /\ hpc = "put" => htodo = << >> /\ hcur # NoSlot
    /\ hpc # "top" => hal.kind # "none"
    /\ hpc = "hw" \/ hal.kind \in {"info", "eos"} => procQ # << >> /\ hal = Head(procQ)
    /\ hal.kind = "reset" => procQ = << >> /\ halReset = "posted" /\ ~hal.eos
    /\ \A k \in DOMAIN procQ :
         /\ procQ[k].kind \in {"frame", "info", "eos"}
         /\ procQ[k].kind = "frame" => procQ[k].out # NoSlot

\* A reset: the parser thread waits for the hal thread, and then works alone.
HalAtRest == procQ = << >> /\ hpc = "top"
ResetSteps ==
    /\ (halReset # "none") = (ppc = "waithal")
    /\ ppc \in {"waithal", "drain"} => resetFlag
    /\ resetFlag => flushDue
    /\ hal.kind = "reset" /\ Valid(ref0) => ref0.enqueued
    /\ halReset = "done" => HalAtRest /\ (Valid(ref0) => ref0.enqueued)
    /\ ppc = "drain" => HalAtRest /\ ref0 = NoRef /\ ref1 = NoRef

\* Between the end of the parser's reset and the end of Mpp::reset all rests.
AfterReset ==
    flushDue /\ ~resetFlag =>
        HalAtRest /\ ppc = "top" /\ task = NoTask /\ ref0 = NoRef /\ ref1 = NoRef

\* A geometry change is under way in one place, and its picture waits for it.
ChangeAwaited == task.parsed /\ task.infoGen /\ infoChanged
InfoTaskRests ==
    HasTask("info") => /\ ChangeAwaited /\ ppc \in {"top", "waithal"}
                       /\ ~readyCmd /\ ~InfoShown
InfoFrameRests ==
    /\ readyCmd => ~InfoShown
    /\ InfoShown => IF task.parsed THEN ChangeAwaited ELSE flushDue
    /\ readyCmd /\ task.parsed => ChangeAwaited
InfoOnce == OneInfoTask /\ OneInfoFrame /\ InfoTaskRests /\ InfoFrameRests

\* After the end of the stream nothing is parsed.
EndsParsing ==
    (\E k \in DOMAIN procQ : procQ[k].eos) \/ hal.eos =>
        gotEos /\ ~task.parsed /\ ppc \in {"top", "waithal"}

\* There are tasks enough for what the parser thread is about to send.
TasksLeft ==
    /\ Len(procQ) + procDone <= HalTasks
    /\ ppc \in {"check", "submit", "eos"} => Len(procQ) + procDone < HalTasks

Control ==
    /\ ParserRests /\ HalRests /\ ResetSteps /\ AfterReset /\ InfoOnce
    /\ EndsParsing /\ TasksLeft

\* The hal thread flushes the parser.
Flushing == hal.kind \in {"info", "reset"} \/ hal.eos

-----------------------------------------------------------------------------
(* The calls that are still to be made *)

CallsIn(todo) == {todo[k] : k \in DOMAIN todo}
Calls == CallsIn(ptodo) \cup CallsIn(htodo)

SetOut(i) == <<"set", i, "HAL_OUTPUT">> \in Calls
SetIn(i) == <<"set", i, "HAL_INPUT">> \in Calls
SetRef(i) == <<"set", i, "CODEC_USE">> \in Calls
SetShow(i) == <<"set", i, "QUEUE_USE">> \in Calls
Show(i) == <<"enqueue", i, "DISPLAY">> \in Calls
ClrOut(i) == <<"clr", i, "HAL_OUTPUT">> \in Calls
ClrIn(i) == <<"clr", i, "HAL_INPUT">> \in Calls
ClrRef(i) == <<"clr", i, "CODEC_USE">> \in Calls
ClrShow(i) == <<"clr", i, "QUEUE_USE">> \in Calls
Forget(i) == <<"reset", i, 0>> \in Calls
GiveBack(i) == <<"put", i, 0>> \in Calls
Geometry(i) == \E z \in Infos : <<"frame", i, z>> \in Calls

\* Which call may come before which: none comes twice, an entry is marked before
\* it is queued, referred to before a use is taken away, and its buffer is given
\* back, or the entry forgotten, before its last use goes.
Before(c, d) ==
    /\ c # d
    /\ ~(c[1] = "enqueue" /\ d = <<"set", c[2], "QUEUE_USE">>)
    /\ ~(c[1] = "clr" /\ d[1] = "set" /\ d[3] = "HAL_INPUT")
    /\ ~(c[1] = "clr" /\ d[1] = "put")
    /\ ~(c[1] = "clr" /\ c[3] = "HAL_OUTPUT" /\ d[1] = "reset")
InOrder(todo) == \A j, k \in DOMAIN todo : j < k => Before(todo[j], todo[k])

IsRef(i) == i = ref0.slot \/ i = ref1.slot

\* Which calls the parser thread may have in hand, and for which entries.
ParserCalls ==
    \A c \in CallsIn(ptodo) :
        /\ c[1] = "set" /\ c[3] = "HAL_OUTPUT" => ppc = "check" /\ c[2] = task.out
        /\ c[1] = "set" /\ c[3] = "CODEC_USE" => /\ ppc = "check" /\ c[2] = task.out
                                                 /\ c[2] = ref0.slot
        /\ c[1] = "set" /\ c[3] = "HAL_INPUT" =>
             ppc = "check" /\ (c[2] = task.refer[1] \/ c[2] = task.refer[2])
        /\ c[1] = "frame" => ppc = "check" /\ c[2] = task.out
        /\ c[1] = "enqueue" \/ (c[1] = "set" /\ c[3] = "QUEUE_USE") =>
             /\ ppc \in {"check", "eos"}
             /\ IsRef(c[2]) \/ (ppc = "check" /\ c[2] = task.out)
        /\ c[1] = "clr" /\ c[3] = "CODEC_USE" => ppc \in {"check", "drain"} /\ ~IsRef(c[2])
        /\ c[1] = "clr" /\ c[3] # "CODEC_USE" => ppc = "drain"
        /\ c[1] = "put" => ppc = "drain" /\ <<"clr", c[2], "QUEUE_USE">> \in CallsIn(ptodo)
        /\ c[1] = "reset" => /\ ppc = "drain" /\ task.waitInfo /\ c[2] = task.out
                             /\ <<"clr", c[2], "HAL_OUTPUT">> \in CallsIn(ptodo)

\* And the hal thread.
HalCalls ==
    \A c \in CallsIn(htodo) :
        /\ hpc = "push"
        /\ \/ c[1] = "clr" /\ c[3] # "CODEC_USE"
           \/ /\ c[1] = "enqueue" \/ (c[1] = "set" /\ c[3] = "QUEUE_USE")
              /\ c[2] = ref0.slot /\ Flushing

\* What a picture is about to read is still a reference.
ReadsHeld == \A i \in Slots : SetIn(i) => IsRef(i) \/ ClrRef(i)

Todo == InOrder(ptodo) /\ InOrder(htodo) /\ ParserCalls /\ HalCalls /\ ReadsHeld

-----------------------------------------------------------------------------
(* The pictures on their way *)

Writing(i) == \E t \in InFlight : t.out = i
Reads(i) == Uses(i).hal_use

TasksDiffer ==
    /\ \A j, k \in DOMAIN procQ :
         procQ[j].kind = "frame" /\ procQ[k].kind = "frame" /\ procQ[j].out = procQ[k].out => j = k
    /\ \A k \in DOMAIN procQ :
         procQ[k].kind = "frame" /\ task.parsed =>
            /\ procQ[k].out # task.out
            /\ procQ[k].refer[1] # task.out /\ procQ[k].refer[2] # task.out

TasksRefer ==
    \A t \in InFlight : /\ t.out \in Slots /\ t.refer \in Entries \X Entries
                        /\ t.out # t.refer[1] /\ t.out # t.refer[2]
                        /\ t.refer[1] # NoSlot => t.refer[1] # t.refer[2]

TasksFew ==
    /\ IsFiniteSet(InFlight)
    /\ Cardinality(InFlight) <= Len(procQ) + (IF task.parsed /\ ppc # "drain" THEN 1 ELSE 0)

RefsDiffer == Valid(ref0) => ref0.slot # ref1.slot

OnTheWay == TasksDiffer /\ TasksRefer /\ TasksFew /\ RefsDiffer

-----------------------------------------------------------------------------
(* The stages of the display: marked to be queued, queued, taken out *)

InQ(i) == \E k \in DOMAIN queue["DISPLAY"] : queue["DISPLAY"][k] = i
Staged(i) == Show(i) \/ InQ(i) \/ hcur = i \/ ClrShow(i)

QueuedOnce ==
    \A j, k \in DOMAIN queue["DISPLAY"] : queue["DISPLAY"][j] = queue["DISPLAY"][k] => j = k

StagesDiffer ==
    \A i \in Slots :
        /\ Show(i) => ~InQ(i) /\ hcur # i /\ ~ClrShow(i)
        /\ InQ(i) => hcur # i /\ ~ClrShow(i)
        /\ hcur = i => ~ClrShow(i)
        /\ SetShow(i) => Show(i)

\* The entry that a reset gave up at once.
Forgotten(i) == ppc = "drain" /\ task.waitInfo /\ i = task.out /\ ~Forget(i)

\* The last reference is displayed later; a picture that is parsed is on its way
\* to the display; only what is ready leaves the display queue; what is written
\* has no clear pending; an entry that the reset forgets leaves the queue with it.
Displays ==
    /\ Valid(ref0) /\ ~ref0.enqueued => ~Staged(ref0.slot)
    /\ task.parsed /\ ppc # "drain" =>
         (task.out = ref0.slot /\ ~ref0.enqueued) \/ Show(task.out) \/ InQ(task.out)
    /\ \A i \in Slots : /\ hcur = i \/ ClrShow(i) => ~Writing(i) /\ ~ClrOut(i)
                        /\ ClrOut(i) => ~Writing(i)
                        /\ Forget(i) => InQ(i)
                        /\ Forgotten(i) => ~Staged(i)

Stages == QueuedOnce /\ StagesDiffer /\ Displays

-----------------------------------------------------------------------------
(* The flags of each entry *)

N(b) == IF b THEN 1 ELSE 0

InUses(i) == slot[i].hal_use + N(SetIn(i)) = Reads(i) + N(ClrIn(i))
QueueUses(i) ==
    slot[i].queue_use + N(SetShow(i)) =
        (IF InQ(i) THEN 2 ELSE 0) + N(hcur = i) + N(ClrShow(i)) + N(Show(i))
CodecUse(i) == slot[i].codec_use = ((IsRef(i) /\ ~SetRef(i)) \/ ClrRef(i))
Output(i) == slot[i].hal_output = ((Writing(i) /\ ~SetOut(i)) \/ ClrOut(i))
NotReady(i) == slot[i].not_ready = (Writing(i) \/ ClrOut(i))

\* Who still needs entry i.
Needed(i) ==
    \/ Writing(i) \/ IsRef(i) \/ Reads(i) > 0 \/ Staged(i)
    \/ ClrOut(i) \/ ClrIn(i) \/ ClrRef(i)
OnUse(i) == slot[i].on_used = (Needed(i) /\ ~Forgotten(i))

FlagsOf(i) ==
    InUses(i) /\ QueueUses(i) /\ CodecUse(i) /\ Output(i) /\ NotReady(i) /\ OnUse(i)
FlagsExact == \A i \in Slots : FlagsOf(i)

UsedEntries == {i \in Slots : slot[i].on_used}
UsedCounted == Cardinality(UsedEntries) <= usedCount /\ usedCount <= SlotCount

SlotInv ==
    /\ Types /\ Control /\ Todo /\ OnTheWay /\ Stages /\ FlagsExact
    /\ UsedCounted /\ ~slotError

-----------------------------------------------------------------------------
(* Sequences *)

\* One element more at the end.
LEMMA Appended ==
    ASSUME NEW S, NEW q \in Seq(S), NEW x \in S
    PROVE  /\ Append(q, x) \in Seq(S) /\ Len(Append(q, x)) = Len(q) + 1
           /\ \A k \in DOMAIN q : Append(q, x)[k] = q[k]
           /\ Append(q, x)[Len(q) + 1] = x
           /\ DOMAIN q = 1 .. Len(q) /\ DOMAIN Append(q, x) = 1 .. Len(q) + 1
           /\ Len(q) \in Nat
  OBVIOUS

\* One element less at the front.
LEMMA Advanced ==
    ASSUME NEW S, NEW q \in Seq(S), q # << >>
    PROVE  /\ Tail(q) \in Seq(S) /\ Len(Tail(q)) = Len(q) - 1 /\ Len(q) > 0
           /\ \A k \in 1 .. Len(q) - 1 : Tail(q)[k] = q[k + 1]
           /\ DOMAIN q = 1 .. Len(q) /\ DOMAIN Tail(q) = 1 .. Len(q) - 1
           /\ Head(q) = q[1] /\ Head(q) \in S /\ Len(q) \in Nat
  OBVIOUS

\* Two sequences after each other.
LEMMA Joined ==
    ASSUME NEW S, NEW a \in Seq(S), NEW b \in Seq(S)
    PROVE  /\ a \o b \in Seq(S)
           /\ \A k \in DOMAIN (a \o b) :
                (k \in DOMAIN a /\ (a \o b)[k] = a[k])
                  \/ (k - Len(a) \in DOMAIN b /\ (a \o b)[k] = b[k - Len(a)] /\ k \notin DOMAIN a)
           /\ \A k \in DOMAIN a : k \in DOMAIN (a \o b) /\ (a \o b)[k] = a[k]
           /\ \A k \in DOMAIN b : /\ k + Len(a) \in DOMAIN (a \o b)
                                  /\ (a \o b)[k + Len(a)] = b[k]
  OBVIOUS

\* What is left of a sequence of n behind place m.
LEMMA RestLength ==
    ASSUME NEW n \in Nat, NEW m \in 1 .. n
    PROVE  (IF m + 1 <= n THEN n - (m + 1) + 1 ELSE 0) = n - m
  <1>1. CASE m = n
    BY <1>1
  <1>2. CASE m # n
    <2>1. m + 1 <= n
      BY <1>2
    <2> QED  BY <2>1
  <1> QED  BY <1>1, <1>2

\* The element that stands at one place only is taken out.
LEMMA WithoutOne ==
    ASSUME NEW S, NEW q \in Seq(S), NEW x
    PROVE  /\ Without(q, x) \in Seq(S)
           /\ (\A j, k \in DOMAIN q : q[j] = q[k] => j = k) =>
                /\ \A k \in DOMAIN Without(q, x) : Without(q, x)[k] # x
                /\ \A y : y # x => ((\E k \in DOMAIN Without(q, x) : Without(q, x)[k] = y)
                                      <=> (\E k \in DOMAIN q : q[k] = y))
                /\ \A j, k \in DOMAIN Without(q, x) :
                     Without(q, x)[j] = Without(q, x)[k] => j = k
                /\ q # << >> /\ x = Head(q) => Without(q, x) = Tail(q)
  <1> DEFINE at == {k \in DOMAIN q : q[k] = x}
             m == CHOOSE k \in at : TRUE
             w == SubSeq(q, 1, m - 1) \o SubSeq(q, m + 1, Len(q))
  <1>1. CASE at = {}
    <2>1. Without(q, x) = q
      BY <1>1 DEF Without
    <2>2. \A k \in DOMAIN q : q[k] # x
      BY <1>1
    <2>3. q # << >> => Head(q) = q[1] /\ 1 \in DOMAIN q
      OBVIOUS
    <2> QED  BY <2>1, <2>2, <2>3
  <1>2. CASE at # {}
    <2>1. m \in DOMAIN q /\ q[m] = x
      BY <1>2
    <2>2. Without(q, x) = w
      BY <1>2 DEF Without, RemoveAt
    <2> HIDE DEF m
    <2>3. m \in 1 .. Len(q) /\ Len(q) \in Nat /\ DOMAIN q = 1 .. Len(q)
      BY <2>1
    <2> DEFINE a == SubSeq(q, 1, m - 1)
               b == SubSeq(q, m + 1, Len(q))
    <2>4. /\ a \in Seq(S) /\ Len(a) = m - 1 /\ \A k \in 1 .. m - 1 : a[k] = q[k]
      BY <2>3
    <2>5. /\ b \in Seq(S) /\ Len(b) = Len(q) - m /\ \A k \in 1 .. Len(q) - m : b[k] = q[k + m]
      <3>1. /\ b \in Seq(S)
            /\ Len(b) = IF m + 1 <= Len(q) THEN Len(q) - (m + 1) + 1 ELSE 0
            /\ \A k \in 1 .. Len(q) - (m + 1) + 1 : b[k] = q[m + 1 + k - 1]
        <4>1. m + 1 \in Int /\ Len(q) \in Int /\ \A k \in m + 1 .. Len(q) : q[k] \in S
          BY <2>3
        <4> QED  BY <4>1, SubSeqProperties
      <3>2. ASSUME NEW k \in 1 .. Len(q) - m PROVE b[k] = q[k + m]
        <4>1. k \in 1 .. Len(q) - (m + 1) + 1 /\ m + 1 + k - 1 = k + m
          BY <2>3
        <4> HIDE DEF b
        <4>2. b[k] = q[m + 1 + k - 1]
          BY <3>1, <4>1
        <4> QED  BY <4>1, <4>2
      <3>3. b \in Seq(S) /\ Len(b) = Len(q) - m
        <4>1. (IF m + 1 <= Len(q) THEN Len(q) - (m + 1) + 1 ELSE 0) = Len(q) - m
          BY <2>3, RestLength
        <4>2. ASSUME NEW l, l = IF m + 1 <= Len(q) THEN Len(q) - (m + 1) + 1 ELSE 0
              PROVE  l = Len(q) - m
          BY <4>1, <4>2
        <4> HIDE DEF b
        <4> QED  BY <3>1, <4>2
      <3> QED  BY <3>2, <3>3
    <2>6. /\ w \in Seq(S) /\ Len(w) = Len(q) - 1 /\ DOMAIN w = 1 .. Len(q) - 1
          /\ \A k \in 1 .. m - 1 : w[k] = q[k]
          /\ \A k \in m .. Len(q) - 1 : w[k] = q[k + 1]
      <3> HIDE DEF a, b
      <3>1. w = a \o b
        BY DEF a, b
      <3>2. w \in Seq(S) /\ Len(w) = Len(q) - 1 /\ DOMAIN w = 1 .. Len(q) - 1
        <4>1. a \in Seq(S) /\ b \in Seq(S) /\ Len(a) = m - 1 /\ Len(b) = Len(q) - m
          BY <2>4, <2>5
        <4>2. w \in Seq(S) /\ Len(w) = Len(a) + Len(b)
          BY <4>1, <3>1, ConcatProperties
        <4> HIDE DEF w, a, b
        <4>3. Len(w) = (m - 1) + (Len(q) - m)
          BY <4>1, <4>2
        <4>4. Len(w) = Len(q) - 1
          BY <4>3, <2>3
        <4>5. DOMAIN w = 1 .. Len(w)
          BY <4>2
        <4> QED  BY <4>2, <4>4, <4>5
      <3>3. ASSUME NEW k \in 1 .. m - 1 PROVE w[k] = q[k]
        <4>1. a \in Seq(S) /\ b \in Seq(S) /\ k \in 1 .. Len(a) + Len(b) /\ k <= Len(a)
          BY <2>3, <2>4, <2>5
        <4>2. (a \o b)[k] = a[k]
          BY <4>1, ConcatProperties
        <4> QED  BY <4>2, <3>1, <2>4
      <3>4. \A k \in m .. Len(q) - 1 : w[k] = q[k + 1]
        <4> TAKE k \in m .. Len(q) - 1
        <4>0. k > Len(a) /\ k <= Len(a) + Len(b) /\ k \in Nat /\ k - Len(a) = k - (m - 1)
          BY <2>3, <2>4, <2>5
        <4>1. w[k] = b[k - (m - 1)]
          <5>1. k \in 1 .. Len(a) + Len(b) /\ ~(k <= Len(a))
            BY <4>0, <2>4, <2>5
          <5>2. (a \o b)[k] = b[k - Len(a)]
            BY <5>1, <2>4, <2>5, ConcatProperties
          <5> QED  BY <5>2, <3>1, <4>0
        <4>2. k - (m - 1) \in 1 .. Len(q) - m
          BY <2>3
        <4>3. b[k - (m - 1)] = q[k - (m - 1) + m]
          BY <4>2, <2>5
        <4>4. k - (m - 1) + m = k + 1
          BY <2>3
        <4> QED  BY <4>1, <4>3, <4>4
      <3> QED  BY <3>2, <3>3, <3>4
    <2> HIDE DEF w, a, b
    <2>7. ASSUME \A j, k \in DOMAIN q : q[j] = q[k] => j = k
          PROVE  /\ \A k \in DOMAIN w : w[k] # x
                 /\ \A y : y # x => ((\E k \in DOMAIN w : w[k] = y) <=> (\E k \in DOMAIN q : q[k] = y))
                 /\ \A j, k \in DOMAIN w : w[j] = w[k] => j = k
                 /\ q # << >> /\ x = Head(q) => w = Tail(q)
      <3>1. \A k \in DOMAIN w : w[k] # x
        BY <2>1, <2>3, <2>6, <2>7
      <3>2. ASSUME NEW y, y # x, NEW k \in DOMAIN q, q[k] = y
            PROVE  \E j \in DOMAIN w : w[j] = y
        <4>1. k # m
          BY <2>1, <3>2
        <4>2. CASE k < m
          BY <4>2, <2>3, <2>6, <3>2
        <4>3. CASE k > m
          <5>1. k - 1 \in DOMAIN w /\ w[k - 1] = q[k - 1 + 1] /\ k - 1 + 1 = k
            BY <4>3, <2>3, <2>6
          <5> QED  BY <5>1, <3>2
        <4> QED  BY <4>1, <4>2, <4>3, <2>3
      <3>3. ASSUME NEW y, NEW k \in DOMAIN w, w[k] = y
            PROVE  \E j \in DOMAIN q : q[j] = y
        BY <3>3, <2>3, <2>6
      <3>4. ASSUME NEW j \in DOMAIN w, NEW k \in DOMAIN w, w[j] = w[k] PROVE j = k
        <4>1. PICK l \in DOMAIN q : w[j] = q[l] /\ l = (IF j < m THEN j ELSE j + 1)
          BY <2>3, <2>6
        <4>2. PICK n \in DOMAIN q : w[k] = q[n] /\ n = (IF k < m THEN k ELSE k + 1)
          BY <2>3, <2>6
        <4>3. l = n
          BY <2>7, <3>4, <4>1, <4>2
        <4> QED  BY <4>1, <4>2, <4>3, <2>3, <2>6
      <3>5. q # << >> /\ x = Head(q) => w = Tail(q)
        <4> SUFFICES ASSUME q # << >>, x = Head(q) PROVE w = Tail(q)
          OBVIOUS
        <4>1. m = 1
          BY <2>1, <2>3, <2>7
        <4>2. /\ Tail(q) \in Seq(S) /\ Len(Tail(q)) = Len(q) - 1
              /\ \A k \in 1 .. Len(q) - 1 : Tail(q)[k] = q[k + 1]
          OBVIOUS
        <4>3. \A k \in 1 .. Len(q) - 1 : w[k] = Tail(q)[k]
          BY <4>1, <4>2, <2>6
        <4> QED  BY <4>2, <4>3, <2>6
      <3> QED  BY <3>1, <3>2, <3>3, <3>4, <3>5
    <2> QED  BY <2>2, <2>6, <2>7
  <1> QED  BY <1>1, <1>2

-----------------------------------------------------------------------------
(* Todo lists *)

\* The calls of two todo lists put together, and their order.
LEMMA CallsAppend ==
    ASSUME NEW a \in Seq(SlotCalls), NEW b \in Seq(SlotCalls)
    PROVE  /\ a \o b \in Seq(SlotCalls)
           /\ CallsIn(a \o b) = CallsIn(a) \cup CallsIn(b)
           /\ InOrder(a) /\ InOrder(b) /\ (\A c \in CallsIn(a), d \in CallsIn(b) : Before(c, d))
                => InOrder(a \o b)
  <1> DEFINE s == a \o b
  <1>1. s \in Seq(SlotCalls)
    OBVIOUS
  <1>2. /\ \A k \in DOMAIN s : \/ k \in DOMAIN a /\ s[k] = a[k]
                               \/ k \notin DOMAIN a /\ k - Len(a) \in DOMAIN b /\ s[k] = b[k - Len(a)]
        /\ \A k \in DOMAIN a : k \in DOMAIN s /\ s[k] = a[k]
        /\ \A k \in DOMAIN b : k + Len(a) \in DOMAIN s /\ s[k + Len(a)] = b[k]
    BY Joined
  <1>3. DOMAIN a = 1 .. Len(a) /\ Len(a) \in Nat /\ DOMAIN s \subseteq Nat \ {0}
    OBVIOUS
  <1> HIDE DEF s
  <1>4. CallsIn(s) = CallsIn(a) \cup CallsIn(b)
    BY <1>2 DEF CallsIn
  <1>5. ASSUME InOrder(a), InOrder(b), \A c \in CallsIn(a), d \in CallsIn(b) : Before(c, d)
        PROVE  InOrder(s)
    <2> SUFFICES ASSUME NEW j \in DOMAIN s, NEW k \in DOMAIN s, j < k
                 PROVE  Before(s[j], s[k])
      BY DEF InOrder
    <2>1. CASE j \in DOMAIN a /\ k \in DOMAIN a
      BY <2>1, <1>2, <1>5 DEF InOrder
    <2>2. CASE j \in DOMAIN a /\ k \notin DOMAIN a
      <3>1. s[j] \in CallsIn(a) /\ s[k] \in CallsIn(b)
        BY <2>2, <1>2 DEF CallsIn
      <3> QED  BY <3>1, <1>5
    <2>3. CASE j \notin DOMAIN a /\ k \notin DOMAIN a
      <3>1. /\ j - Len(a) \in DOMAIN b /\ s[j] = b[j - Len(a)]
            /\ k - Len(a) \in DOMAIN b /\ s[k] = b[k - Len(a)]
        BY <2>3, <1>2
      <3>2. j - Len(a) < k - Len(a)
        BY <1>3
      <3> QED  BY <3>1, <3>2, <1>5 DEF InOrder
    <2>4. j \notin DOMAIN a => k \notin DOMAIN a
      BY <1>3
    <2> QED  BY <2>1, <2>2, <2>3, <2>4
  <1> QED  BY <1>1, <1>4, <1>5 DEF s

\* The short lists that the threads' lists are made of.
\* The empty list.
LEMMA NoCalls == << >> \in Seq(SlotCalls) /\ CallsIn(<< >>) = {} /\ InOrder(<< >>)
  BY DEF CallsIn, InOrder

\* A todo list of one call.
LEMMA OneCall ==
    ASSUME NEW c \in SlotCalls
    PROVE  << c >> \in Seq(SlotCalls) /\ CallsIn(<< c >>) = {c} /\ InOrder(<< c >>)
  <1>1. << c >> \in Seq(SlotCalls) /\ DOMAIN << c >> = {1} /\ << c >>[1] = c
    OBVIOUS
  <1> QED  BY <1>1 DEF CallsIn, InOrder

\* A todo list of two calls.
LEMMA TwoCalls ==
    ASSUME NEW c \in SlotCalls, NEW d \in SlotCalls, Before(c, d)
    PROVE  << c, d >> \in Seq(SlotCalls) /\ CallsIn(<< c, d >>) = {c, d} /\ InOrder(<< c, d >>)
  <1>1. << c, d >> \in Seq(SlotCalls) /\ DOMAIN << c, d >> = {1, 2}
        /\ << c, d >>[1] = c /\ << c, d >>[2] = d
    OBVIOUS
  <1> QED  BY <1>1 DEF CallsIn, InOrder

\* A todo list that is there on a condition.
LEMMA IfCalls ==
    ASSUME NEW s \in Seq(SlotCalls), NEW b \in BOOLEAN
    PROVE  /\ If(b, s) \in Seq(SlotCalls)
           /\ CallsIn(If(b, s)) = IF b THEN CallsIn(s) ELSE {}
           /\ InOrder(s) => InOrder(If(b, s))
  BY NoCalls DEF If

\* A call that is made leaves the list.
LEMMA CallsTail ==
    ASSUME NEW s \in Seq(SlotCalls), s # << >>, InOrder(s)
    PROVE  /\ Tail(s) \in Seq(SlotCalls) /\ Head(s) \in SlotCalls /\ Head(s) \in CallsIn(s)
           /\ CallsIn(Tail(s)) = CallsIn(s) \ {Head(s)}
           /\ InOrder(Tail(s))
           /\ \A c \in CallsIn(Tail(s)) : Before(Head(s), c)
  <1> DEFINE t == Tail(s)
  <1>1. /\ t \in Seq(SlotCalls) /\ Len(t) = Len(s) - 1 /\ Len(s) > 0
        /\ \A k \in 1 .. Len(s) - 1 : t[k] = s[k + 1]
        /\ DOMAIN s = 1 .. Len(s) /\ DOMAIN t = 1 .. Len(s) - 1
        /\ Head(s) = s[1] /\ Head(s) \in SlotCalls /\ Len(s) \in Nat
    BY Advanced
  <1> HIDE DEF t
  <1>2. \A c \in CallsIn(t) : Before(Head(s), c) /\ c \in CallsIn(s) /\ c # Head(s)
    <2> SUFFICES ASSUME NEW k \in DOMAIN t
                 PROVE  Before(Head(s), t[k]) /\ t[k] \in CallsIn(s) /\ t[k] # Head(s)
      BY DEF CallsIn
    <2>1. k + 1 \in DOMAIN s /\ t[k] = s[k + 1] /\ 1 \in DOMAIN s /\ 1 < k + 1
      BY <1>1
    <2>2. Before(s[1], s[k + 1])
      BY <2>1 DEF InOrder
    <2>3. s[1] # s[k + 1]
      BY <2>2 DEF Before
    <2> QED  BY <2>1, <2>2, <2>3, <1>1 DEF CallsIn
  <1>3. \A c \in CallsIn(s) : c = Head(s) \/ c \in CallsIn(t)
    <2> SUFFICES ASSUME NEW k \in DOMAIN s, k # 1 PROVE s[k] \in CallsIn(t)
      BY <1>1 DEF CallsIn
    <2>1. k - 1 \in DOMAIN t /\ t[k - 1] = s[k - 1 + 1] /\ k - 1 + 1 = k
      BY <1>1
    <2> QED  BY <2>1 DEF CallsIn
  <1>4. Head(s) \in CallsIn(s)
    BY <1>1 DEF CallsIn
  <1>5. InOrder(t)
    <2> SUFFICES ASSUME NEW j \in DOMAIN t, NEW k \in DOMAIN t, j < k
                 PROVE  Before(t[j], t[k])
      BY DEF InOrder
    <2>1. j + 1 \in DOMAIN s /\ k + 1 \in DOMAIN s /\ j + 1 < k + 1
          /\ t[j] = s[j + 1] /\ t[k] = s[k + 1]
      BY <1>1
    <2> QED  BY <2>1 DEF InOrder
  <1>6. CallsIn(t) = CallsIn(s) \ {Head(s)}
    BY <1>2, <1>3, <1>4
  <1> QED  BY <1>1, <1>2, <1>4, <1>5, <1>6 DEF t

-----------------------------------------------------------------------------
(* Slot operations *)

\* The fields of an entry after a use was set.
LEMMA SetOpFields ==
    ASSUME NEW s \in SlotEntry, NEW u \in Flags
    PROVE  /\ SetOp(s, u) \in SlotEntry
           /\ SetOp(s, u).on_used = s.on_used
           /\ SetOp(s, u).not_ready = (s.not_ready \/ u = "HAL_OUTPUT")
           /\ SetOp(s, u).codec_use = (s.codec_use \/ u = "CODEC_USE")
           /\ SetOp(s, u).hal_output = (s.hal_output \/ u = "HAL_OUTPUT")
           /\ SetOp(s, u).hal_use = IF u = "HAL_INPUT" THEN (s.hal_use + 1) % 256 ELSE s.hal_use
           /\ SetOp(s, u).queue_use =
                IF u = "QUEUE_USE" THEN (s.queue_use + 1) % 32 ELSE s.queue_use
           /\ SetOp(s, u).frame = s.frame /\ SetOp(s, u).frameBuf = s.frameBuf
           /\ SetOp(s, u).buffer = s.buffer
  <1> DEFINE a == s.codec_use \/ u = "CODEC_USE"
             h == IF u = "HAL_INPUT" THEN (s.hal_use + 1) % 256 ELSE s.hal_use
             o == s.hal_output \/ u = "HAL_OUTPUT"
             n == (s.not_ready /\ u # "CODEC_READY") \/ u = "HAL_OUTPUT"
             q == IF u = "QUEUE_USE" THEN (s.queue_use + 1) % 32 ELSE s.queue_use
  <1>1. SetOp(s, u) = [s EXCEPT !.codec_use = a, !.hal_use = h, !.hal_output = o,
                              !.not_ready = n, !.queue_use = q]
    BY Zenon DEF SetOp
  <1>2. h \in 0 .. 255 /\ q \in 0 .. 31
    BY DEF SlotEntry
  <1>3. n = (s.not_ready \/ u = "HAL_OUTPUT")
    BY DEF Flags, SlotEntry
  <1>4. a \in BOOLEAN /\ o \in BOOLEAN /\ n \in BOOLEAN
    BY Zenon
  <1> HIDE DEF a, h, o, n, q
  <1>5. SetOp(s, u) = [on_used |-> s.on_used, not_ready |-> n, codec_use |-> a, hal_output |-> o,
                     hal_use |-> h, queue_use |-> q, frame |-> s.frame,
                     frameBuf |-> s.frameBuf, buffer |-> s.buffer]
    <2> DEFINE t == SetOp(s, u)
    <2> HIDE DEF t
    <2>1. t = [s EXCEPT !.codec_use = a, !.hal_use = h, !.hal_output = o,
                        !.not_ready = n, !.queue_use = q]
      BY <1>1 DEF t
    <2> QED  BY <2>1 DEF SlotEntry, t
  <1>6. SetOp(s, u) \in SlotEntry
    BY <1>2, <1>4, <1>5 DEF SlotEntry
  <1>7. /\ SetOp(s, u).on_used = s.on_used /\ SetOp(s, u).not_ready = n
        /\ SetOp(s, u).codec_use = a /\ SetOp(s, u).hal_output = o
        /\ SetOp(s, u).hal_use = h /\ SetOp(s, u).queue_use = q
        /\ SetOp(s, u).frame = s.frame /\ SetOp(s, u).frameBuf = s.frameBuf
        /\ SetOp(s, u).buffer = s.buffer
    BY <1>5
  <1> QED  BY <1>3, <1>6, <1>7, Zenon DEF a, h, o, q

\* The fields of an entry after a use was cleared.
LEMMA ClrOpFields ==
    ASSUME NEW s \in SlotEntry, NEW u \in Flags
    PROVE  /\ ClrOp(s, u) \in SlotEntry
           /\ ClrOp(s, u).on_used = s.on_used
           /\ ClrOp(s, u).not_ready = (s.not_ready /\ u # "HAL_OUTPUT")
           /\ ClrOp(s, u).codec_use = (s.codec_use /\ u # "CODEC_USE")
           /\ ClrOp(s, u).hal_output = (s.hal_output /\ u # "HAL_OUTPUT")
           /\ ClrOp(s, u).hal_use = IF u = "HAL_INPUT" /\ s.hal_use > 0 THEN s.hal_use - 1 ELSE s.hal_use
           /\ ClrOp(s, u).queue_use =
                IF u = "QUEUE_USE" /\ s.queue_use > 0 THEN s.queue_use - 1 ELSE s.queue_use
           /\ ClrOp(s, u).frame = s.frame /\ ClrOp(s, u).frameBuf = s.frameBuf
           /\ ClrOp(s, u).buffer = s.buffer
  <1> DEFINE a == s.codec_use /\ u # "CODEC_USE"
             h == IF u = "HAL_INPUT" /\ s.hal_use > 0 THEN s.hal_use - 1 ELSE s.hal_use
             o == s.hal_output /\ u # "HAL_OUTPUT"
             n == (s.not_ready /\ u # "HAL_OUTPUT") \/ u = "CODEC_READY"
             q == IF u = "QUEUE_USE" /\ s.queue_use > 0 THEN s.queue_use - 1 ELSE s.queue_use
  <1>1. ClrOp(s, u) = [s EXCEPT !.codec_use = a, !.hal_use = h, !.hal_output = o,
                              !.not_ready = n, !.queue_use = q]
    BY Zenon DEF ClrOp
  <1>2. h \in 0 .. 255 /\ q \in 0 .. 31
    BY DEF SlotEntry
  <1>3. n = (s.not_ready /\ u # "HAL_OUTPUT")
    BY DEF Flags, SlotEntry
  <1>4. a \in BOOLEAN /\ o \in BOOLEAN /\ n \in BOOLEAN
    BY Zenon
  <1> HIDE DEF a, h, o, n, q
  <1>5. ClrOp(s, u) = [on_used |-> s.on_used, not_ready |-> n, codec_use |-> a, hal_output |-> o,
                     hal_use |-> h, queue_use |-> q, frame |-> s.frame,
                     frameBuf |-> s.frameBuf, buffer |-> s.buffer]
    <2> DEFINE t == ClrOp(s, u)
    <2> HIDE DEF t
    <2>1. t = [s EXCEPT !.codec_use = a, !.hal_use = h, !.hal_output = o,
                        !.not_ready = n, !.queue_use = q]
      BY <1>1 DEF t
    <2> QED  BY <2>1 DEF SlotEntry, t
  <1>6. ClrOp(s, u) \in SlotEntry
    BY <1>2, <1>4, <1>5 DEF SlotEntry
  <1>7. /\ ClrOp(s, u).on_used = s.on_used /\ ClrOp(s, u).not_ready = n
        /\ ClrOp(s, u).codec_use = a /\ ClrOp(s, u).hal_output = o
        /\ ClrOp(s, u).hal_use = h /\ ClrOp(s, u).queue_use = q
        /\ ClrOp(s, u).frame = s.frame /\ ClrOp(s, u).frameBuf = s.frameBuf
        /\ ClrOp(s, u).buffer = s.buffer
    BY <1>5
  <1> QED  BY <1>3, <1>6, <1>7, Zenon DEF a, h, o, q

\* References on buffers.
LEMMA RefAddType ==
    ASSUME NEW refs \in [Buffers -> Int], NEW b, NEW n \in Int
    PROVE  /\ RefAdd(refs, b, n) \in [Buffers -> Int]
           /\ \A x \in Buffers : RefAdd(refs, b, n)[x] = refs[x] + (IF x = b THEN n ELSE 0)
  BY DEF RefAdd

\* What a queue holds after an entry was unlinked or linked again.
LEMMA UnlinkedType ==
    ASSUME queue \in [QueueTypes -> Seq(Slots)], NEW i \in Slots
    PROVE  /\ Unlinked(i) \in [QueueTypes -> Seq(Slots)]
           /\ Unlinked(i)["DISPLAY"] = Without(queue["DISPLAY"], i)
  <1>1. \A q \in QueueTypes : Without(queue[q], i) \in Seq(Slots)
    BY WithoutOne
  <1> QED  BY <1>1 DEF Unlinked, QueueTypes

\* mpp_buf_slot_enqueue puts the entry at the end of the display queue, once.
LEMMA LinkedType ==
    ASSUME queue \in [QueueTypes -> Seq(Slots)], NEW i \in Slots
    PROVE  /\ Linked(i, "DISPLAY") \in [QueueTypes -> Seq(Slots)]
           /\ Linked(i, "DISPLAY")["DISPLAY"] = Append(Without(queue["DISPLAY"], i), i)
  <1>1. Unlinked(i) \in [QueueTypes -> Seq(Slots)]
    BY UnlinkedType
  <1>2. Append(Unlinked(i)["DISPLAY"], i) \in Seq(Slots)
    BY <1>1, Appended DEF QueueTypes
  <1> QED  BY <1>1, <1>2, UnlinkedType DEF Linked, QueueTypes

\* Which calls there are.
LEMMA CallKinds ==
    ASSUME NEW c \in SlotCalls
    PROVE  /\ c[2] \in Slots
           /\ \/ c[1] \in {"set", "clr"} /\ c[3] \in Flags
              \/ c[1] = "enqueue" /\ c[3] = "DISPLAY"
              \/ c[1] = "frame" /\ c[3] \in Infos
              \/ c[1] \in {"reset", "put"} /\ c[3] = 0
           /\ c = << c[1], c[2], c[3] >>
  BY DEF SlotCalls

\* What the calls that change one entry do to the table.
OnlyEntry(i) == \A j \in Slots : j # i => slot'[j] = slot[j]

\* mpp_buf_slot_set_flag changes its entry and nothing else.
LEMMA SetFlagEffect ==
    ASSUME SlotTypes, NEW i \in Slots, NEW u \in Flags, SetFlag(i, u)
    PROVE  /\ SlotTypes' /\ OnlyEntry(i) /\ slot'[i] = SetOp(slot[i], u)
           /\ UNCHANGED <<queue, usedCount, info, infoSet, infoChanged, bufRef, slotError>>
  <1>1. SetOp(slot[i], u) \in SlotEntry
    BY SetOpFields DEF SlotTypes
  <1>2. slot' = [slot EXCEPT ![i] = SetOp(slot[i], u)]
        /\ UNCHANGED <<queue, usedCount, info, infoSet, infoChanged, bufRef, slotError>>
    BY Zenon DEF SetFlag
  <1>3. slot' \in [Slots -> SlotEntry] /\ OnlyEntry(i) /\ slot'[i] = SetOp(slot[i], u)
    BY <1>1, <1>2 DEF SlotTypes, OnlyEntry
  <1> QED  BY <1>2, <1>3 DEF SlotTypes

\* An entry that lost its last user gives its buffer back.
LEMMA ReleaseEffect ==
    ASSUME SlotTypes, NEW i \in Slots, NEW s \in SlotEntry, CheckEntryUnused(i, s)
    PROVE  /\ slot' \in [Slots -> SlotEntry] /\ usedCount' \in Int /\ bufRef' \in [Buffers -> Int]
           /\ OnlyEntry(i)
           /\ slot'[i].on_used = (s.on_used /\ ~Unused(s))
           /\ slot'[i].not_ready = s.not_ready /\ slot'[i].codec_use = s.codec_use
           /\ slot'[i].hal_output = s.hal_output /\ slot'[i].hal_use = s.hal_use
           /\ slot'[i].queue_use = s.queue_use
           /\ Unused(s) => /\ slot'[i].buffer = NoBuf /\ slot'[i].frameBuf = NoBuf
                           /\ bufRef' = ReleasedRefs(s) /\ usedCount' = usedCount - 1
           /\ ~Unused(s) => slot'[i] = s /\ bufRef' = bufRef /\ usedCount' = usedCount
  <1> DEFINE r == [s EXCEPT !.on_used = FALSE, !.frame = FALSE,
                            !.frameBuf = NoBuf, !.buffer = NoBuf]
  <1>1. CASE /\ Unused(s) /\ slot' = [slot EXCEPT ![i] = r]
             /\ bufRef' = ReleasedRefs(s) /\ usedCount' = usedCount - 1
    <2>1. r \in SlotEntry
      BY ZenonT(60) DEF SlotEntry
    <2>2. /\ r.on_used = FALSE /\ r.not_ready = s.not_ready /\ r.codec_use = s.codec_use
          /\ r.hal_output = s.hal_output /\ r.hal_use = s.hal_use
          /\ r.queue_use = s.queue_use /\ r.buffer = NoBuf /\ r.frameBuf = NoBuf
      BY DEF SlotEntry
    <2> HIDE DEF r
    <2>3. slot' \in [Slots -> SlotEntry] /\ OnlyEntry(i) /\ slot'[i] = r
      BY <1>1, <2>1 DEF SlotTypes, OnlyEntry
    <2>4. ReleasedRefs(s) \in [Buffers -> Int]
      <3>1. RefAdd(bufRef, s.frameBuf, -1) \in [Buffers -> Int]
        BY RefAddType DEF SlotTypes
      <3> QED  BY <3>1, RefAddType DEF ReleasedRefs
    <2>5. usedCount - 1 \in Int
      BY DEF SlotTypes
    <2> QED  BY <1>1, <2>2, <2>3, <2>4, <2>5
  <1>2. CASE /\ ~Unused(s) /\ slot' = [slot EXCEPT ![i] = s]
             /\ UNCHANGED <<bufRef, usedCount>>
    <2>1. slot' \in [Slots -> SlotEntry] /\ OnlyEntry(i) /\ slot'[i] = s
      BY <1>2 DEF SlotTypes, OnlyEntry
    <2>2. s.on_used \in BOOLEAN
      BY DEF SlotEntry
    <2> QED  BY <1>2, <2>1, <2>2 DEF SlotTypes
  <1> QED  BY <1>1, <1>2, Zenon DEF CheckEntryUnused

\* mpp_buf_slot_clr_flag takes one use away, and may free the entry; an error
\* is an unmatched clear.
LEMMA ClrFlagEffect ==
    ASSUME SlotTypes, NEW i \in Slots, NEW u \in Flags, ClrFlag(i, u)
    PROVE  /\ SlotTypes' /\ OnlyEntry(i)
           /\ UNCHANGED <<queue, info, infoSet, infoChanged>>
           /\ slotError' = (slotError \/ ClrIsError(slot[i], u))
           /\ ClrOp(slot[i], u) \in SlotEntry
           /\ CheckEntryUnused(i, ClrOp(slot[i], u))
  <1>1. ClrOp(slot[i], u) \in SlotEntry
    BY ClrOpFields DEF SlotTypes
  <1>2. /\ CheckEntryUnused(i, ClrOp(slot[i], u))
        /\ slotError' = (slotError \/ ClrIsError(slot[i], u))
        /\ UNCHANGED <<queue, info, infoSet, infoChanged>>
    BY DEF ClrFlag
  <1>3. slot' \in [Slots -> SlotEntry] /\ usedCount' \in Int /\ bufRef' \in [Buffers -> Int]
        /\ OnlyEntry(i)
    BY <1>1, <1>2, ReleaseEffect
  <1>4. slotError' \in BOOLEAN
    BY <1>2
  <1> QED  BY <1>1, <1>2, <1>3, <1>4 DEF SlotTypes

\* What the calls that move an entry in the display queue do.
LEMMA EnqueueEffect ==
    ASSUME SlotTypes, NEW i \in Slots, Enqueue(i, "DISPLAY")
    PROVE  /\ SlotTypes' /\ OnlyEntry(i)
           /\ slot'[i] = [slot[i] EXCEPT !.queue_use = (slot[i].queue_use + 1) % 32]
           /\ queue'["DISPLAY"] = Append(Without(queue["DISPLAY"], i), i)
           /\ UNCHANGED <<usedCount, info, infoSet, infoChanged, bufRef, slotError>>
  <1> DEFINE n == (slot[i].queue_use + 1) % 32
  <1>1. slot' = [slot EXCEPT ![i].queue_use = n] /\ queue' = Linked(i, "DISPLAY")
        /\ UNCHANGED <<usedCount, info, infoSet, infoChanged, bufRef, slotError>>
    BY Zenon DEF Enqueue
  <1>2. n \in 0 .. 31
    <2>1. slot[i].queue_use \in 0 .. 31
      BY DEF SlotTypes, SlotEntry
    <2> QED  BY <2>1
  <1> HIDE DEF n
  <1> DEFINE r == [slot[i] EXCEPT !.queue_use = n]
  <1>3. slot' \in [Slots -> SlotEntry] /\ OnlyEntry(i) /\ slot'[i] = r
    <2>1. r \in SlotEntry
      <3>1. slot[i] \in SlotEntry
        BY DEF SlotTypes
      <3> QED  BY <1>2, <3>1, ZenonT(60) DEF SlotEntry
    <2>2. slot' = [slot EXCEPT ![i] = r]
      BY <1>1
    <2> HIDE DEF r
    <2> QED  BY <2>1, <2>2 DEF SlotTypes, OnlyEntry
  <1>4. queue' \in [QueueTypes -> Seq(Slots)]
        /\ queue'["DISPLAY"] = Append(Without(queue["DISPLAY"], i), i)
    BY <1>1, LinkedType DEF SlotTypes
  <1> QED  BY <1>1, <1>3, <1>4 DEF SlotTypes, n

\* mpp_buf_slot_dequeue takes the head of the display queue, which must be ready.
LEMMA DequeueEffect ==
    ASSUME SlotTypes, NEW i \in Slots, Dequeue(i, "DISPLAY")
    PROVE  /\ SlotTypes' /\ OnlyEntry(i)
           /\ slot'[i] = [slot[i] EXCEPT !.queue_use = IF slot[i].queue_use > 0
                                                       THEN slot[i].queue_use - 1
                                                       ELSE slot[i].queue_use]
           /\ queue'["DISPLAY"] = Without(queue["DISPLAY"], i)
           /\ queue["DISPLAY"] # << >> /\ i = Head(queue["DISPLAY"]) /\ ~slot[i].not_ready
           /\ slotError' = (slotError \/ slot[i].queue_use = 0)
           /\ UNCHANGED <<usedCount, info, infoSet, infoChanged, bufRef>>
  <1> DEFINE n == IF slot[i].queue_use > 0 THEN slot[i].queue_use - 1 ELSE slot[i].queue_use
  <1>1. /\ slot' = [slot EXCEPT ![i].queue_use = n] /\ queue' = Unlinked(i)
        /\ queue["DISPLAY"] # << >> /\ i = Head(queue["DISPLAY"]) /\ ~slot[i].not_ready
        /\ slotError' = (slotError \/ slot[i].queue_use = 0)
        /\ UNCHANGED <<usedCount, info, infoSet, infoChanged, bufRef>>
    BY Zenon DEF Dequeue, CanDequeue
  <1>2. n \in 0 .. 31
    <2>1. slot[i].queue_use \in 0 .. 31
      BY DEF SlotTypes, SlotEntry
    <2> QED  BY <2>1
  <1> HIDE DEF n
  <1> DEFINE r == [slot[i] EXCEPT !.queue_use = n]
  <1>3. slot' \in [Slots -> SlotEntry] /\ OnlyEntry(i) /\ slot'[i] = r
    <2>1. r \in SlotEntry
      <3>1. slot[i] \in SlotEntry
        BY DEF SlotTypes
      <3> QED  BY <1>2, <3>1, ZenonT(60) DEF SlotEntry
    <2>2. slot' = [slot EXCEPT ![i] = r]
      BY <1>1
    <2> HIDE DEF r
    <2> QED  BY <2>1, <2>2 DEF SlotTypes, OnlyEntry
  <1>4. queue' \in [QueueTypes -> Seq(Slots)]
        /\ queue'["DISPLAY"] = Without(queue["DISPLAY"], i)
    BY <1>1, UnlinkedType DEF SlotTypes
  <1>5. slotError' \in BOOLEAN
    BY <1>1
  <1> QED  BY <1>1, <1>3, <1>4, <1>5 DEF SlotTypes, n

\* mpp_buf_slot_reset, which does not release the entry.
LEMMA SlotResetEffect ==
    ASSUME SlotTypes, NEW i \in Slots, SlotReset(i)
    PROVE  /\ SlotTypes' /\ OnlyEntry(i)
           /\ slot'[i] = [slot[i] EXCEPT !.on_used = FALSE,
                                      !.queue_use = IF slot[i].queue_use > 1
                                                    THEN slot[i].queue_use - 2 ELSE 0]
           /\ queue'["DISPLAY"] = Without(queue["DISPLAY"], i)
           /\ slotError' = (slotError \/ slot[i].queue_use < 2)
           /\ UNCHANGED <<usedCount, info, infoSet, infoChanged, bufRef>>
  <1> DEFINE n == IF slot[i].queue_use > 1 THEN slot[i].queue_use - 2 ELSE 0
  <1>1. /\ slot' = [slot EXCEPT ![i].on_used = FALSE, ![i].queue_use = n]
        /\ queue' = Unlinked(i)
        /\ slotError' = (slotError \/ slot[i].queue_use < 2)
        /\ UNCHANGED <<usedCount, info, infoSet, infoChanged, bufRef>>
    BY Zenon DEF SlotReset
  <1>2. n \in 0 .. 31
    <2>1. slot[i].queue_use \in 0 .. 31
      BY DEF SlotTypes, SlotEntry
    <2> QED  BY <2>1
  <1> HIDE DEF n
  <1> DEFINE r == [slot[i] EXCEPT !.on_used = FALSE, !.queue_use = n]
  <1>3. slot' \in [Slots -> SlotEntry] /\ OnlyEntry(i) /\ slot'[i] = r
    <2>1. r \in SlotEntry
      <3>1. slot[i] \in SlotEntry
        BY DEF SlotTypes
      <3> QED  BY <1>2, <3>1, ZenonT(60) DEF SlotEntry
    <2>2. slot' = [slot EXCEPT ![i] = r]
      BY <1>1
    <2> HIDE DEF r
    <2> QED  BY <2>1, <2>2 DEF SlotTypes, OnlyEntry
  <1>4. queue' \in [QueueTypes -> Seq(Slots)]
        /\ queue'["DISPLAY"] = Without(queue["DISPLAY"], i)
    BY <1>1, UnlinkedType DEF SlotTypes
  <1>5. slotError' \in BOOLEAN
    BY <1>1
  <1> QED  BY <1>1, <1>3, <1>4, <1>5 DEF SlotTypes, n

\* A picture's frame, and the extra reference of its buffer.
LEMMA SetFrameEffect ==
    ASSUME SlotTypes, NEW i \in Slots, NEW z \in Infos, SetFrame(i, z)
    PROVE  /\ SlotTypes' /\ OnlyEntry(i)
           /\ slot'[i] = [slot[i] EXCEPT !.frame = TRUE, !.frameBuf = NoBuf]
           /\ UNCHANGED <<queue, usedCount, info, bufRef, slotError>>
           /\ infoSet' = z /\ infoChanged' = (infoChanged \/ z # info)
  <1> DEFINE r == [slot[i] EXCEPT !.frame = TRUE, !.frameBuf = NoBuf]
  <1>1. /\ slot' = [slot EXCEPT ![i] = r]
        /\ UNCHANGED <<queue, usedCount, info, bufRef, slotError>>
        /\ infoSet' = z /\ infoChanged' = (infoChanged \/ z # info)
    BY DEF SetFrame
  <1>2. r \in SlotEntry
    <2>1. slot[i] \in SlotEntry
      BY DEF SlotTypes
    <2> QED  BY <2>1, ZenonT(60) DEF SlotEntry
  <1> HIDE DEF r
  <1>3. slot' \in [Slots -> SlotEntry] /\ OnlyEntry(i) /\ slot'[i] = r
    BY <1>1, <1>2 DEF SlotTypes, OnlyEntry
  <1>4. infoChanged' \in BOOLEAN
    BY <1>1
  <1> QED  BY <1>1, <1>3, <1>4 DEF SlotTypes, r

PutBuffer(i) ==
    /\ bufRef' = RefAdd(bufRef, slot[i].buffer, -1)
    /\ UNCHANGED <<slot, queue, usedCount, info, infoSet, infoChanged, slotError>>

\* Giving a buffer back (mpp_buffer_put) keeps the types of the table.
LEMMA PutEffect ==
    ASSUME SlotTypes, NEW i \in Slots, PutBuffer(i)
    PROVE  SlotTypes'
  <1>1. bufRef' \in [Buffers -> Int]
    BY RefAddType DEF PutBuffer, SlotTypes
  <1> QED  BY <1>1 DEF SlotTypes, PutBuffer

\* The call that a thread makes is one of these.
LEMMA CallEffect ==
    ASSUME SlotTypes, NEW c \in SlotCalls, Call(c)
    PROVE  /\ SlotTypes' /\ c[2] \in Slots
           /\ \/ c[1] = "set" /\ c[3] \in Flags /\ SetFlag(c[2], c[3])
              \/ c[1] = "clr" /\ c[3] \in Flags /\ ClrFlag(c[2], c[3])
              \/ c[1] = "enqueue" /\ Enqueue(c[2], "DISPLAY")
              \/ c[1] = "frame" /\ c[3] \in Infos /\ SetFrame(c[2], c[3])
              \/ c[1] = "reset" /\ SlotReset(c[2])
              \/ c[1] = "put" /\ PutBuffer(c[2])
  <1>1. /\ c[2] \in Slots
        /\ \/ c[1] = "set" /\ c[3] \in Flags
           \/ c[1] = "clr" /\ c[3] \in Flags
           \/ c[1] = "enqueue" /\ c[3] = "DISPLAY"
           \/ c[1] = "frame" /\ c[3] \in Infos
           \/ c[1] = "reset"
           \/ c[1] = "put"
    BY CallKinds
  <1>2. \/ c[1] = "set" /\ SetFlag(c[2], c[3])
        \/ c[1] = "clr" /\ ClrFlag(c[2], c[3])
        \/ c[1] = "enqueue" /\ Enqueue(c[2], c[3])
        \/ c[1] = "frame" /\ SetFrame(c[2], c[3])
        \/ c[1] = "reset" /\ SlotReset(c[2])
        \/ c[1] = "put" /\ PutBuffer(c[2])
    BY Zenon DEF Call, PutBuffer
  <1>3. \/ c[1] = "set" /\ c[3] \in Flags /\ SetFlag(c[2], c[3])
        \/ c[1] = "clr" /\ c[3] \in Flags /\ ClrFlag(c[2], c[3])
        \/ c[1] = "enqueue" /\ Enqueue(c[2], "DISPLAY")
        \/ c[1] = "frame" /\ c[3] \in Infos /\ SetFrame(c[2], c[3])
        \/ c[1] = "reset" /\ SlotReset(c[2])
        \/ c[1] = "put" /\ PutBuffer(c[2])
    BY <1>1, <1>2
  <1>4. SlotTypes'
    <2>1. CASE c[1] = "set" /\ c[3] \in Flags /\ SetFlag(c[2], c[3])
      BY <1>1, <2>1, SetFlagEffect
    <2>2. CASE c[1] = "clr" /\ c[3] \in Flags /\ ClrFlag(c[2], c[3])
      BY <1>1, <2>2, ClrFlagEffect
    <2>3. CASE c[1] = "enqueue" /\ Enqueue(c[2], "DISPLAY")
      BY <1>1, <2>3, EnqueueEffect
    <2>4. CASE c[1] = "frame" /\ c[3] \in Infos /\ SetFrame(c[2], c[3])
      BY <1>1, <2>4, SetFrameEffect
    <2>5. CASE c[1] = "reset" /\ SlotReset(c[2])
      BY <1>1, <2>5, SlotResetEffect
    <2>6. CASE c[1] = "put" /\ PutBuffer(c[2])
      BY <1>1, <2>6, PutEffect
    <2> QED  BY <1>3, <2>1, <2>2, <2>3, <2>4, <2>5, <2>6
  <1> QED  BY <1>1, <1>3, <1>4

\* A slot is taken for a new picture.
LEMMA GetUnusedEffect ==
    ASSUME SlotTypes, NEW i \in Slots, GetUnused(i)
    PROVE  /\ SlotTypes' /\ OnlyEntry(i) /\ ~slot[i].on_used
           /\ slot'[i] = [slot[i] EXCEPT !.on_used = TRUE, !.not_ready = TRUE]
           /\ usedCount' = usedCount + 1
           /\ UNCHANGED <<queue, info, infoSet, infoChanged, bufRef, slotError>>
  <1> DEFINE r == [slot[i] EXCEPT !.on_used = TRUE, !.not_ready = TRUE]
  <1>1. /\ slot' = [slot EXCEPT ![i] = r] /\ ~slot[i].on_used
        /\ usedCount' = usedCount + 1
        /\ UNCHANGED <<queue, info, infoSet, infoChanged, bufRef, slotError>>
    BY DEF GetUnused, FreeSlots
  <1>2. r \in SlotEntry
    <2>1. slot[i] \in SlotEntry
      BY DEF SlotTypes
    <2> QED  BY <2>1, ZenonT(60) DEF SlotEntry
  <1> HIDE DEF r
  <1>3. slot' \in [Slots -> SlotEntry] /\ OnlyEntry(i) /\ slot'[i] = r
    BY <1>1, <1>2 DEF SlotTypes, OnlyEntry
  <1> QED  BY <1>1, <1>3 DEF SlotTypes, r

\* A slot gets a hardware buffer.
LEMMA SetBufferEffect ==
    ASSUME SlotTypes, NEW i \in Slots, NEW b \in Buffers, SetBuffer(i, b)
    PROVE  /\ SlotTypes' /\ OnlyEntry(i)
           /\ slot'[i] = [slot[i] EXCEPT !.buffer = b,
                                         !.frameBuf = IF slot[i].frame THEN b
                                                      ELSE slot[i].frameBuf]
           /\ UNCHANGED <<queue, usedCount, info, infoSet, infoChanged, slotError>>
           /\ bufRef' = RefAdd(RefAdd(RefAdd(bufRef, slot[i].buffer, -1),
                                      IF slot[i].frame THEN slot[i].frameBuf ELSE NoBuf, -1),
                               b, IF slot[i].frame THEN 3 ELSE 2)
  <1> DEFINE f == IF slot[i].frame THEN b ELSE slot[i].frameBuf
             r == [slot[i] EXCEPT !.buffer = b, !.frameBuf = f]
             old == IF slot[i].frame THEN slot[i].frameBuf ELSE NoBuf
             n == IF slot[i].frame THEN 3 ELSE 2
  <1>1. /\ slot' = [slot EXCEPT ![i].buffer = b, ![i].frameBuf = f]
        /\ UNCHANGED <<queue, usedCount, info, infoSet, infoChanged, slotError>>
        /\ bufRef' = RefAdd(RefAdd(RefAdd(bufRef, slot[i].buffer, -1), old, -1), b, n)
    BY Zenon DEF SetBuffer
  <1>2. slot[i] \in SlotEntry /\ f \in Buffers \cup {NoBuf} /\ n \in Int
    BY DEF SlotTypes, SlotEntry
  <1> HIDE DEF f, n, old
  <1>3. r \in SlotEntry
    BY <1>2, ZenonT(60) DEF SlotEntry
  <1>4. slot' = [slot EXCEPT ![i] = r]
    BY <1>1, <1>2
  <1>5. slot' \in [Slots -> SlotEntry] /\ OnlyEntry(i) /\ slot'[i] = r
    <2> HIDE DEF r
    <2> QED  BY <1>3, <1>4 DEF SlotTypes, OnlyEntry
  <1>6. bufRef' \in [Buffers -> Int]
    <2>1. RefAdd(bufRef, slot[i].buffer, -1) \in [Buffers -> Int]
      BY RefAddType DEF SlotTypes
    <2>2. RefAdd(RefAdd(bufRef, slot[i].buffer, -1), old, -1) \in [Buffers -> Int]
      BY <2>1, RefAddType
    <2> QED  BY <1>1, <1>2, <2>2, RefAddType
  <1> QED  BY <1>1, <1>5, <1>6, Zenon DEF SlotTypes, r, f, n, old

\* The answer to a geometry change (mpp_buf_slot_ready) keeps the types of the table.
LEMMA ReadyEffect == ASSUME SlotTypes, Ready PROVE SlotTypes'
  BY DEF SlotTypes, Ready

\* The calls of each list, as sets.
ShowSet(i) == {<<"set", i, "QUEUE_USE">>, <<"enqueue", i, "DISPLAY">>}
FlushSet(r) == IF Valid(r) /\ ~r.enqueued THEN ShowSet(r.slot) ELSE {}
ReferSet(r) == IF Valid(r) THEN {<<"set", r.slot, "HAL_INPUT">>} ELSE {}
UnrefSet(r) == IF Valid(r) THEN {<<"clr", r.slot, "CODEC_USE">>} ELSE {}
ClrInSet(i) == IF i # NoSlot THEN {<<"clr", i, "HAL_INPUT">>} ELSE {}
DoneSet(t) == {<<"clr", t.out, "HAL_OUTPUT">>} \cup ClrInSet(t.refer[1]) \cup ClrInSet(t.refer[2])

\* A list is well formed and its calls are those of a set.
Lists(todo, calls) == todo \in Seq(SlotCalls) /\ CallsIn(todo) = calls /\ InOrder(todo)

\* Lists after each other list the calls of both.
LEMMA ListsJoin ==
    ASSUME NEW a, NEW b, NEW A, NEW B, Lists(a, A), Lists(b, B),
           \A c \in A, d \in B : Before(c, d)
    PROVE  Lists(a \o b, A \cup B)
  BY CallsAppend DEF Lists

\* A conditional list.
LEMMA ListsIf ==
    ASSUME NEW a, NEW A, Lists(a, A), NEW p \in BOOLEAN
    PROVE  Lists(If(p, a), IF p THEN A ELSE {})
  <1>1. CASE p
    BY <1>1 DEF If
  <1>2. CASE ~p
    BY <1>2, NoCalls DEF If, Lists
  <1> QED  BY <1>1, <1>2

\* A list of one call.
LEMMA ListsOne == ASSUME NEW c \in SlotCalls PROVE Lists(<< c >>, {c})
  BY OneCall DEF Lists

\* The parser's and the hal thread's short lists.
LEMMA DisplayLists == ASSUME NEW i \in Slots PROVE Lists(Display(i), ShowSet(i))
  <1> DEFINE c == <<"set", i, "QUEUE_USE">>
             d == <<"enqueue", i, "DISPLAY">>
  <1>1. c \in SlotCalls /\ d \in SlotCalls /\ Before(c, d)
    BY DEF SlotCalls, Flags, Before
  <1> HIDE DEF c, d
  <1>2. Lists(<< c, d >>, {c, d})
    BY <1>1, TwoCalls DEF Lists
  <1> QED  BY <1>2 DEF Display, ShowSet, c, d

\* The calls that flush the last reference, as a set, and in order.
LEMMA FlushLists == ASSUME NEW r \in Refs PROVE Lists(FlushCalls(r), FlushSet(r))
  <1>1. CASE Valid(r) /\ ~r.enqueued
    <2>1. r.slot \in Slots
      BY <1>1 DEF Valid, Refs, Entries
    <2>2. Lists(Display(r.slot), ShowSet(r.slot))
      BY <2>1, DisplayLists
    <2> QED  BY <1>1, <2>2 DEF FlushCalls, FlushSet, If
  <1>2. CASE ~(Valid(r) /\ ~r.enqueued)
    BY <1>2, NoCalls, Zenon DEF FlushCalls, FlushSet, If, Lists
  <1> QED  BY <1>1, <1>2

\* The calls that mark a reference as read.
LEMMA ReferLists == ASSUME NEW r \in Refs PROVE Lists(Refer(r), ReferSet(r))
  <1> DEFINE c == <<"set", r.slot, "HAL_INPUT">>
  <1>1. CASE Valid(r)
    <2>1. c \in SlotCalls
      BY <1>1 DEF Valid, Refs, Entries, SlotCalls, Flags
    <2>2. Lists(<< c >>, {c})
      BY <2>1, ListsOne
    <2> QED  BY <1>1, <2>2, Zenon DEF Refer, ReferSet, If
  <1>2. CASE ~Valid(r)
    BY <1>2, NoCalls, Zenon DEF Refer, ReferSet, If, Lists
  <1> QED  BY <1>1, <1>2

\* The calls that drop a reference.
LEMMA UnrefLists == ASSUME NEW r \in Refs PROVE Lists(Unref(r), UnrefSet(r))
  <1> DEFINE c == <<"clr", r.slot, "CODEC_USE">>
  <1>1. CASE Valid(r)
    <2>1. c \in SlotCalls
      BY <1>1 DEF Valid, Refs, Entries, SlotCalls, Flags
    <2>2. Lists(<< c >>, {c})
      BY <2>1, ListsOne
    <2> QED  BY <1>1, <2>2, Zenon DEF Unref, UnrefSet, If
  <1>2. CASE ~Valid(r)
    BY <1>2, NoCalls, Zenon DEF Unref, UnrefSet, If, Lists
  <1> QED  BY <1>1, <1>2

\* The calls after the hardware is done with a task: its output, and its two inputs.
LEMMA DoneLists ==
    ASSUME NEW t, t.out \in Slots, t.refer \in Entries \X Entries,
           t.refer[1] # NoSlot => t.refer[1] # t.refer[2]
    PROVE  Lists(HwDoneCalls(t), DoneSet(t))
  <1> DEFINE c == <<"clr", t.out, "HAL_OUTPUT">>
             d(n) == <<"clr", t.refer[n], "HAL_INPUT">>
             a(n) == If(t.refer[n] # NoSlot, << d(n) >>)
  <1>1. Lists(<< c >>, {c})
    <2>1. c \in SlotCalls
      BY DEF SlotCalls, Flags
    <2> QED  BY <2>1, ListsOne
  <1>2. ASSUME NEW n \in 1 .. 2 PROVE Lists(a(n), ClrInSet(t.refer[n]))
    <2>1. CASE t.refer[n] # NoSlot
      <3>1. d(n) \in SlotCalls
        BY <2>1 DEF Entries, SlotCalls, Flags
      <3>2. Lists(<< d(n) >>, {d(n)})
        BY <3>1, ListsOne
      <3> QED  BY <2>1, <3>2, Zenon DEF ClrInSet, If
    <2>2. CASE t.refer[n] = NoSlot
      BY <2>2, NoCalls, Zenon DEF ClrInSet, If, Lists
    <2> QED  BY <2>1, <2>2
  <1>3. Lists(<< c >> \o a(1), {c} \cup ClrInSet(t.refer[1]))
    <2>1. \A x \in {c}, y \in ClrInSet(t.refer[1]) : Before(x, y)
      BY DEF ClrInSet, Before
    <2> HIDE DEF a, c
    <2> QED  BY <1>1, <1>2, <2>1, ListsJoin
  <1>4. Lists((<< c >> \o a(1)) \o a(2), {c} \cup ClrInSet(t.refer[1]) \cup ClrInSet(t.refer[2]))
    <2>1. \A x \in {c} \cup ClrInSet(t.refer[1]), y \in ClrInSet(t.refer[2]) : Before(x, y)
      BY DEF ClrInSet, Before
    <2> HIDE DEF a, c
    <2> QED  BY <1>2, <1>3, <2>1, ListsJoin
  <1> QED  BY <1>4, Zenon DEF HwDoneCalls, DoneSet

\* What the parser does with the last references for a picture in entry i.
UpdateSet(type, i) ==
    IF type = "B" THEN ShowSet(i)
    ELSE FlushSet(ref0) \cup {<<"set", i, "CODEC_USE">>} \cup UnrefSet(ref1)

\* The calls of mpp_mpeg4's dpb update, for a picture of each type.
LEMMA UpdateLists ==
    ASSUME ref0 \in Refs, ref1 \in Refs, NEW i \in Slots, NEW type, RefsDiffer,
           i # ref0.slot, i # ref1.slot
    PROVE  Lists(UpdateDpb(type, i), UpdateSet(type, i))
  <1> DEFINE c == <<"set", i, "CODEC_USE">>
  <1>1. CASE type = "B"
    BY <1>1, DisplayLists DEF UpdateDpb, UpdateSet
  <1>2. CASE type # "B"
    <2>1. Lists(FlushCalls(ref0), FlushSet(ref0)) /\ Lists(Unref(ref1), UnrefSet(ref1))
      BY FlushLists, UnrefLists
    <2>2. Lists(<< c >>, {c})
      <3>1. c \in SlotCalls
        BY DEF SlotCalls, Flags
      <3> QED  BY <3>1, ListsOne
    <2>3. Lists(FlushCalls(ref0) \o << c >>, FlushSet(ref0) \cup {c})
      <3>1. \A x \in FlushSet(ref0), y \in {c} : Before(x, y)
        BY DEF FlushSet, ShowSet, Before
      <3> HIDE DEF c
      <3> QED  BY <2>1, <2>2, <3>1, ListsJoin
    <2>4. Lists((FlushCalls(ref0) \o << c >>) \o Unref(ref1), FlushSet(ref0) \cup {c} \cup UnrefSet(ref1))
      <3>1. \A x \in FlushSet(ref0) \cup {c}, y \in UnrefSet(ref1) : Before(x, y)
        BY DEF FlushSet, ShowSet, UnrefSet, Before
      <3> HIDE DEF c
      <3> QED  BY <2>1, <2>3, <3>1, ListsJoin
    <2> QED  BY <1>2, <2>4, Zenon DEF UpdateDpb, UpdateSet
  <1> QED  BY <1>1, <1>2

\* All calls for a picture that was parsed into entry i.
ParseSet(type, size, eos, i, last) ==
    {<<"set", i, "HAL_OUTPUT">>, <<"frame", i, size>>} \cup ReferSet(ref0) \cup ReferSet(ref1)
      \cup UpdateSet(type, i) \cup (IF eos THEN FlushSet(last) ELSE {})
ParseCalls(type, size, eos, i, last) ==
    << <<"set", i, "HAL_OUTPUT">>, <<"frame", i, size>> >>
    \o Refer(ref0) \o Refer(ref1) \o UpdateDpb(type, i) \o If(eos, FlushCalls(last))

\* All calls of parsing one picture, and that they are in order.
LEMMA ParseLists ==
    ASSUME ref0 \in Refs, ref1 \in Refs, NEW i \in Slots, NEW type, NEW size \in Infos,
           NEW eos \in BOOLEAN, NEW last \in Refs, RefsDiffer,
           i # ref0.slot, i # ref1.slot,
           last = IF type = "B" THEN ref0 ELSE [slot |-> i, enqueued |-> FALSE, size |-> size]
    PROVE  Lists(ParseCalls(type, size, eos, i, last), ParseSet(type, size, eos, i, last))
  <1> DEFINE c == <<"set", i, "HAL_OUTPUT">>
             d == <<"frame", i, size>>
             F == IF eos THEN FlushSet(last) ELSE {}
             s1 == << c, d >> \o Refer(ref0)
             s2 == s1 \o Refer(ref1)
             s3 == s2 \o UpdateDpb(type, i)
  <1>1. Lists(<< c, d >>, {c, d})
    <2>1. c \in SlotCalls /\ d \in SlotCalls /\ Before(c, d)
      BY DEF SlotCalls, Flags, Before
    <2> HIDE DEF c, d
    <2> QED  BY <2>1, TwoCalls DEF Lists
  <1>2. Lists(s1, {c, d} \cup ReferSet(ref0))
    <2>1. \A x \in {c, d}, y \in ReferSet(ref0) : Before(x, y)
      BY DEF ReferSet, Before
    <2>2. Lists(Refer(ref0), ReferSet(ref0))
      BY ReferLists
    <2> HIDE DEF c, d
    <2> QED  BY <1>1, <2>1, <2>2, ListsJoin
  <1>3. Lists(s2, {c, d} \cup ReferSet(ref0) \cup ReferSet(ref1))
    <2>1. \A x \in {c, d} \cup ReferSet(ref0), y \in ReferSet(ref1) : Before(x, y)
      BY DEF ReferSet, Before, RefsDiffer
    <2>2. Lists(Refer(ref1), ReferSet(ref1))
      BY ReferLists
    <2> HIDE DEF c, d, s1
    <2> QED  BY <1>2, <2>1, <2>2, ListsJoin
  <1>4. Lists(s3, {c, d} \cup ReferSet(ref0) \cup ReferSet(ref1) \cup UpdateSet(type, i))
    <2>1. \A x \in {c, d} \cup ReferSet(ref0) \cup ReferSet(ref1), y \in UpdateSet(type, i) :
            Before(x, y)
      BY DEF ReferSet, UpdateSet, FlushSet, ShowSet, UnrefSet, Before
    <2>2. Lists(UpdateDpb(type, i), UpdateSet(type, i))
      BY UpdateLists
    <2> HIDE DEF c, d, s2
    <2> QED  BY <1>3, <2>1, <2>2, ListsJoin
  <1>5. Lists(If(eos, FlushCalls(last)), F)
    BY FlushLists, ListsIf
  <1>6. Lists(s3 \o If(eos, FlushCalls(last)),
              ({c, d} \cup ReferSet(ref0) \cup ReferSet(ref1) \cup UpdateSet(type, i)) \cup F)
    <2>1. \A x \in {c, d} \cup ReferSet(ref0) \cup ReferSet(ref1), y \in F : Before(x, y)
      BY DEF ReferSet, FlushSet, ShowSet, Before
    <2>2. \A x \in UpdateSet(type, i), y \in F : Before(x, y)
      <3>1. CASE type = "B"
        <4>1. last.slot = ref0.slot
          BY <3>1
        <4> QED  BY <3>1, <4>1 DEF UpdateSet, FlushSet, ShowSet, Before
      <3>2. CASE type # "B"
        <4>1. last.slot = i
          BY <3>2
        <4> QED  BY <3>2, <4>1 DEF UpdateSet, FlushSet, ShowSet, UnrefSet, Before
      <3> QED  BY <3>1, <3>2
    <2>3. \A x \in {c, d} \cup ReferSet(ref0) \cup ReferSet(ref1) \cup UpdateSet(type, i), y \in F :
            Before(x, y)
      BY <2>1, <2>2, Zenon
    <2> HIDE DEF c, d, s3, F
    <2> QED  BY <1>4, <1>5, <2>3, ListsJoin
  <1> QED  BY <1>6, Zenon DEF ParseCalls, ParseSet

\* The hal thread's calls for a finished picture, with the flush at the end.
LEMMA FinishLists ==
    ASSUME NEW t, t.out \in Slots, t.refer \in Entries \X Entries,
           t.refer[1] # NoSlot => t.refer[1] # t.refer[2],
           NEW p \in BOOLEAN, NEW r \in Refs
    PROVE  Lists(HwDoneCalls(t) \o If(p, FlushCalls(r)),
                 DoneSet(t) \cup (IF p THEN FlushSet(r) ELSE {}))
  <1> DEFINE F == IF p THEN FlushSet(r) ELSE {}
  <1>1. Lists(HwDoneCalls(t), DoneSet(t))
    BY DoneLists
  <1>2. Lists(If(p, FlushCalls(r)), F)
    BY FlushLists, ListsIf
  <1>3. \A x \in DoneSet(t), y \in F : Before(x, y)
    BY DEF DoneSet, ClrInSet, FlushSet, ShowSet, Before
  <1> HIDE DEF F
  <1> QED  BY <1>1, <1>2, <1>3, ListsJoin DEF F

\* The parser's calls for a reset.
ResetSet ==
    FlushSet(ref0) \cup UnrefSet(ref0) \cup UnrefSet(ref1)
      \cup (IF task.waitInfo THEN {<<"reset", task.out, 0>>} ELSE {})
      \cup (IF task.parsed THEN DoneSet(task) ELSE {})

\* The calls of a reset that takes the task of the parser thread back.
LEMMA ResetLists ==
    ASSUME ref0 \in Refs, ref1 \in Refs, RefsDiffer, task \in DecTasks,
           task.waitInfo => task.parsed,
           task.parsed => /\ task.out # NoSlot
                          /\ task.refer[1] # NoSlot => task.refer[1] # task.refer[2]
    PROVE  Lists(ResetCalls, ResetSet)
  <1> DEFINE c == <<"reset", task.out, 0>>
             s1 == FlushCalls(ref0) \o Unref(ref0)
             s2 == s1 \o Unref(ref1)
             s3 == s2 \o If(task.waitInfo, << c >>)
             S2 == FlushSet(ref0) \cup UnrefSet(ref0) \cup UnrefSet(ref1)
             R == IF task.waitInfo THEN {c} ELSE {}
             D == IF task.parsed THEN DoneSet(task) ELSE {}
  <1>0. task.waitInfo \in BOOLEAN /\ task.parsed \in BOOLEAN /\ task.refer \in Entries \X Entries
        /\ (task.parsed => task.out \in Slots)
    BY DEF DecTasks, Entries
  <1>1. Lists(s1, FlushSet(ref0) \cup UnrefSet(ref0))
    <2>1. Lists(FlushCalls(ref0), FlushSet(ref0)) /\ Lists(Unref(ref0), UnrefSet(ref0))
      BY FlushLists, UnrefLists
    <2>2. \A x \in FlushSet(ref0), y \in UnrefSet(ref0) : Before(x, y)
      BY DEF FlushSet, ShowSet, UnrefSet, Before
    <2> QED  BY <2>1, <2>2, ListsJoin
  <1>2. Lists(s2, S2)
    <2>1. Lists(Unref(ref1), UnrefSet(ref1))
      BY UnrefLists
    <2>2. \A x \in FlushSet(ref0) \cup UnrefSet(ref0), y \in UnrefSet(ref1) : Before(x, y)
      BY DEF FlushSet, ShowSet, UnrefSet, Before, RefsDiffer
    <2> HIDE DEF s1
    <2> QED  BY <1>1, <2>1, <2>2, ListsJoin
  <1>3. Lists(If(task.waitInfo, << c >>), R)
    <2>1. CASE task.waitInfo
      <3>1. c \in SlotCalls
        BY <1>0, <2>1 DEF SlotCalls
      <3> HIDE DEF c
      <3>2. Lists(<< c >>, {c})
        BY <3>1, ListsOne
      <3> QED  BY <2>1, <3>2 DEF If
    <2>2. CASE ~task.waitInfo
      BY <2>2, NoCalls, Zenon DEF If, Lists
    <2> QED  BY <2>1, <2>2
  <1>4. Lists(s3, S2 \cup R)
    <2>1. \A x \in S2, y \in R : Before(x, y)
      BY DEF FlushSet, ShowSet, UnrefSet, Before
    <2> HIDE DEF s2, S2, R, c
    <2> QED  BY <1>2, <1>3, <2>1, ListsJoin
  <1>5. Lists(If(task.parsed, HwDoneCalls(task)), D)
    <2>1. CASE task.parsed
      <3>1. Lists(HwDoneCalls(task), DoneSet(task))
        BY <1>0, <2>1, DoneLists
      <3> QED  BY <2>1, <3>1 DEF If
    <2>2. CASE ~task.parsed
      BY <2>2, NoCalls, Zenon DEF If, Lists
    <2> QED  BY <2>1, <2>2
  <1>6. Lists(s3 \o If(task.parsed, HwDoneCalls(task)), (S2 \cup R) \cup D)
    <2>1. \A x \in S2 \cup R, y \in D : Before(x, y)
      BY DEF FlushSet, ShowSet, UnrefSet, DoneSet, ClrInSet, Before
    <2> HIDE DEF s3, S2, R, D
    <2> QED  BY <1>4, <1>5, <2>1, ListsJoin
  <1> QED  BY <1>6, Zenon DEF ResetCalls, ResetSet

\* And those for an entry taken out of the display queue by it.
DrainSet(i) ==
    (IF slot[i].buffer # NoBuf THEN {<<"put", i, 0>>} ELSE {}) \cup {<<"clr", i, "QUEUE_USE">>}

\* The calls that take one entry out of the display queue at a reset.
LEMMA DrainLists ==
    ASSUME NEW i \in Slots
    PROVE  Lists(DrainCalls(i), DrainSet(i))
  <1> DEFINE c == <<"put", i, 0>>
             d == <<"clr", i, "QUEUE_USE">>
             P == IF slot[i].buffer # NoBuf THEN {c} ELSE {}
  <1>1. Lists(<< d >>, {d}) /\ Lists(<< c >>, {c})
    <2>1. c \in SlotCalls /\ d \in SlotCalls
      BY DEF SlotCalls, Flags
    <2> QED  BY <2>1, ListsOne
  <1>2. Lists(If(slot[i].buffer # NoBuf, << c >>), P)
    BY <1>1, ListsIf
  <1>3. \A x \in P, y \in {d} : Before(x, y)
    BY DEF Before
  <1> HIDE DEF c, d, P
  <1>4. Lists(If(slot[i].buffer # NoBuf, << c >>) \o << d >>, P \cup {d})
    BY <1>1, <1>2, <1>3, ListsJoin
  <1> QED  BY <1>4, Zenon DEF DrainCalls, DrainSet, c, d, P

-----------------------------------------------------------------------------
(* Types *)

\* What a step leaves alone keeps its type.
LEMMA SameTypes ==
    ASSUME Types
    PROVE  /\ UNCHANGED slotVars => SlotTypes'
           /\ UNCHANGED parserVars => ParserTypes'
           /\ UNCHANGED halVars => HalTypes'
           /\ UNCHANGED <<ctrlVars, outVars, histVars>> => OtherTypes'
  <1>1. UNCHANGED slotVars => SlotTypes'
    BY DEF Types, SlotTypes, slotVars
  <1>2. UNCHANGED parserVars => ParserTypes'
    BY DEF Types, ParserTypes, parserVars
  <1>3. UNCHANGED halVars => HalTypes'
    BY DEF Types, HalTypes, halVars
  <1>4. UNCHANGED <<ctrlVars, outVars, histVars>> => OtherTypes'
    BY DEF Types, OtherTypes, ctrlVars, outVars, histVars
  <1> QED  BY <1>1, <1>2, <1>3, <1>4

\* The constant tasks and references.
LEMMA ConstantTypes ==
    /\ NoRef \in Refs /\ NoTask \in DecTasks /\ NoHal \in HalJobs
    /\ HalTask("eos", NoSlot, NoRefer, TRUE) \in HalJobs
    /\ HalTask("reset", NoSlot, NoRefer, FALSE) \in HalJobs
    /\ InfoFrame \in OutFrames /\ EosFrame \in OutFrames
  <1>1. NoRef \in Refs /\ NoTask \in DecTasks
    BY DEF NoRef, Refs, Entries, NoTask, DecTasks, NoRefer
  <1>2. NoHal \in HalJobs /\ HalTask("eos", NoSlot, NoRefer, TRUE) \in HalJobs
        /\ HalTask("reset", NoSlot, NoRefer, FALSE) \in HalJobs
    BY DEF NoHal, HalTask, HalJobs, NoRefer, Entries
  <1>3. InfoFrame \in OutFrames /\ EosFrame \in OutFrames
    BY DEF InfoFrame, EosFrame, Frame, OutFrames
  <1> QED  BY <1>1, <1>2, <1>3

\* A reference that has been flushed is the same one, and marked as queued.
LEMMA FlushedTypes ==
    ASSUME NEW r \in Refs
    PROVE  /\ Flushed(r) \in Refs /\ Flushed(r).slot = r.slot /\ Flushed(r).size = r.size
           /\ Flushed(r).enqueued = (Valid(r) \/ r.enqueued)
  <1>1. CASE Valid(r)
    BY <1>1 DEF Flushed, Refs
  <1>2. CASE ~Valid(r)
    <2>1. Flushed(r) = r
      BY <1>2 DEF Flushed
    <2>2. r.enqueued \in BOOLEAN
      BY DEF Refs
    <2> QED  BY <1>2, <2>1, <2>2
  <1> QED  BY <1>1, <1>2

\* The task the hardware works on is one of those sent.
LEMMA HwTask ==
    ASSUME SlotInv, hpc = "hw"
    PROVE  /\ hal \in InFlight /\ hal \in HalJobs /\ hal.kind = "frame" /\ hal = procQ[1]
           /\ 1 \in DOMAIN procQ
           /\ hal.out \in Slots /\ hal.refer \in Entries \X Entries
           /\ hal.out # hal.refer[1] /\ hal.out # hal.refer[2]
           /\ hal.refer[1] # NoSlot => hal.refer[1] # hal.refer[2]
  <1>1. hal.kind = "frame" /\ procQ # << >> /\ hal = Head(procQ)
    BY DEF SlotInv, Control, HalRests
  <1>2. procQ \in Seq(HalJobs) /\ hal \in HalJobs
    BY DEF SlotInv, Types, HalTypes
  <1>3. 1 \in DOMAIN procQ /\ hal = procQ[1]
    BY <1>1, <1>2
  <1>4. hal \in InFlight
    BY <1>1, <1>3 DEF InFlight, Sent
  <1> QED  BY <1>1, <1>2, <1>3, <1>4 DEF SlotInv, OnTheWay, TasksRefer

\* The parser's task is one of those on their way, until a reset.
LEMMA ParsedTask ==
    ASSUME SlotInv, task.parsed
    PROVE  /\ task.out \in Slots /\ task.refer \in Entries \X Entries
           /\ ppc # "drain" => /\ HalTask("frame", task.out, task.refer, task.eos) \in InFlight
                               /\ task.out # task.refer[1] /\ task.out # task.refer[2]
                               /\ task.refer[1] # NoSlot => task.refer[1] # task.refer[2]
  <1>1. task.out \in Slots /\ task.refer \in Entries \X Entries
    BY DEF SlotInv, Types, ParserTypes, Control, ParserRests, DecTasks, Entries
  <1>2. ASSUME ppc # "drain"
        PROVE  /\ HalTask("frame", task.out, task.refer, task.eos) \in InFlight
               /\ task.out # task.refer[1] /\ task.out # task.refer[2]
               /\ task.refer[1] # NoSlot => task.refer[1] # task.refer[2]
    <2> DEFINE t == HalTask("frame", task.out, task.refer, task.eos)
    <2>1. t \in InFlight
      BY <1>2 DEF InFlight, Waiting
    <2>2. t.out = task.out /\ t.refer = task.refer
      BY DEF HalTask
    <2> HIDE DEF t
    <2> QED  BY <2>1, <2>2 DEF SlotInv, OnTheWay, TasksRefer, t
  <1> QED  BY <1>1, <1>2

\* A slot that is free belongs to nobody.
LEMMA FreeSlot ==
    ASSUME SlotInv, ppc # "drain", NEW i \in Slots, ~slot[i].on_used
    PROVE  ~Needed(i)
  BY DEF SlotInv, FlagsExact, FlagsOf, OnUse, Forgotten

\* What parsing a picture into entry i changes.
ParseLast(type, size, i) ==
    IF type = "B" THEN ref0 ELSE [slot |-> i, enqueued |-> FALSE, size |-> size]

ParseFacts(type, size, eos, i) ==
    /\ ppc = "top" /\ ~task.parsed /\ ~gotEos /\ ~resetFlag /\ ~readyCmd /\ ~flushDue
    /\ Decodable(type, size) /\ ParseGate /\ GetUnused(i) /\ ~Needed(i)
    /\ Len(procQ) + procDone < HalTasks /\ Len(coded) < MaxPics
    /\ ParseLast(type, size, i) \in Refs
    /\ Lists(ptodo', ParseSet(type, size, eos, i, ParseLast(type, size, i)))
    /\ ref1' = IF type = "B" THEN ref1 ELSE ref0
    /\ ref0' = IF eos THEN Flushed(ParseLast(type, size, i)) ELSE ParseLast(type, size, i)
    /\ task' \in DecTasks /\ task'.parsed = TRUE /\ task'.out = i /\ task'.eos = eos
    /\ task'.refer = <<ref0.slot, ref1.slot>>
    /\ task'.waitInfo = FALSE /\ task'.infoGen = FALSE
    /\ pic' = [pic EXCEPT ![i] = Len(coded) + 1]
    /\ foundI' = (foundI \/ type = "I") /\ gotEos' = eos /\ ppc' = "check"
    /\ coded' = Append(coded, type)
    /\ UNCHANGED <<halVars, ctrlVars, outVars, decoded, shown, dropped, eosSent, resets>>

\* What parsing one picture does to the table, the task, the references and the todo
\* list, in the form in which the later lemmas use it.
LEMMA ParseEffect ==
    ASSUME SlotInv, NEW type \in {"I", "P", "B"}, NEW size \in Infos, NEW eos \in BOOLEAN,
           Parse(type, size, eos), NEW i \in Slots, ParseAs(type, size, eos, i)
    PROVE  ParseFacts(type, size, eos, i)
  <1> DEFINE last == ParseLast(type, size, i)
  <1>1. /\ ppc = "top" /\ ~task.parsed /\ ~gotEos /\ ~resetFlag /\ ~readyCmd /\ ~flushDue
        /\ Decodable(type, size) /\ ParseGate /\ Len(coded) < MaxPics /\ IdleTasks > 0
        /\ foundI' = (foundI \/ type = "I") /\ gotEos' = eos /\ ppc' = "check"
        /\ coded' = Append(coded, type)
        /\ UNCHANGED <<halVars, ctrlVars, outVars, decoded, shown, dropped, eosSent, resets>>
    BY DEF Parse, TryProc, PacketReady
  <1>2. /\ GetUnused(i) /\ ptodo' = ParseCalls(type, size, eos, i, last)
        /\ ref1' = IF type = "B" THEN ref1 ELSE ref0
        /\ ref0' = IF eos THEN Flushed(last) ELSE last
        /\ task' = [task EXCEPT !.parsed = TRUE, !.out = i, !.eos = eos,
                                !.refer = <<ref0.slot, ref1.slot>>]
        /\ pic' = [pic EXCEPT ![i] = Len(coded) + 1]
    BY Zenon DEF ParseAs, ParseCalls, ParseLast
  <1>3. ref0 \in Refs /\ ref1 \in Refs /\ task \in DecTasks /\ procQ \in Seq(HalJobs) /\ procDone \in Nat
        /\ SlotTypes
    BY DEF SlotInv, Types, ParserTypes, HalTypes
  <1>4. ~Needed(i)
    <2>1. ~slot[i].on_used
      BY <1>2, <1>3, GetUnusedEffect
    <2> QED  BY <1>1, <2>1, FreeSlot
  <1>5. i # ref0.slot /\ i # ref1.slot
    BY <1>4 DEF Needed, IsRef
  <1>6. last \in Refs
    BY <1>3 DEF ParseLast, Refs, Entries
  <1>7. Lists(ptodo', ParseSet(type, size, eos, i, last))
    <2>1. last = IF type = "B" THEN ref0 ELSE [slot |-> i, enqueued |-> FALSE, size |-> size]
      BY DEF ParseLast
    <2>2. RefsDiffer
      BY DEF SlotInv, OnTheWay
    <2> HIDE DEF last
    <2> QED  BY <1>2, <1>3, <1>5, <1>6, <2>1, <2>2, ParseLists
  <1>8. /\ task' \in DecTasks /\ task'.parsed = TRUE /\ task'.out = i /\ task'.eos = eos
        /\ task'.refer = <<ref0.slot, ref1.slot>>
        /\ task'.waitInfo = FALSE /\ task'.infoGen = FALSE
    <2>1. ~task.waitInfo /\ ~task.infoGen
      BY <1>1 DEF SlotInv, Control, ParserRests
    <2>2. ref0.slot \in Entries /\ ref1.slot \in Entries
      BY <1>3 DEF Refs
    <2> DEFINE rr == <<ref0.slot, ref1.slot>>
    <2>3. rr \in Entries \X Entries
      BY <2>2
    <2> HIDE DEF rr
    <2>4. task' = [task EXCEPT !.parsed = TRUE, !.out = i, !.eos = eos, !.refer = rr]
      BY <1>2 DEF rr
    <2>5. task' \in DecTasks /\ task'.parsed = TRUE /\ task'.out = i /\ task'.eos = eos
          /\ task'.refer = rr /\ task'.waitInfo = task.waitInfo /\ task'.infoGen = task.infoGen
      <3> DEFINE t == task'
      <3>1. t = [task EXCEPT !.parsed = TRUE, !.out = i, !.eos = eos, !.refer = rr]
        BY <2>4
      <3> HIDE DEF t
      <3>2. t = [parsed |-> TRUE, out |-> i, refer |-> rr, eos |-> eos, infoGen |-> task.infoGen,
                 waitInfo |-> task.waitInfo, prevRdy |-> task.prevRdy]
        BY <1>3, <3>1 DEF DecTasks
      <3> QED  BY <1>3, <2>3, <3>2 DEF t, DecTasks, Entries
    <2>6. task.waitInfo \in BOOLEAN /\ task.infoGen \in BOOLEAN
      BY <1>3 DEF DecTasks
    <2> QED  BY <2>1, <2>5, <2>6 DEF rr
  <1>9. Len(procQ) + procDone < HalTasks
    <2>1. HalTasks \in Nat /\ Len(procQ) \in Nat
      BY <1>3, FlowAssumption
    <2> QED  BY <1>1, <1>3, <2>1 DEF IdleTasks
  <1> QED  BY <1>1, <1>2, <1>4, <1>6, <1>7, <1>8, <1>9, Zenon DEF ParseFacts

\* Every step keeps the types.
LEMMA ParserStepTypes == ASSUME SlotInv, ParserNext PROVE Types'
  <1>0. /\ Types /\ SlotTypes /\ ParserTypes /\ HalTypes /\ OtherTypes
        /\ HalTasks \in Nat /\ MaxPics \in Nat
    BY FlowAssumption DEF SlotInv, Types
  <1> USE DEF Types
  <1>1. CASE PrevDone
    <2>1. procDone' \in Nat
      BY <1>0, <1>1 DEF PrevDone, HalTypes
    <2>2. task' \in DecTasks
      BY <1>0, <1>1 DEF PrevDone, ParserTypes, DecTasks
    <2> QED  BY <1>0, <1>1, <2>1, <2>2, SameTypes DEF PrevDone, ParserTypes, HalTypes
  <1>2. ASSUME NEW type \in {"I", "P", "B"}, NEW size \in Infos, NEW eos \in BOOLEAN,
               Parse(type, size, eos)
        PROVE  Types'
    <2>1. PICK i \in Slots : ParseAs(type, size, eos, i)
      BY <1>2 DEF Parse
    <2>0. ParseFacts(type, size, eos, i)
      BY <1>2, <2>1, ParseEffect
    <2>2. SlotTypes'
      BY <1>0, <2>0, GetUnusedEffect DEF ParseFacts
    <2>3. ParserTypes'
      <3>1. ref0' \in Refs /\ ref1' \in Refs
        BY <1>0, <2>0, FlushedTypes DEF ParserTypes, ParseFacts
      <3>2. ptodo' \in Seq(SlotCalls)
        BY <2>0 DEF Lists, ParseFacts
      <3>3. task' \in DecTasks /\ ppc' = "check" /\ foundI' \in BOOLEAN /\ gotEos' \in BOOLEAN
        BY <1>0, <2>0, Zenon DEF ParserTypes, ParseFacts
      <3> QED  BY <3>1, <3>2, <3>3 DEF ParserTypes
    <2>4. HalTypes'
      BY <1>0, <2>0, SameTypes DEF ParseFacts
    <2>5. OtherTypes'
      <3>2. coded' \in Seq({"I", "P", "B", "N"}) /\ Len(coded') <= MaxPics
            /\ pic' \in [Slots -> Nat]
        BY <1>0, <2>0 DEF ParseFacts, OtherTypes
      <3> QED  BY <1>0, <2>0, <3>2 DEF ParseFacts, OtherTypes, ctrlVars, outVars
    <2> QED  BY <2>2, <2>3, <2>4, <2>5
  <1>3. ASSUME NEW eos \in BOOLEAN, ParseSkipped(eos) PROVE Types'
    <2>1. coded' = Append(coded, "N") /\ Len(coded) < MaxPics
          /\ UNCHANGED <<ctrlVars, outVars, pic, decoded, shown, dropped, eosSent, resets>>
      BY <1>3 DEF ParseSkipped, PacketReady
    <2>2. coded' \in Seq({"I", "P", "B", "N"}) /\ Len(coded') <= MaxPics
      BY <1>0, <2>1 DEF OtherTypes
    <2>3. OtherTypes'
      BY <1>0, <2>1, <2>2 DEF OtherTypes, ctrlVars, outVars
    <2>4. procQ' \in Seq(HalJobs)
      <3>1. procQ \in Seq(HalJobs)
        BY <1>0 DEF HalTypes
      <3>2. Append(procQ, HalTask("eos", NoSlot, NoRefer, TRUE)) \in Seq(HalJobs)
        BY <3>1, ConstantTypes, Appended
      <3> QED  BY <1>3, <3>1, <3>2 DEF ParseSkipped
    <2> QED  BY <1>0, <1>3, <2>3, <2>4, SameTypes DEF ParseSkipped, HalTypes, ParserTypes
  <1>4. CASE PrepareEos
    <2>1. ptodo' \in Seq(SlotCalls) /\ ref0' \in Refs
      BY <1>0, <1>4, FlushLists, FlushedTypes DEF PrepareEos, Lists, ParserTypes
    <2> QED  BY <1>0, <1>4, <2>1, SameTypes DEF PrepareEos, ParserTypes
  <1>5. CASE SubmitEos
    <2>1. procQ' \in Seq(HalJobs)
      BY <1>0, <1>5, ConstantTypes, Appended DEF SubmitEos, HalTypes
    <2> QED  BY <1>0, <1>5, <2>1, SameTypes DEF SubmitEos, ParserTypes, HalTypes
  <1>6. CASE SendInfoChange
    <2> DEFINE t == HalTask("info", task.out, NoRefer, FALSE)
    <2>1. t \in HalJobs
      BY <1>0 DEF ParserTypes, DecTasks, HalTask, HalJobs, NoRefer, Entries
    <2> HIDE DEF t
    <2>2. procQ' \in Seq(HalJobs)
      <3>1. procQ' = Append(procQ, t)
        BY <1>6 DEF SendInfoChange, t
      <3> QED  BY <1>0, <2>1, <3>1, Appended DEF HalTypes
    <2>3. task' \in DecTasks
      BY <1>0, <1>6 DEF SendInfoChange, ParserTypes, DecTasks
    <2> QED  BY <1>0, <1>6, <2>2, <2>3, SameTypes DEF SendInfoChange, ParserTypes, HalTypes
  <1>7. CASE WaitInfoChange
    <2>1. task' \in DecTasks
      BY <1>0, <1>7 DEF WaitInfoChange, ParserTypes, DecTasks
    <2> QED  BY <1>0, <1>7, <2>1, SameTypes DEF WaitInfoChange, ParserTypes
  <1>8. CASE NoBuffer
    <2>1. task' \in DecTasks
      BY <1>0, <1>8 DEF NoBuffer, ParserTypes, DecTasks
    <2> QED  BY <1>0, <1>8, <2>1, SameTypes DEF NoBuffer, ParserTypes
  <1>9. ASSUME NEW b \in Buffers, GetBuffer(b) PROVE Types'
    <2>1. task' \in DecTasks
      BY <1>0, <1>9 DEF GetBuffer, ParserTypes, DecTasks
    <2>2. task.out \in Slots
      BY <1>9, ParsedTask DEF GetBuffer, Parsed
    <2>3. SlotTypes'
      BY <1>0, <1>9, <2>2, SetBufferEffect DEF GetBuffer
    <2> QED  BY <1>0, <1>9, <2>1, <2>3, SameTypes DEF GetBuffer, ParserTypes
  <1>10. CASE Submit
    <2> DEFINE t == HalTask("frame", task.out, task.refer, task.eos)
    <2>1. t \in HalJobs
      BY <1>0 DEF ParserTypes, DecTasks, HalTask, HalJobs, Entries
    <2> HIDE DEF t
    <2>2. procQ' \in Seq(HalJobs)
      <3>1. procQ' = Append(procQ, t)
        BY <1>10 DEF Submit, t
      <3> QED  BY <1>0, <2>1, <3>1, Appended DEF HalTypes
    <2>3. task' \in DecTasks
      BY <1>10, ConstantTypes DEF Submit, DecTasks
    <2> QED  BY <1>0, <1>10, <2>2, <2>3, SameTypes DEF Submit, ParserTypes, HalTypes
  <1>11. CASE ProcControl
    <2>1. SlotTypes'
      BY <1>0, <1>11, ReadyEffect DEF ProcControl
    <2> QED  BY <1>0, <1>11, <2>1, SameTypes DEF ProcControl, OtherTypes, outVars, histVars
  <1>12. CASE ResetPost
    BY <1>0, <1>12, SameTypes DEF ResetPost, ParserTypes, OtherTypes, outVars, histVars
  <1>13. CASE ResetParser
    <2>1. Lists(ResetCalls, ResetSet)
      <3>1. task.parsed => /\ task.out # NoSlot
                           /\ task.refer[1] # NoSlot => task.refer[1] # task.refer[2]
        BY <1>13, ParsedTask DEF ResetParser, SlotInv, Control, ParserRests
      <3>2. ref0 \in Refs /\ ref1 \in Refs /\ task \in DecTasks /\ RefsDiffer
            /\ (task.waitInfo => task.parsed)
        BY <1>0 DEF ParserTypes, SlotInv, OnTheWay, Control, ParserRests
      <3> QED  BY <3>1, <3>2, ResetLists
    <2>2. ptodo' \in Seq(SlotCalls)
      BY <1>13, <2>1 DEF ResetParser, Lists
    <2> QED  BY <1>0, <1>13, <2>2, SameTypes, ConstantTypes
             DEF ResetParser, ParserTypes, OtherTypes, outVars, histVars
  <1>14. ASSUME NEW i \in Slots, ResetDrain(i) PROVE Types'
    <2>1. SlotTypes'
      BY <1>0, <1>14, DequeueEffect DEF ResetDrain
    <2>2. ptodo' \in Seq(SlotCalls)
      BY <1>14, DrainLists DEF ResetDrain, Lists
    <2>3. dropped' \subseteq Nat
      BY <1>0, <1>14 DEF ResetDrain, OtherTypes
    <2> QED  BY <1>0, <1>14, <2>1, <2>2, <2>3, SameTypes
             DEF ResetDrain, ParserTypes, OtherTypes, ctrlVars, outVars
  <1>15. CASE ResetDone
    BY <1>0, <1>15, SameTypes, ConstantTypes
       DEF ResetDone, ParserTypes, OtherTypes, outVars, histVars
  <1>16. CASE ParserCall
    <2>1. ptodo \in Seq(SlotCalls) /\ ptodo # << >>
      BY <1>0, <1>16 DEF ParserTypes, ParserCall
    <2>2. Head(ptodo) \in SlotCalls /\ Tail(ptodo) \in Seq(SlotCalls)
      BY <2>1, Advanced
    <2>3. SlotTypes'
      BY <1>0, <1>16, <2>2, CallEffect DEF ParserCall
    <2> QED  BY <1>0, <1>16, <2>2, <2>3, SameTypes DEF ParserCall, ParserTypes
  <1> QED  BY <1>1, <1>2, <1>3, <1>4, <1>5, <1>6, <1>7, <1>8, <1>9, <1>10, <1>11, <1>12,
              <1>13, <1>14, <1>15, <1>16 DEF ParserNext

\* The steps of the hal thread keep the types.
LEMMA HalStepTypes == ASSUME SlotInv, HalNext PROVE Types'
  <1>0. /\ Types /\ SlotTypes /\ ParserTypes /\ HalTypes /\ OtherTypes /\ HalTasks \in Nat
        /\ HalRests
    BY FlowAssumption DEF SlotInv, Types, Control
  <1> USE DEF Types
  <1>1. CASE HalTake
    <2>1. procQ \in Seq(HalJobs) /\ procQ # << >>
      BY <1>0, <1>1 DEF HalTake, HalTypes
    <2>2. hal' \in HalJobs
      BY <1>1, <2>1, Advanced DEF HalTake
    <2>3. htodo' \in Seq(SlotCalls) /\ ref0' \in Refs
      BY <1>0, <1>1, FlushLists, FlushedTypes, NoCalls DEF HalTake, Lists, ParserTypes
    <2> QED  BY <1>0, <1>1, <2>2, <2>3, SameTypes DEF HalTake, HalTypes, ParserTypes
  <1>2. CASE HwDone
    <2>1. procQ \in Seq(HalJobs) /\ procQ # << >>
      BY <1>0, <1>2, HwTask DEF HwDone, HalTypes
    <2>2. procQ' \in Seq(HalJobs)
      BY <1>2, <2>1, Advanced DEF HwDone
    <2>3. procDone' \in Nat
      BY <1>0, <1>2 DEF HwDone, HalTypes
    <2>4. htodo' \in Seq(SlotCalls)
      <3>1. EndsStream(hal) \in BOOLEAN /\ ref0 \in Refs
        BY <1>0 DEF EndsStream, HalTypes, HalJobs, ParserTypes
      <3>2. Lists(HwDoneCalls(hal) \o If(EndsStream(hal), FlushCalls(ref0)),
                  DoneSet(hal) \cup (IF EndsStream(hal) THEN FlushSet(ref0) ELSE {}))
        BY <1>2, <3>1, HwTask, FinishLists DEF HwDone
      <3> QED  BY <1>2, <3>2 DEF HwDone, Lists
    <2>5. ref0' \in Refs
      BY <1>0, <1>2, FlushedTypes DEF HwDone, ParserTypes
    <2>6. decoded' \subseteq Nat
      BY <1>0, <1>2, HwTask DEF HwDone, OtherTypes
    <2>7. ParserTypes'
      BY <1>0, <1>2, <2>5 DEF HwDone, ParserTypes
    <2>8. HalTypes'
      BY <1>0, <1>2, <2>2, <2>3, <2>4 DEF HwDone, HalTypes
    <2>9. OtherTypes'
      BY <1>0, <1>2, <2>6 DEF HwDone, OtherTypes, ctrlVars, outVars
    <2> QED  BY <1>0, <1>2, <2>7, <2>8, <2>9, SameTypes DEF HwDone
  <1>3. CASE HalReset
    <2>1. htodo' \in Seq(SlotCalls) /\ ref0' \in Refs
      BY <1>0, <1>3, FlushLists, FlushedTypes DEF HalReset, Lists, ParserTypes
    <2> QED  BY <1>0, <1>3, <2>1, SameTypes, ConstantTypes DEF HalReset, HalTypes, ParserTypes
  <1>4. CASE HalCall
    <2>1. htodo \in Seq(SlotCalls) /\ htodo # << >>
      BY <1>0, <1>4 DEF HalTypes, HalCall
    <2>2. Head(htodo) \in SlotCalls /\ Tail(htodo) \in Seq(SlotCalls)
      BY <2>1, Advanced
    <2>3. SlotTypes'
      BY <1>0, <1>4, <2>2, CallEffect DEF HalCall
    <2> QED  BY <1>0, <1>4, <2>2, <2>3, SameTypes DEF HalCall, HalTypes
  <1>5. ASSUME NEW i \in Slots, HalDequeue(i) PROVE Types'
    <2>1. SlotTypes'
      BY <1>0, <1>5, DequeueEffect DEF HalDequeue
    <2> QED  BY <1>0, <1>5, <2>1, SameTypes DEF HalDequeue, HalTypes, Entries
  <1>6. CASE HalPut
    <2>1. hcur \in Slots
      BY <1>0, <1>6 DEF HalPut, HalRests, HalTypes, Entries
    <2>2. frames' \in Seq(OutFrames)
      <3>1. LastOfEos \in BOOLEAN
        BY <1>0 DEF LastOfEos, HalTypes, HalJobs
      <3>2. Frame(pic[hcur], slot[hcur].frameBuf, LastOfEos) \in OutFrames
        BY <1>0, <2>1, <3>1 DEF Frame, OutFrames, SlotTypes, SlotEntry, OtherTypes
      <3> QED  BY <1>0, <1>6, <3>2, Appended DEF HalPut, OtherTypes
    <2>3. shown' \in Seq(Nat) /\ eosSent' \in Nat
      BY <1>0, <1>6, <2>1 DEF HalPut, OtherTypes
    <2>4. htodo' \in Seq(SlotCalls)
      <3>1. <<"clr", hcur, "QUEUE_USE">> \in SlotCalls
        BY <2>1 DEF SlotCalls, Flags
      <3> QED  BY <1>6, <3>1, OneCall DEF HalPut
    <2>5. OtherTypes'
      BY <1>0, <1>6, <2>2, <2>3 DEF HalPut, OtherTypes, ctrlVars
    <2>6. HalTypes'
      BY <1>0, <1>6, <2>4 DEF HalPut, HalTypes, Entries
    <2> QED  BY <1>0, <1>6, <2>5, <2>6, SameTypes DEF HalPut
  <1>7. CASE HalEnd
    <2>1. procQ' \in Seq(HalJobs)
      BY <1>0, <1>7, Advanced DEF HalEnd, HalRests, HalTypes
    <2>2. frames' \in Seq(OutFrames)
      BY <1>0, <1>7, ConstantTypes, Appended DEF HalEnd, OtherTypes
    <2>3. OtherTypes'
      BY <1>0, <1>7, <2>2 DEF HalEnd, OtherTypes
    <2>4. HalTypes'
      BY <1>0, <1>7, <2>1, ConstantTypes DEF HalEnd, HalTypes
    <2> QED  BY <1>0, <1>7, <2>3, <2>4, SameTypes DEF HalEnd
  <1> QED  BY <1>1, <1>2, <1>3, <1>4, <1>5, <1>6, <1>7 DEF HalNext

\* The steps of the user keep the types.
LEMMA UserStepTypes == ASSUME SlotInv, UserNext PROVE Types'
  <1>0. /\ Types /\ SlotTypes /\ ParserTypes /\ HalTypes /\ OtherTypes /\ MaxResets \in Nat
        /\ MaxPics \in Nat
    BY FlowAssumption DEF SlotInv, Types
  <1> USE DEF Types
  <1>1. CASE TakeFrame
    <2>1. Tail(frames) \in Seq(OutFrames) /\ Head(frames) \in OutFrames
      BY <1>0, <1>1, Advanced DEF TakeFrame, OtherTypes
    <2>2. held' \subseteq Buffers
      BY <1>0, <1>1, <2>1 DEF TakeFrame, OtherTypes, OutFrames
    <2>3. OtherTypes'
      BY <1>0, <1>1, <2>1, <2>2 DEF TakeFrame, OtherTypes, histVars
    <2> QED  BY <1>0, <1>1, <2>3, SameTypes DEF TakeFrame
  <1>2. CASE UserFlush
    <2>1. bufRef' \in [Buffers -> Int]
      <3>1. \A b \in Buffers : {k \in DOMAIN frames : frames[k].buf = b} \subseteq 1 .. Len(frames)
        BY <1>0 DEF OtherTypes
      <3>2. \A b \in Buffers : Cardinality({k \in DOMAIN frames : frames[k].buf = b}) \in Nat
        <4>1. Len(frames) \in Nat
          BY <1>0 DEF OtherTypes
        <4>2. IsFiniteSet(1 .. Len(frames))
          BY <4>1, FS_Interval
        <4> QED  BY <3>1, <4>2, FS_Subset, FS_CardinalityType
      <3> QED  BY <1>0, <1>2, <3>2 DEF UserFlush, FlushedRefs, SlotTypes
    <2>2. SlotTypes'
      BY <1>0, <1>2, <2>1 DEF UserFlush, SlotTypes
    <2>3. pic' \in [Slots -> Nat] /\ frames' \in Seq(OutFrames)
          /\ coded' \in Seq({"I", "P", "B", "N"}) /\ Len(coded') <= MaxPics /\ shown' \in Seq(Nat)
      BY <1>0, <1>2 DEF UserFlush
    <2>4. OtherTypes'
      BY <1>0, <1>2, <2>3 DEF UserFlush, OtherTypes
    <2> QED  BY <1>0, <1>2, <2>2, <2>4, SameTypes DEF UserFlush
  <1>3. CASE UserReset
    <2>1. OtherTypes'
      BY <1>0, <1>3 DEF UserReset, OtherTypes, outVars
    <2> QED  BY <1>0, <1>3, <2>1, SameTypes DEF UserReset
  <1>4. ASSUME NEW b \in Buffers, ReleaseFrame(b) PROVE Types'
    <2>1. SlotTypes'
      <3>1. bufRef' \in [Buffers -> Int]
        BY <1>0, <1>4, RefAddType DEF ReleaseFrame, SlotTypes
      <3> QED  BY <1>0, <1>4, <3>1 DEF ReleaseFrame, SlotTypes
    <2>2. OtherTypes'
      BY <1>0, <1>4 DEF ReleaseFrame, OtherTypes, ctrlVars, histVars
    <2> QED  BY <1>0, <1>4, <2>1, <2>2, SameTypes DEF ReleaseFrame
  <1> QED  BY <1>1, <1>2, <1>3, <1>4 DEF UserNext

\* Every step keeps the types.
LEMMA StepTypes == ASSUME SlotInv, [Next]_vars PROVE Types'
  <1>1. CASE Next
    BY <1>1, ParserStepTypes, HalStepTypes, UserStepTypes DEF Next
  <1>2. CASE UNCHANGED vars
    BY <1>2, SameTypes DEF vars, SlotInv, Types
  <1> QED  BY <1>1, <1>2

-----------------------------------------------------------------------------
(* The control of the threads *)

\* What the steps of each thread, and of the application, leave alone.
LEMMA ParserKeeps ==
    ASSUME ParserNext
    PROVE  UNCHANGED <<hpc, htodo, hal, hcur, frames, held, decoded, shown, eosSent, resets>>
  <1>1. ASSUME NEW type \in {"I", "P", "B"}, NEW size \in Infos, NEW eos \in BOOLEAN,
               Parse(type, size, eos)
        PROVE  UNCHANGED <<hpc, htodo, hal, hcur, frames, held, decoded, shown, eosSent, resets>>
    BY <1>1 DEF Parse, halVars, outVars
  <1> QED
    BY <1>1 DEF ParserNext, PrevDone, ParseSkipped, PrepareEos, SubmitEos, SendInfoChange,
       WaitInfoChange, NoBuffer, GetBuffer, Submit, ProcControl, ResetPost, ResetParser, ResetDone,
       ResetDrain, ParserCall, halVars, outVars, histVars

\* What the hal thread never changes.
LEMMA HalKeeps ==
    ASSUME HalNext
    PROVE  /\ UNCHANGED <<ref1, foundI, gotEos, ppc, ptodo, task, resetFlag, flushDue, readyCmd>>
           /\ UNCHANGED <<held, pic, coded, dropped, resets>>
  BY DEF HalNext, HalTake, HwDone, HalReset, HalCall, HalDequeue, HalPut, HalEnd, parserVars,
     ctrlVars, outVars, histVars

\* What the user never changes.
LEMMA UserKeeps ==
    ASSUME UserNext
    PROVE  /\ UNCHANGED <<slot, queue, usedCount, info, infoSet, infoChanged, slotError>>
           /\ UNCHANGED <<parserVars, halVars, halReset>>
  BY DEF UserNext, TakeFrame, UserFlush, UserReset, ReleaseFrame, slotVars, ctrlVars

\* A task more, and a task less, in the hal thread's queue.
LEMMA QueueMore ==
    ASSUME procQ \in Seq(HalJobs), NEW t \in HalJobs, procQ' = Append(procQ, t)
    PROVE  /\ Len(procQ') = Len(procQ) + 1 /\ Len(procQ) \in Nat
           /\ \A k \in DOMAIN procQ : k \in DOMAIN procQ' /\ procQ'[k] = procQ[k] /\ k # Len(procQ) + 1
           /\ Len(procQ) + 1 \in DOMAIN procQ' /\ procQ'[Len(procQ) + 1] = t
           /\ \A k \in DOMAIN procQ' : k \in DOMAIN procQ \/ k = Len(procQ) + 1
           /\ procQ # << >> => Head(procQ') = Head(procQ)
           /\ procQ' # << >>
  OBVIOUS

\* The task list without its first task.
LEMMA QueueLess ==
    ASSUME procQ \in Seq(HalJobs), procQ # << >>, procQ' = Tail(procQ)
    PROVE  /\ Len(procQ') = Len(procQ) - 1 /\ Len(procQ) \in Nat
           /\ \A k \in DOMAIN procQ' : k + 1 \in DOMAIN procQ /\ procQ'[k] = procQ[k + 1] /\ k \in Nat
                                       /\ k > 0
           /\ \A k \in DOMAIN procQ : k # 1 => k - 1 \in DOMAIN procQ' /\ procQ'[k - 1] = procQ[k]
           /\ 1 \in DOMAIN procQ /\ Head(procQ) = procQ[1]
           /\ DOMAIN procQ = 1 .. Len(procQ)
  <1>1. DOMAIN procQ' = 1 .. Len(procQ) - 1 /\ Len(procQ) \in Nat /\ DOMAIN procQ = 1 .. Len(procQ)
        /\ Len(procQ') = Len(procQ) - 1 /\ Len(procQ) > 0
        /\ \A k \in 1 .. Len(procQ) - 1 : procQ'[k] = procQ[k + 1]
    OBVIOUS
  <1>2. ASSUME NEW k \in DOMAIN procQ, k # 1
        PROVE  k - 1 \in DOMAIN procQ' /\ procQ'[k - 1] = procQ[k]
    <2>1. k - 1 \in 1 .. Len(procQ) - 1 /\ k - 1 + 1 = k
      BY <1>1, <1>2
    <2> QED  BY <1>1, <2>1
  <1>3. \A k \in DOMAIN procQ' : k + 1 \in DOMAIN procQ /\ procQ'[k] = procQ[k + 1] /\ k \in Nat /\ k > 0
    BY <1>1
  <1> QED  BY <1>1, <1>2, <1>3

\* Every step keeps what the parser thread knows of its task.
LEMMA ParserRestsStep == ASSUME SlotInv, Next PROVE ParserRests'
  <1>0. ParserRests /\ ResetSteps /\ InfoOnce /\ task \in DecTasks /\ ref0 \in Refs
    BY DEF SlotInv, Control, Types, ParserTypes
  <1>1. CASE HalNext \/ UserNext
    BY <1>0, <1>1, HalKeeps, UserKeeps DEF ParserRests, parserVars
  <1>2. CASE PrevDone
    BY <1>0, <1>2 DEF PrevDone, ParserRests, DecTasks
  <1>3. ASSUME NEW type \in {"I", "P", "B"}, NEW size \in Infos, NEW eos \in BOOLEAN,
               Parse(type, size, eos)
        PROVE  ParserRests'
    <2>1. PICK i \in Slots : ParseAs(type, size, eos, i)
      BY <1>3 DEF Parse
    <2>2. ParseFacts(type, size, eos, i)
      BY <1>3, <2>1, ParseEffect
    <2> QED  BY <2>2 DEF ParserRests, ParseFacts, Slots, NoSlot
  <1>4. ASSUME NEW eos \in BOOLEAN, ParseSkipped(eos) PROVE ParserRests'
    BY <1>0, <1>4 DEF ParseSkipped, ParserRests, TryProc, PacketReady
  <1>5. CASE PrepareEos
    BY <1>0, <1>5 DEF PrepareEos, ParserRests, TryProc, PacketReady
  <1>6. CASE SubmitEos
    BY <1>0, <1>6 DEF SubmitEos, ParserRests
  <1>7. CASE SendInfoChange \/ WaitInfoChange \/ NoBuffer \/ \E b \in Buffers : GetBuffer(b)
    BY <1>0, <1>7 DEF SendInfoChange, WaitInfoChange, NoBuffer, GetBuffer, Parsed, TryProc,
       ParserRests, DecTasks
  <1>8. CASE Submit
    BY <1>0, <1>8 DEF Submit, ParserRests, NoTask
  <1>9. CASE ProcControl \/ ResetPost
    BY <1>0, <1>9 DEF ProcControl, ResetPost, ParserRests, parserVars
  <1>10. CASE ResetParser
    BY <1>0, <1>10 DEF ResetParser, ParserRests
  <1>11. CASE ResetDone \/ \E i \in Slots : ResetDrain(i)
    BY <1>0, <1>11 DEF ResetDone, ResetDrain, ParserRests, NoTask
  <1>12. CASE ParserCall
    BY <1>0, <1>12 DEF ParserCall, ParserRests
  <1> QED  BY <1>1, <1>2, <1>3, <1>4, <1>5, <1>6, <1>7, <1>8, <1>9, <1>10, <1>11, <1>12
           DEF Next, ParserNext

\* Every step keeps the hal thread at the first task until it takes it away.
LEMMA HalRestsStep == ASSUME SlotInv, Next PROVE HalRests'
  <1>0. /\ HalRests /\ ParserRests /\ ResetSteps /\ task \in DecTasks /\ hal \in HalJobs
        /\ procQ \in Seq(HalJobs) /\ hcur \in Entries
    BY DEF SlotInv, Control, Types, ParserTypes, HalTypes
  <1> DEFINE Part == \A k \in DOMAIN procQ :
                       /\ procQ[k].kind \in {"frame", "info", "eos"}
                       /\ procQ[k].kind = "frame" => procQ[k].out # NoSlot
  <1>1. CASE UserNext
    BY <1>0, <1>1, UserKeeps DEF HalRests, halVars
  <1>2. ASSUME UNCHANGED <<hpc, htodo, hal, hcur>>,
               NEW t \in HalJobs, procQ' = Append(procQ, t), t.kind \in {"frame", "info", "eos"},
               t.kind = "frame" => t.out # NoSlot, hal.kind # "reset"
        PROVE  HalRests'
    <2>1. Part'
      BY <1>0, <1>2, QueueMore DEF HalRests
    <2>2. procQ' # << >> /\ (procQ # << >> => Head(procQ') = Head(procQ))
      BY <1>0, <1>2, QueueMore
    <2> QED  BY <1>0, <1>2, <2>1, <2>2 DEF HalRests
  <1>3. ASSUME UNCHANGED <<hpc, htodo, hal, hcur, procQ>>, hal.kind = "reset" => halReset' = "posted"
        PROVE  HalRests'
    BY <1>0, <1>3 DEF HalRests
  <1>4. CASE ParserNext
    <2>1. UNCHANGED <<hpc, htodo, hal, hcur>>
      BY <1>4, ParserKeeps
    <2>2. hal.kind = "reset" => ppc = "waithal" /\ halReset = "posted"
      BY <1>0 DEF HalRests, ResetSteps
    <2>3. ASSUME NEW type \in {"I", "P", "B"}, NEW size \in Infos, NEW eos \in BOOLEAN,
                 Parse(type, size, eos)
          PROVE  HalRests'
      BY <1>3, <2>1, <2>2, <2>3 DEF Parse, halVars, ctrlVars
    <2>4. ASSUME NEW eos \in BOOLEAN, ParseSkipped(eos) PROVE HalRests'
      <3>1. ppc = "top" /\ halReset' = halReset
        BY <2>4 DEF ParseSkipped, TryProc, ctrlVars
      <3>2. CASE eos
        <4> DEFINE t == HalTask("eos", NoSlot, NoRefer, TRUE)
        <4>1. procQ' = Append(procQ, t) /\ t \in HalJobs /\ t.kind = "eos"
          BY <2>4, <3>2, ConstantTypes DEF ParseSkipped, HalTask
        <4> HIDE DEF t
        <4> QED  BY <1>2, <2>1, <2>2, <3>1, <4>1
      <3>3. CASE ~eos
        BY <1>3, <2>1, <2>2, <2>4, <3>1, <3>3 DEF ParseSkipped
      <3> QED  BY <3>2, <3>3
    <2>5. CASE SubmitEos
      <3> DEFINE t == HalTask("eos", NoSlot, NoRefer, TRUE)
      <3>1. procQ' = Append(procQ, t) /\ t \in HalJobs /\ t.kind = "eos" /\ ppc = "eos"
        BY <2>5, ConstantTypes DEF SubmitEos, HalTask
      <3> HIDE DEF t
      <3> QED  BY <1>2, <2>1, <2>2, <3>1
    <2>6. CASE SendInfoChange
      <3> DEFINE t == HalTask("info", task.out, NoRefer, FALSE)
      <3>1. procQ' = Append(procQ, t) /\ t.kind = "info" /\ ppc # "waithal"
        BY <2>6 DEF SendInfoChange, HalTask, Parsed, TryProc
      <3>2. t \in HalJobs
        BY <1>0 DEF DecTasks, HalTask, HalJobs, NoRefer, Entries
      <3> HIDE DEF t
      <3> QED  BY <1>2, <2>1, <2>2, <3>1, <3>2
    <2>7. CASE Submit
      <3> DEFINE t == HalTask("frame", task.out, task.refer, task.eos)
      <3>1. procQ' = Append(procQ, t) /\ t.kind = "frame" /\ t.out = task.out /\ ppc = "submit"
        BY <2>7 DEF Submit, HalTask
      <3>2. t \in HalJobs
        BY <1>0 DEF DecTasks, HalTask, HalJobs, Entries
      <3>3. task.out # NoSlot
        BY <1>0, <3>1 DEF ParserRests
      <3> HIDE DEF t
      <3> QED  BY <1>2, <2>1, <2>2, <3>1, <3>2, <3>3
    <2>8. CASE ResetParser
      <3>1. hal.kind # "reset"
        BY <2>2, <2>8 DEF ResetParser
      <3> QED  BY <1>3, <2>1, <2>8, <3>1 DEF ResetParser, halVars
    <2>9. CASE ResetPost
      BY <1>3, <2>1, <2>2, <2>9 DEF ResetPost, halVars
    <2>10. CASE \/ PrevDone \/ PrepareEos \/ WaitInfoChange \/ NoBuffer
                \/ (\E b \in Buffers : GetBuffer(b)) \/ ProcControl \/ ResetDone
                \/ (\E i \in Slots : ResetDrain(i)) \/ ParserCall
      <3>1. UNCHANGED <<procQ, halReset>>
        BY <2>10 DEF PrevDone, PrepareEos, WaitInfoChange, NoBuffer, GetBuffer, ProcControl,
           ResetDone, ResetDrain, ParserCall, halVars, ctrlVars
      <3> QED  BY <1>3, <2>1, <2>2, <3>1
    <2> QED  BY <1>4, <2>3, <2>4, <2>5, <2>6, <2>7, <2>8, <2>9, <2>10 DEF ParserNext
  <1>5. CASE HalTake
    <2>1. procQ # << >> /\ hal' = Head(procQ) /\ Head(procQ) = procQ[1] /\ 1 \in DOMAIN procQ
          /\ UNCHANGED <<procQ, hcur>> /\ hcur = NoSlot
      BY <1>0, <1>5 DEF HalTake, HalRests
    <2>2. hal'.kind \in {"frame", "info", "eos"}
      BY <1>0, <2>1 DEF HalRests
    <2> QED  BY <1>0, <1>5, <2>1, <2>2 DEF HalTake, HalRests
  <1>6. CASE HwDone
    <2>1. procQ' = Tail(procQ) /\ procQ # << >> /\ hal.kind = "frame" /\ hpc' = "push"
          /\ UNCHANGED <<hal, hcur>> /\ hcur = NoSlot
      BY <1>0, <1>6 DEF HwDone, HalRests
    <2>2. Part'
      BY <1>0, <2>1, QueueLess DEF HalRests
    <2> QED  BY <2>1, <2>2 DEF HalRests
  <1>7. CASE HalReset
    <2>1. /\ hal' = HalTask("reset", NoSlot, NoRefer, FALSE) /\ procQ = << >> /\ halReset = "posted"
          /\ hpc = "top" /\ hpc' = "push" /\ UNCHANGED <<procQ, hcur, halReset>>
      BY <1>7 DEF HalReset, HalIdle, ctrlVars
    <2>2. hal'.kind = "reset" /\ ~hal'.eos
      BY <2>1 DEF HalTask
    <2> QED  BY <1>0, <2>1, <2>2 DEF HalRests
  <1>8. CASE HalCall
    <2>1. UNCHANGED <<procQ, hpc, hal, hcur, halReset>> /\ htodo # << >>
      BY <1>8 DEF HalCall, ctrlVars
    <2> QED  BY <1>0, <2>1 DEF HalRests
  <1>9. ASSUME NEW i \in Slots, HalDequeue(i) PROVE HalRests'
    <2>1. UNCHANGED <<procQ, htodo, hal, halReset>> /\ hpc = "push" /\ htodo = << >> /\ hcur' = i
          /\ hpc' = "put" /\ i # NoSlot
      BY <1>9 DEF HalDequeue, ctrlVars, Slots, NoSlot
    <2> QED  BY <1>0, <2>1 DEF HalRests
  <1>10. CASE HalPut
    BY <1>0, <1>10 DEF HalPut, HalRests, ctrlVars
  <1>11. CASE HalEnd
    <2>1. /\ procQ' = IF hal.kind \in {"info", "eos"} THEN Tail(procQ) ELSE procQ
          /\ hal' = NoHal /\ hpc' = "top" /\ htodo' = << >> /\ hcur' = NoSlot
      BY <1>0, <1>11 DEF HalEnd, HalRests
    <2>2. Part'
      <3>1. CASE hal.kind \in {"info", "eos"}
        BY <1>0, <2>1, <3>1, QueueLess DEF HalRests
      <3>2. CASE hal.kind \notin {"info", "eos"}
        BY <1>0, <2>1, <3>2 DEF HalRests
      <3> QED  BY <3>1, <3>2
    <2>3. hal'.kind = "none"
      BY <2>1 DEF NoHal, HalTask
    <2> QED  BY <2>1, <2>2, <2>3 DEF HalRests
  <1> QED  BY <1>1, <1>4, <1>5, <1>6, <1>7, <1>8, <1>9, <1>10, <1>11 DEF Next, HalNext

\* Every step keeps the order of a reset: posted, done, drained, and then all rests.
LEMMA ResetStepsStep == ASSUME SlotInv, Next PROVE ResetSteps' /\ AfterReset'
  <1>0. /\ ResetSteps /\ AfterReset /\ ParserRests /\ HalRests /\ EndsParsing
        /\ ref0 \in Refs /\ procQ \in Seq(HalJobs)
    BY DEF SlotInv, Control, Types, ParserTypes, HalTypes
  <1>1. CASE UserNext
    <2>1. CASE TakeFrame \/ \E b \in Buffers : ReleaseFrame(b)
      BY <1>0, <2>1 DEF TakeFrame, ReleaseFrame, ResetSteps, AfterReset, HalAtRest, parserVars,
         halVars, ctrlVars
    <2>2. CASE UserReset
      BY <1>0, <2>2 DEF UserReset, ResetSteps, AfterReset, HalAtRest, parserVars, halVars
    <2>3. CASE UserFlush
      BY <1>0, <2>3 DEF UserFlush, ResetSteps, AfterReset, HalAtRest, parserVars, halVars
    <2> QED  BY <1>1, <2>1, <2>2, <2>3 DEF UserNext
  <1>2. CASE HalNext
    <2>1. UNCHANGED <<ref1, ppc, ptodo, task, resetFlag, flushDue>>
      BY <1>2, HalKeeps
    <2>2. CASE HalTake
      <3>1. ~HalAtRest /\ UNCHANGED halReset /\ hal' = procQ[1] /\ 1 \in DOMAIN procQ
        BY <1>0, <2>2 DEF HalTake, HalAtRest, ctrlVars
      <3>2. hal'.kind # "reset"
        BY <1>0, <3>1 DEF HalRests
      <3> QED  BY <1>0, <2>1, <3>1, <3>2 DEF ResetSteps, AfterReset
    <2>3. CASE HwDone
      <3>1. ~HalAtRest /\ UNCHANGED <<halReset, hal>> /\ hal.kind = "frame"
        BY <1>0, <2>3 DEF HwDone, HalAtRest, HalRests, ctrlVars
      <3> QED  BY <1>0, <2>1, <3>1 DEF ResetSteps, AfterReset
    <2>4. CASE HalReset
      <3>1. UNCHANGED halReset /\ halReset = "posted" /\ ref0' = Flushed(ref0)
        BY <2>4 DEF HalReset, ctrlVars
      <3>2. Valid(ref0') => ref0'.enqueued
        BY <1>0, <3>1, FlushedTypes DEF Valid
      <3> QED  BY <1>0, <2>1, <3>1, <3>2 DEF ResetSteps, AfterReset, Valid
    <2>5. CASE HalCall \/ HalPut \/ \E i \in Slots : HalDequeue(i)
      <3>1. ~HalAtRest /\ UNCHANGED <<halReset, hal, ref0>>
        BY <1>0, <2>5 DEF HalCall, HalPut, HalDequeue, HalRests, HalAtRest, parserVars, ctrlVars
      <3> QED  BY <1>0, <2>1, <3>1 DEF ResetSteps, AfterReset, Valid
    <2>6. CASE HalEnd
      <3>1. /\ ~HalAtRest /\ UNCHANGED ref0 /\ hpc' = "top" /\ htodo = << >> /\ hal' = NoHal
            /\ halReset' = IF hal.kind = "reset" THEN "done" ELSE halReset
            /\ hal.kind = "reset" => procQ' = << >>
        BY <1>0, <2>6 DEF HalEnd, HalAtRest, HalRests, parserVars
      <3>0. hal'.kind # "reset"
        BY <3>1 DEF NoHal, HalTask
      <3>2. CASE hal.kind = "reset"
        <4>1. Valid(ref0) => ref0.enqueued
          BY <1>0, <3>2 DEF ResetSteps
        <4>2. halReset = "posted" /\ halReset' = "done" /\ HalAtRest'
          BY <1>0, <3>1, <3>2 DEF HalRests, HalAtRest
        <4> QED  BY <1>0, <2>1, <3>0, <3>1, <4>1, <4>2 DEF ResetSteps, AfterReset, Valid
      <3>3. CASE hal.kind # "reset"
        BY <1>0, <2>1, <3>0, <3>1, <3>3 DEF ResetSteps, AfterReset
      <3> QED  BY <3>2, <3>3
    <2> QED  BY <1>2, <2>2, <2>3, <2>4, <2>5, <2>6 DEF HalNext
  <1>3. CASE ParserNext
    <2>1. UNCHANGED <<hpc, htodo, hal, hcur>>
      BY <1>3, ParserKeeps
    <2>2. ASSUME ppc \in {"top", "check", "submit", "eos"}, ppc' \in {"top", "check", "submit", "eos"},
                 UNCHANGED <<resetFlag, flushDue, halReset>>,
                 flushDue => resetFlag \/ UNCHANGED <<ref0, ref1, task, procQ, ppc>>
          PROVE  ResetSteps' /\ AfterReset'
      <3>1. halReset = "none" /\ hal.kind # "reset"
        BY <1>0, <2>2 DEF ResetSteps, HalRests
      <3> QED  BY <1>0, <2>1, <2>2, <3>1 DEF ResetSteps, AfterReset, HalAtRest
    <2>3. task.parsed => resetFlag \/ ~flushDue
      BY <1>0 DEF AfterReset, NoTask
    <2>4. ASSUME NEW type \in {"I", "P", "B"}, NEW size \in Infos, NEW eos \in BOOLEAN,
                 Parse(type, size, eos)
          PROVE  ResetSteps' /\ AfterReset'
      BY <2>2, <2>4 DEF Parse, TryProc, PacketReady, ctrlVars
    <2>5. ASSUME NEW eos \in BOOLEAN, ParseSkipped(eos) PROVE ResetSteps' /\ AfterReset'
      BY <2>2, <2>5 DEF ParseSkipped, TryProc, PacketReady, ctrlVars
    <2>6. CASE PrevDone \/ PrepareEos
      BY <2>2, <2>6 DEF PrevDone, PrepareEos, TryProc, PacketReady, ctrlVars
    <2>7. CASE SubmitEos \/ Submit
      <3>1. flushDue => resetFlag
        BY <1>0, <2>7 DEF SubmitEos, Submit, AfterReset
      <3> QED  BY <2>2, <2>7, <3>1 DEF SubmitEos, Submit, ctrlVars
    <2>8. CASE SendInfoChange \/ WaitInfoChange \/ NoBuffer \/ \E b \in Buffers : GetBuffer(b)
      BY <2>2, <2>3, <2>8 DEF SendInfoChange, WaitInfoChange, NoBuffer, GetBuffer, Parsed, TryProc,
         ctrlVars
    <2>9. CASE ProcControl
      BY <2>2, <2>9 DEF ProcControl, parserVars, halVars
    <2>10. CASE ResetPost
      <3>1. ppc = "top" /\ resetFlag /\ halReset' = "posted" /\ ppc' = "waithal"
            /\ UNCHANGED <<resetFlag, flushDue, ref0>>
        BY <2>10 DEF ResetPost, ResetAsked
      <3> QED  BY <1>0, <2>1, <3>1 DEF ResetSteps, AfterReset, Valid
    <2>11. CASE ResetParser
      <3>1. /\ ppc = "waithal" /\ halReset = "done" /\ ref0' = NoRef /\ ref1' = NoRef
            /\ halReset' = "none" /\ ppc' = "drain" /\ UNCHANGED <<procQ, resetFlag, flushDue>>
        BY <2>11 DEF ResetParser, halVars
      <3> QED  BY <1>0, <2>1, <3>1 DEF ResetSteps, AfterReset, HalAtRest, Valid, NoRef
    <2>12. CASE \E i \in Slots : ResetDrain(i)
      <3>1. ppc = "drain" /\ UNCHANGED <<ref0, ref1, ppc, procQ, resetFlag, flushDue, halReset>>
        BY <2>12 DEF ResetDrain, halVars, ctrlVars
      <3> QED  BY <1>0, <2>1, <3>1 DEF ResetSteps, AfterReset, HalAtRest, Valid
    <2>13. CASE ResetDone
      <3>1. /\ ppc = "drain" /\ ~resetFlag' /\ ppc' = "top" /\ task' = NoTask
            /\ UNCHANGED <<ref0, ref1, procQ, flushDue, halReset>>
        BY <2>13 DEF ResetDone, halVars
      <3> QED  BY <1>0, <2>1, <3>1 DEF ResetSteps, AfterReset, HalAtRest, Valid
    <2>14. CASE ParserCall
      <3>1. ptodo # << >> /\ UNCHANGED <<ref0, ref1, ppc, task, procQ, resetFlag, flushDue, halReset>>
        BY <2>14 DEF ParserCall, halVars, ctrlVars
      <3> QED  BY <1>0, <2>1, <3>1 DEF ResetSteps, AfterReset, HalAtRest, Valid
    <2> QED  BY <1>3, <2>4, <2>5, <2>6, <2>7, <2>8, <2>9, <2>10, <2>11, <2>12, <2>13, <2>14
             DEF ParserNext
  <1> QED  BY <1>1, <1>2, <1>3 DEF Next

\* Every step keeps a free task for what the parser thread is about to send.
LEMMA TasksLeftStep == ASSUME SlotInv, Next, Types' PROVE TasksLeft'
  <1>0. /\ TasksLeft /\ HalRests /\ ParserRests /\ procQ \in Seq(HalJobs) /\ procDone \in Nat
        /\ HalTasks \in Nat /\ procQ' \in Seq(HalJobs) /\ procDone' \in Nat /\ Len(procQ) \in Nat
    BY FlowAssumption DEF SlotInv, Control, Types, HalTypes
  <1>1. CASE UserNext
    BY <1>0, <1>1, UserKeeps DEF TasksLeft, halVars, parserVars
  <1>2. CASE HalNext
    <2>1. UNCHANGED ppc
      BY <1>2, HalKeeps
    <2>2. ASSUME Len(procQ') + procDone' <= Len(procQ) + procDone PROVE TasksLeft'
      BY <1>0, <2>1, <2>2 DEF TasksLeft
    <2>3. CASE HalTake \/ HalReset \/ HalCall \/ HalPut \/ \E i \in Slots : HalDequeue(i)
      <3>1. UNCHANGED <<procQ, procDone>>
        BY <2>3 DEF HalTake, HalReset, HalCall, HalPut, HalDequeue
      <3> QED  BY <1>0, <2>2, <3>1
    <2>4. CASE HwDone
      <3>1. Len(procQ') = Len(procQ) - 1 /\ procDone' <= procDone + 1
        BY <1>0, <2>4, HwTask, QueueLess DEF HwDone
      <3> QED  BY <1>0, <2>2, <3>1
    <2>5. CASE HalEnd
      <3>1. Len(procQ') <= Len(procQ)
        BY <1>0, <2>5, QueueLess DEF HalEnd, HalRests
      <3>2. procDone' <= procDone
        BY <1>0, <2>5 DEF HalEnd
      <3> QED  BY <1>0, <2>2, <3>1, <3>2
    <2> QED  BY <1>2, <2>3, <2>4, <2>5 DEF HalNext
  <1>3. CASE ParserNext
    <2>1. ASSUME UNCHANGED <<procQ, procDone>>,
                 ppc' \in {"check", "submit", "eos"} => ppc \in {"check", "submit"} \/ IdleTasks > 0
          PROVE  TasksLeft'
      BY <1>0, <2>1 DEF TasksLeft, IdleTasks
    <2>2. ASSUME NEW t \in HalJobs, procQ' = Append(procQ, t), UNCHANGED procDone,
                 ppc' = "top", ppc \in {"check", "submit", "eos"} \/ IdleTasks > 0
          PROVE  TasksLeft'
      <3>1. Len(procQ') = Len(procQ) + 1
        BY <1>0, <2>2
      <3> QED  BY <1>0, <2>2, <3>1 DEF TasksLeft, IdleTasks
    <2>3. ASSUME NEW type \in {"I", "P", "B"}, NEW size \in Infos, NEW eos \in BOOLEAN,
                 Parse(type, size, eos)
          PROVE  TasksLeft'
      BY <2>1, <2>3 DEF Parse, TryProc, halVars
    <2>4. ASSUME NEW eos \in BOOLEAN, ParseSkipped(eos) PROVE TasksLeft'
      <3>1. ppc' = "top" /\ IdleTasks > 0 /\ UNCHANGED procDone
        BY <2>4 DEF ParseSkipped, TryProc
      <3>2. CASE eos
        BY <2>2, <2>4, <3>1, <3>2, ConstantTypes DEF ParseSkipped
      <3>3. CASE ~eos
        BY <2>1, <2>4, <3>1, <3>3 DEF ParseSkipped
      <3> QED  BY <3>2, <3>3
    <2>5. CASE PrevDone
      <3>1. procDone' = procDone - 1 /\ UNCHANGED <<procQ, ppc>> /\ ppc = "top"
        BY <2>5 DEF PrevDone, TryProc
      <3> QED  BY <1>0, <3>1 DEF TasksLeft
    <2>6. CASE SubmitEos
      BY <2>2, <2>6, ConstantTypes DEF SubmitEos
    <2>7. CASE SendInfoChange
      <3> DEFINE t == HalTask("info", task.out, NoRefer, FALSE)
      <3>1. t \in HalJobs
        BY DEF SlotInv, Types, ParserTypes, DecTasks, HalTask, HalJobs, NoRefer, Entries
      <3>2. procQ' = Append(procQ, t)
        BY <2>7 DEF SendInfoChange
      <3> HIDE DEF t
      <3> QED  BY <2>2, <2>7, <3>1, <3>2 DEF SendInfoChange, Parsed, TryProc
    <2>8. CASE Submit
      <3> DEFINE t == HalTask("frame", task.out, task.refer, task.eos)
      <3>1. t \in HalJobs
        BY DEF SlotInv, Types, ParserTypes, DecTasks, HalTask, HalJobs, Entries
      <3>2. procQ' = Append(procQ, t)
        BY <2>8 DEF Submit
      <3> HIDE DEF t
      <3> QED  BY <2>2, <2>8, <3>1, <3>2 DEF Submit
    <2>9. CASE \/ PrepareEos \/ WaitInfoChange \/ NoBuffer \/ (\E b \in Buffers : GetBuffer(b))
               \/ ProcControl \/ ResetPost \/ ResetParser \/ ResetDone
               \/ (\E i \in Slots : ResetDrain(i))
      BY <2>1, <2>9 DEF PrepareEos, WaitInfoChange, NoBuffer, GetBuffer, Parsed, TryProc,
         ProcControl, ResetPost, ResetParser, ResetDone, ResetDrain, halVars, parserVars
    <2>10. CASE ParserCall
      <3>1. UNCHANGED <<procQ, procDone, ppc>>
        BY <2>10 DEF ParserCall, halVars
      <3> QED  BY <1>0, <3>1 DEF TasksLeft
    <2> QED  BY <1>3, <2>3, <2>4, <2>5, <2>6, <2>7, <2>8, <2>9, <2>10 DEF ParserNext
  <1> QED  BY <1>1, <1>2, <1>3 DEF Next

\* No step parses after the end of the stream.
LEMMA EndsParsingStep == ASSUME SlotInv, Next PROVE EndsParsing'
  <1>0. /\ EndsParsing /\ HalRests /\ ParserRests /\ ResetSteps /\ procQ \in Seq(HalJobs)
        /\ task \in DecTasks
    BY DEF SlotInv, Control, Types, ParserTypes, HalTypes
  <1> DEFINE Ends == (\E k \in DOMAIN procQ : procQ[k].eos) \/ hal.eos
             Rests == gotEos /\ ~task.parsed /\ ppc \in {"top", "waithal"}
  <1>1. CASE UserNext
    BY <1>0, <1>1, UserKeeps DEF EndsParsing, halVars, parserVars
  <1>2. CASE HalNext
    <2>1. UNCHANGED <<gotEos, ppc, task>>
      BY <1>2, HalKeeps
    <2>2. ASSUME Ends' => Ends PROVE EndsParsing'
      BY <1>0, <2>1, <2>2 DEF EndsParsing
    <2>3. CASE HalTake
      <3>1. hal' = procQ[1] /\ 1 \in DOMAIN procQ /\ UNCHANGED procQ
        BY <1>0, <2>3 DEF HalTake
      <3> QED  BY <2>2, <3>1
    <2>4. CASE HwDone
      <3>1. procQ # << >> /\ procQ' = Tail(procQ) /\ UNCHANGED hal
        BY <1>0, <2>4 DEF HwDone, HalRests
      <3>2. \A k \in DOMAIN procQ' : k + 1 \in DOMAIN procQ /\ procQ'[k] = procQ[k + 1]
        BY <1>0, <3>1, QueueLess
      <3> QED  BY <2>2, <3>1, <3>2
    <2>5. CASE HalReset
      <3>1. ~hal'.eos /\ UNCHANGED procQ
        BY <2>5 DEF HalReset, HalTask
      <3> QED  BY <2>2, <3>1
    <2>6. CASE HalCall \/ HalPut \/ \E i \in Slots : HalDequeue(i)
      BY <2>2, <2>6 DEF HalCall, HalPut, HalDequeue
    <2>7. CASE HalEnd
      <3>1. ~hal'.eos
        BY <2>7 DEF HalEnd, NoHal, HalTask
      <3>2. CASE hal.kind \in {"info", "eos"}
        <4>1. procQ # << >> /\ procQ' = Tail(procQ)
          BY <1>0, <2>7, <3>2 DEF HalEnd, HalRests
        <4>2. \A k \in DOMAIN procQ' : k + 1 \in DOMAIN procQ /\ procQ'[k] = procQ[k + 1]
          BY <1>0, <4>1, QueueLess
        <4> QED  BY <2>2, <3>1, <4>2
      <3>3. CASE hal.kind \notin {"info", "eos"}
        BY <2>2, <2>7, <3>1, <3>3 DEF HalEnd
      <3> QED  BY <3>2, <3>3
    <2> QED  BY <1>2, <2>3, <2>4, <2>5, <2>6, <2>7 DEF HalNext
  <1>3. CASE ParserNext
    <2>1. UNCHANGED hal
      BY <1>3, ParserKeeps
    <2>2. ASSUME ~Ends, UNCHANGED procQ PROVE EndsParsing'
      BY <2>1, <2>2 DEF EndsParsing
    <2>3. ~gotEos \/ task.parsed \/ ppc \notin {"top", "waithal"} => ~Ends
      BY <1>0 DEF EndsParsing
    <2>4. ASSUME NEW t \in HalJobs, procQ' = Append(procQ, t), ~Ends, t.eos => Rests'
          PROVE  EndsParsing'
      <3>1. \A k \in DOMAIN procQ' : (k \in DOMAIN procQ /\ procQ'[k] = procQ[k]) \/ procQ'[k] = t
        BY <1>0, <2>4, QueueMore
      <3> QED  BY <2>1, <2>4, <3>1 DEF EndsParsing
    <2>5. ASSUME NEW type \in {"I", "P", "B"}, NEW size \in Infos, NEW eos \in BOOLEAN,
                 Parse(type, size, eos)
          PROVE  EndsParsing'
      BY <2>2, <2>3, <2>5 DEF Parse, PacketReady, halVars
    <2>6. ASSUME NEW eos \in BOOLEAN, ParseSkipped(eos) PROVE EndsParsing'
      <3>1. ~Ends /\ gotEos' = eos /\ ~task'.parsed /\ ppc' = "top"
        BY <2>3, <2>6 DEF ParseSkipped, TryProc, PacketReady
      <3>2. CASE eos
        BY <2>4, <2>6, <3>1, <3>2, ConstantTypes DEF ParseSkipped
      <3>3. CASE ~eos
        BY <2>2, <2>6, <3>1, <3>3 DEF ParseSkipped
      <3> QED  BY <3>2, <3>3
    <2>7. CASE SubmitEos
      <3>1. ~Ends /\ gotEos' /\ ~task'.parsed /\ ppc' = "top"
        BY <1>0, <2>3, <2>7 DEF SubmitEos, ParserRests
      <3> QED  BY <2>4, <2>7, <3>1, ConstantTypes DEF SubmitEos
    <2>8. CASE SendInfoChange
      <3> DEFINE t == HalTask("info", task.out, NoRefer, FALSE)
      <3>1. t \in HalJobs /\ ~t.eos
        BY <1>0 DEF DecTasks, HalTask, HalJobs, NoRefer, Entries
      <3>2. procQ' = Append(procQ, t) /\ ~Ends
        BY <2>3, <2>8 DEF SendInfoChange, Parsed
      <3> HIDE DEF t
      <3> QED  BY <2>4, <3>1, <3>2
    <2>9. CASE Submit
      <3> DEFINE t == HalTask("frame", task.out, task.refer, task.eos)
      <3>1. t \in HalJobs /\ t.eos = task.eos
        BY <1>0 DEF DecTasks, HalTask, HalJobs, Entries
      <3>2. procQ' = Append(procQ, t) /\ ~Ends
        BY <1>0, <2>3, <2>9 DEF Submit, ParserRests
      <3>3. task.eos => Rests'
        BY <1>0, <2>9 DEF Submit, ParserRests, NoTask
      <3> HIDE DEF t, Rests
      <3> QED  BY <2>4, <3>1, <3>2, <3>3
    <2>10. CASE PrevDone \/ PrepareEos
      BY <2>2, <2>3, <2>10 DEF PrevDone, PrepareEos, PacketReady, halVars
    <2>11. CASE WaitInfoChange \/ NoBuffer \/ \E b \in Buffers : GetBuffer(b)
      BY <2>2, <2>3, <2>11 DEF WaitInfoChange, NoBuffer, GetBuffer, Parsed, halVars
    <2>12. CASE ProcControl \/ ResetPost
      BY <1>0, <2>1, <2>12 DEF ProcControl, ResetPost, EndsParsing, parserVars, halVars
    <2>13. CASE ResetParser
      <3>1. procQ = << >> /\ hal = NoHal /\ UNCHANGED procQ
        BY <1>0, <2>13 DEF ResetParser, ResetSteps, HalAtRest, HalRests, halVars
      <3> QED  BY <2>2, <3>1 DEF NoHal, HalTask
    <2>14. CASE ResetDone \/ \E i \in Slots : ResetDrain(i)
      BY <2>2, <2>3, <2>14 DEF ResetDone, ResetDrain, halVars
    <2>15. CASE ParserCall
      BY <1>0, <2>2, <2>3, <2>15 DEF ParserCall, ParserRests, halVars
    <2> QED  BY <1>3, <2>5, <2>6, <2>7, <2>8, <2>9, <2>10, <2>11, <2>12, <2>13, <2>14, <2>15
             DEF ParserNext
  <1> QED  BY <1>1, <1>2, <1>3 DEF Next

\* The calls on the slots take no geometry change back.
LEMMA CallInfo ==
    ASSUME SlotTypes, NEW c \in SlotCalls, Call(c)
    PROVE  /\ infoChanged => infoChanged'
           /\ UNCHANGED info
  <1>1. CASE c[1] = "set" /\ c[3] \in Flags /\ SetFlag(c[2], c[3])
    BY <1>1 DEF SetFlag
  <1>2. CASE c[1] = "clr" /\ c[3] \in Flags /\ ClrFlag(c[2], c[3])
    BY <1>2 DEF ClrFlag
  <1>3. CASE c[1] = "enqueue" /\ Enqueue(c[2], "DISPLAY")
    BY <1>3 DEF Enqueue
  <1>4. CASE c[1] = "frame" /\ c[3] \in Infos /\ SetFrame(c[2], c[3])
    BY <1>4 DEF SetFrame
  <1>5. CASE c[1] = "reset" /\ SlotReset(c[2])
    BY <1>5 DEF SlotReset
  <1>6. CASE c[1] = "put" /\ PutBuffer(c[2])
    BY <1>6 DEF PutBuffer
  <1> QED  BY CallEffect, <1>1, <1>2, <1>3, <1>4, <1>5, <1>6

\* No task about a geometry change is added, and no other frame tells of it.
LEMMA InfoTasksSame ==
    ASSUME SlotInv, \A k \in DOMAIN procQ' : \/ k \in DOMAIN procQ /\ procQ'[k] = procQ[k]
                                             \/ procQ'[k].kind # "info"
    PROVE  OneInfoTask' /\ (HasTask("info")' => HasTask("info"))
  BY DEF OneInfoTask, HasTask, SlotInv, Control, InfoOnce

\* The hal thread announces one geometry change at a time.
LEMMA InfoOnceHal == ASSUME SlotInv, HalNext PROVE InfoOnce'
  <1>0. /\ OneInfoTask /\ OneInfoFrame /\ InfoTaskRests /\ InfoFrameRests /\ ParserRests /\ HalRests
        /\ procQ \in Seq(HalJobs) /\ frames \in Seq(OutFrames)
        /\ SlotTypes /\ htodo \in Seq(SlotCalls)
    BY DEF InfoOnce, SlotInv, Control, Types, ParserTypes, HalTypes, OtherTypes
  <1>1. UNCHANGED <<ppc, task, flushDue, readyCmd>>
    BY HalKeeps
  <1>2. ASSUME OneInfoTask', HasTask("info")' => HasTask("info"), UNCHANGED frames,
               infoChanged => infoChanged'
        PROVE  InfoOnce'
    <2>1. (InfoShown' <=> InfoShown) /\ OneInfoFrame'
      BY <1>0, <1>2 DEF InfoShown, OneInfoFrame
    <2>2. ChangeAwaited => ChangeAwaited'
      BY <1>1, <1>2 DEF ChangeAwaited
    <2>3. InfoTaskRests' /\ InfoFrameRests'
      BY <1>0, <1>1, <1>2, <2>1, <2>2 DEF InfoTaskRests, InfoFrameRests
    <2> QED  BY <1>2, <2>1, <2>3 DEF InfoOnce
  <1>3. ASSUME procQ # << >>, procQ' = Tail(procQ)
        PROVE  OneInfoTask' /\ (HasTask("info")' => HasTask("info"))
               /\ (procQ[1].kind = "info" => ~HasTask("info")')
    <2>1. /\ \A k \in DOMAIN procQ' : k + 1 \in DOMAIN procQ /\ procQ'[k] = procQ[k + 1] /\ k \in Nat
                                      /\ k > 0
          /\ 1 \in DOMAIN procQ
      BY <1>0, <1>3, QueueLess
    <2>2. ASSUME NEW j \in DOMAIN procQ', NEW k \in DOMAIN procQ', procQ'[j].kind = "info",
                 procQ'[k].kind = "info"
          PROVE  j = k
      <3>1. j + 1 = k + 1
        BY <1>0, <2>1, <2>2 DEF OneInfoTask
      <3> QED  BY <2>1, <3>1
    <2>3. procQ[1].kind = "info" => ~HasTask("info")'
      <3> SUFFICES ASSUME procQ[1].kind = "info", NEW k \in DOMAIN procQ', procQ'[k].kind = "info"
                   PROVE  FALSE
        BY DEF HasTask
      <3>1. k + 1 = 1
        BY <1>0, <2>1 DEF OneInfoTask
      <3> QED  BY <2>1, <3>1
    <2>4. HasTask("info")' => HasTask("info")
      BY <2>1 DEF HasTask
    <2>5. OneInfoTask'
      BY <2>2 DEF OneInfoTask
    <2> QED  BY <2>3, <2>4, <2>5
  <1>4. UNCHANGED procQ => OneInfoTask' /\ (HasTask("info")' => HasTask("info"))
    BY <1>0 DEF OneInfoTask, HasTask
  <1>5. ASSUME NEW f \in OutFrames, frames' = Append(frames, f)
        PROVE  \A k \in DOMAIN frames' : \/ k \in DOMAIN frames /\ frames'[k] = frames[k]
                                         \/ k = Len(frames) + 1 /\ k \notin DOMAIN frames
                                            /\ frames'[k] = f
    BY <1>0, <1>5
  <1>6. CASE HalTake \/ HalReset
    BY <1>2, <1>4, <1>6 DEF HalTake, HalReset, slotVars, outVars
  <1>7. CASE HwDone
    <2>1. procQ # << >> /\ procQ' = Tail(procQ) /\ UNCHANGED <<frames, infoChanged>>
      BY <1>0, <1>7 DEF HwDone, HalRests, slotVars, outVars
    <2> QED  BY <1>2, <1>3, <2>1
  <1>8. CASE HalCall
    <2>1. UNCHANGED <<procQ, frames>> /\ htodo # << >> /\ Call(Head(htodo))
      BY <1>8 DEF HalCall, outVars
    <2>2. infoChanged => infoChanged'
      BY <1>0, <2>1, Advanced, CallInfo
    <2> QED  BY <1>2, <1>4, <2>1, <2>2
  <1>9. ASSUME NEW i \in Slots, HalDequeue(i) PROVE InfoOnce'
    <2>1. UNCHANGED <<procQ, frames, infoChanged>>
      BY <1>9 DEF HalDequeue, Dequeue, outVars
    <2> QED  BY <1>2, <1>4, <2>1
  <1>10. ASSUME NEW f \in OutFrames, f # InfoFrame, frames' = Append(frames, f),
                OneInfoTask', HasTask("info")' => HasTask("info"), UNCHANGED infoChanged
         PROVE  InfoOnce'
    <2>1. InfoShown' => InfoShown
      BY <1>5, <1>10 DEF InfoShown
    <2>2. OneInfoFrame'
      BY <1>0, <1>5, <1>10 DEF OneInfoFrame
    <2>3. ChangeAwaited => ChangeAwaited'
      BY <1>1, <1>10 DEF ChangeAwaited
    <2>4. InfoTaskRests' /\ InfoFrameRests'
      BY <1>0, <1>1, <1>10, <2>1, <2>3 DEF InfoTaskRests, InfoFrameRests
    <2> QED  BY <1>10, <2>2, <2>4 DEF InfoOnce
  <1>11. CASE HalPut
    <2> DEFINE f == Frame(pic[hcur], slot[hcur].frameBuf, LastOfEos)
    <2>1. frames' = Append(frames, f) /\ UNCHANGED <<procQ, infoChanged>>
      BY <1>11 DEF HalPut, slotVars
    <2>2. f \in OutFrames /\ f.pic \in Nat
      <3>1. hcur \in Slots
        BY <1>0, <1>11 DEF HalPut, HalRests, SlotInv, Types, HalTypes, Entries
      <3>2. LastOfEos \in BOOLEAN
        BY DEF LastOfEos, SlotInv, Types, HalTypes, HalJobs
      <3>3. pic[hcur] \in Nat /\ slot[hcur].frameBuf \in Buffers \cup {NoBuf}
        BY <3>1 DEF SlotInv, Types, OtherTypes, SlotTypes, SlotEntry
      <3> QED  BY <3>2, <3>3 DEF Frame, OutFrames
    <2>3. f # InfoFrame
      <3>1. InfoFrame.pic = -1
        BY DEF InfoFrame, Frame
      <3> HIDE DEF f
      <3> QED  BY <2>2, <3>1
    <2> HIDE DEF f
    <2> QED  BY <1>4, <1>10, <2>1, <2>2, <2>3
  <1>12. CASE HalEnd
    <2>1. UNCHANGED infoChanged
      BY <1>12 DEF HalEnd, slotVars
    <2>2. CASE hal.kind = "info"
      <3>1. /\ procQ # << >> /\ procQ' = Tail(procQ) /\ procQ[1].kind = "info"
            /\ frames' = Append(frames, InfoFrame) /\ 1 \in DOMAIN procQ
        BY <1>0, <1>12, <2>2 DEF HalEnd, HalRests
      <3>2. OneInfoTask' /\ ~HasTask("info")' /\ HasTask("info")
        BY <1>3, <3>1 DEF HasTask
      <3>3. ChangeAwaited /\ ~readyCmd /\ ~InfoShown
        BY <1>0, <3>2 DEF InfoTaskRests
      <3>4. ChangeAwaited' /\ ~readyCmd'
        BY <1>1, <2>1, <3>3 DEF ChangeAwaited
      <3>5. OneInfoFrame'
        <4>1. \A k \in DOMAIN frames : frames[k] # InfoFrame
          BY <3>3 DEF InfoShown
        <4> QED  BY <1>5, <3>1, <4>1, ConstantTypes DEF OneInfoFrame
      <3>6. InfoTaskRests' /\ InfoFrameRests'
        BY <3>2, <3>4 DEF InfoTaskRests, InfoFrameRests, ChangeAwaited
      <3> QED  BY <3>2, <3>5, <3>6 DEF InfoOnce
    <2>3. CASE hal.kind = "eos"
      <3>1. procQ # << >> /\ procQ' = Tail(procQ) /\ frames' = Append(frames, EosFrame)
        BY <1>0, <1>12, <2>3 DEF HalEnd, HalRests
      <3>2. EosFrame # InfoFrame
        BY DEF EosFrame, InfoFrame, Frame
      <3> QED  BY <1>3, <1>10, <2>1, <3>1, <3>2, ConstantTypes
    <2>4. CASE hal.kind \notin {"info", "eos"}
      <3>1. UNCHANGED <<procQ, frames>>
        BY <1>12, <2>4 DEF HalEnd
      <3> QED  BY <1>2, <1>4, <2>1, <3>1
    <2> QED  BY <2>2, <2>3, <2>4
  <1> QED  BY <1>6, <1>7, <1>8, <1>9, <1>11, <1>12 DEF HalNext

\* The user answers one geometry change at a time.
LEMMA InfoOnceUser == ASSUME SlotInv, UserNext PROVE InfoOnce'
  <1>0. /\ OneInfoTask /\ OneInfoFrame /\ InfoTaskRests /\ InfoFrameRests
        /\ frames \in Seq(OutFrames) /\ AfterReset
    BY DEF InfoOnce, SlotInv, Control, Types, OtherTypes
  <1>1. UNCHANGED <<ppc, task, procQ, infoChanged>>
    BY UserKeeps DEF parserVars, halVars
  <1>2. OneInfoTask' /\ (HasTask("info")' <=> HasTask("info")) /\ (ChangeAwaited' <=> ChangeAwaited)
    BY <1>0, <1>1 DEF OneInfoTask, HasTask, ChangeAwaited
  <1>3. CASE TakeFrame
    <2>1. /\ frames # << >> /\ frames' = Tail(frames) /\ flushDue' = flushDue
          /\ readyCmd' = (readyCmd \/ Head(frames) = InfoFrame)
      BY <1>3 DEF TakeFrame
    <2>2. /\ \A k \in DOMAIN frames' : k + 1 \in DOMAIN frames /\ frames'[k] = frames[k + 1]
                                       /\ k \in Nat /\ k > 0
          /\ 1 \in DOMAIN frames /\ Head(frames) = frames[1]
      <3>1. /\ \A k \in 1 .. Len(frames) - 1 : frames'[k] = frames[k + 1]
            /\ DOMAIN frames = 1 .. Len(frames) /\ DOMAIN frames' = 1 .. Len(frames) - 1
            /\ Head(frames) = frames[1] /\ Len(frames) \in Nat /\ Len(frames) > 0
        BY <1>0, <2>1, Advanced
      <3> QED  BY <3>1
    <2>3. InfoShown' => InfoShown
      BY <2>2 DEF InfoShown
    <2>4. Head(frames) = InfoFrame => InfoShown /\ ~InfoShown'
      <3>1. ASSUME Head(frames) = InfoFrame, NEW k \in DOMAIN frames', frames'[k] = InfoFrame
            PROVE  FALSE
        <4>1. k + 1 = 1
          BY <1>0, <2>2, <3>1 DEF OneInfoFrame
        <4> QED  BY <2>2, <4>1
      <3> QED  BY <2>2, <3>1 DEF InfoShown
    <2>5. OneInfoFrame'
      <3> SUFFICES ASSUME NEW j \in DOMAIN frames', NEW k \in DOMAIN frames',
                          frames'[j] = InfoFrame, frames'[k] = InfoFrame
                   PROVE  j = k
        BY DEF OneInfoFrame, InfoFrame
      <3>1. j + 1 = k + 1
        BY <1>0, <2>2 DEF OneInfoFrame
      <3> QED  BY <2>2, <3>1
    <2>6. InfoTaskRests' /\ InfoFrameRests'
      BY <1>0, <1>1, <1>2, <2>1, <2>3, <2>4 DEF InfoTaskRests, InfoFrameRests
    <2> QED  BY <1>2, <2>5, <2>6 DEF InfoOnce
  <1>4. CASE UserFlush
    <2>1. frames' = << >> /\ UNCHANGED readyCmd
      BY <1>4 DEF UserFlush
    <2>2. OneInfoFrame' /\ ~InfoShown'
      BY <2>1 DEF OneInfoFrame, InfoShown
    <2>3. InfoTaskRests' /\ InfoFrameRests'
      BY <1>0, <1>1, <1>2, <2>1, <2>2 DEF InfoTaskRests, InfoFrameRests
    <2> QED  BY <1>2, <2>2, <2>3 DEF InfoOnce
  <1>5. CASE UserReset \/ \E b \in Buffers : ReleaseFrame(b)
    <2>1. UNCHANGED <<frames, readyCmd>> /\ (flushDue => flushDue')
      BY <1>5 DEF UserReset, ReleaseFrame, outVars, ctrlVars
    <2>2. OneInfoFrame' /\ (InfoShown' <=> InfoShown)
      BY <1>0, <2>1 DEF OneInfoFrame, InfoShown
    <2>3. InfoTaskRests' /\ InfoFrameRests'
      BY <1>0, <1>1, <1>2, <2>1, <2>2 DEF InfoTaskRests, InfoFrameRests
    <2> QED  BY <1>2, <2>2, <2>3 DEF InfoOnce
  <1> QED  BY <1>3, <1>4, <1>5 DEF UserNext

\* The parser thread sends one geometry change at a time, and waits for it.
LEMMA InfoOnceParser == ASSUME SlotInv, ParserNext PROVE InfoOnce'
  <1>0. /\ OneInfoTask /\ OneInfoFrame /\ InfoTaskRests /\ InfoFrameRests /\ ParserRests
        /\ ResetSteps /\ AfterReset /\ procQ \in Seq(HalJobs) /\ task \in DecTasks
        /\ SlotTypes /\ ptodo \in Seq(SlotCalls)
    BY DEF InfoOnce, SlotInv, Control, Types, ParserTypes, HalTypes
  <1>1. OneInfoFrame' /\ (InfoShown' <=> InfoShown)
    BY <1>0, ParserKeeps DEF OneInfoFrame, InfoShown
  <1>2. UNCHANGED procQ => OneInfoTask' /\ (HasTask("info")' <=> HasTask("info"))
    BY <1>0 DEF OneInfoTask, HasTask
  <1>3. ASSUME NEW t \in HalJobs, procQ' = Append(procQ, t), t.kind # "info"
        PROVE  OneInfoTask' /\ (HasTask("info")' => HasTask("info"))
    <2>1. \A k \in DOMAIN procQ' : (k \in DOMAIN procQ /\ procQ'[k] = procQ[k]) \/ procQ'[k] = t
      BY <1>0, <1>3, QueueMore
    <2> QED  BY <1>3, <2>1, InfoTasksSame
  \* Nothing is awaited by the parser's task before or after the step.
  <1>4. ASSUME OneInfoTask', HasTask("info")' => HasTask("info"), UNCHANGED <<readyCmd, flushDue>>,
               ~ChangeAwaited, task.parsed \/ ~InfoShown \/ (flushDue /\ ~task'.parsed),
               readyCmd => task.parsed \/ ~task'.parsed
        PROVE  InfoOnce'
    <2>1. ~HasTask("info")
      BY <1>0, <1>4 DEF InfoTaskRests
    <2>2. task.parsed => ~InfoShown /\ ~readyCmd
      BY <1>0, <1>4 DEF InfoFrameRests
    <2>3. InfoTaskRests' /\ InfoFrameRests'
      BY <1>0, <1>1, <1>4, <2>1, <2>2 DEF InfoTaskRests, InfoFrameRests
    <2> QED  BY <1>1, <1>4, <2>3 DEF InfoOnce
  \* The parser's task keeps waiting.
  <1>5. ASSUME UNCHANGED <<procQ, readyCmd, flushDue>>, task'.parsed = task.parsed,
               task'.infoGen = task.infoGen, infoChanged => infoChanged',
               HasTask("info") => ppc' \in {"top", "waithal"}
        PROVE  InfoOnce'
    <2>1. ChangeAwaited => ChangeAwaited'
      BY <1>5 DEF ChangeAwaited
    <2>2. InfoTaskRests' /\ InfoFrameRests'
      BY <1>0, <1>1, <1>2, <1>5, <2>1 DEF InfoTaskRests, InfoFrameRests
    <2> QED  BY <1>1, <1>2, <1>5, <2>2 DEF InfoOnce
  <1>6. ASSUME NEW type \in {"I", "P", "B"}, NEW size \in Infos, NEW eos \in BOOLEAN,
               Parse(type, size, eos)
        PROVE  InfoOnce'
    <2>1. ~task.parsed /\ ~flushDue /\ ~readyCmd /\ UNCHANGED <<procQ, readyCmd, flushDue>>
      BY <1>6 DEF Parse, TryProc, PacketReady, halVars, ctrlVars
    <2>2. ~InfoShown /\ ~ChangeAwaited
      BY <1>0, <2>1 DEF InfoFrameRests, ChangeAwaited
    <2> QED  BY <1>2, <1>4, <2>1, <2>2
  <1>7. ASSUME NEW eos \in BOOLEAN, ParseSkipped(eos) PROVE InfoOnce'
    <2>1. ~task.parsed /\ ~flushDue /\ ~readyCmd /\ UNCHANGED <<readyCmd, flushDue>>
      BY <1>7 DEF ParseSkipped, TryProc, PacketReady, ctrlVars
    <2>2. ~InfoShown /\ ~ChangeAwaited
      BY <1>0, <2>1 DEF InfoFrameRests, ChangeAwaited
    <2>3. OneInfoTask' /\ (HasTask("info")' => HasTask("info"))
      <3>1. CASE eos
        <4> DEFINE t == HalTask("eos", NoSlot, NoRefer, TRUE)
        <4>1. procQ' = Append(procQ, t) /\ t \in HalJobs /\ t.kind # "info"
          BY <1>7, <3>1, ConstantTypes DEF ParseSkipped, HalTask
        <4> HIDE DEF t
        <4> QED  BY <1>3, <4>1
      <3>2. CASE ~eos
        BY <1>2, <1>7, <3>2 DEF ParseSkipped
      <3> QED  BY <3>1, <3>2
    <2> QED  BY <1>4, <2>1, <2>2, <2>3
  <1>8. CASE PrepareEos \/ PrevDone
    <2>1. /\ UNCHANGED <<procQ, readyCmd, flushDue, infoChanged>> /\ ~task.parsed /\ ~flushDue
          /\ ~readyCmd
      BY <1>8 DEF PrepareEos, PrevDone, TryProc, PacketReady, halVars, ctrlVars, slotVars
    <2>2. ~InfoShown /\ ~ChangeAwaited
      BY <1>0, <2>1 DEF InfoFrameRests, ChangeAwaited
    <2> QED  BY <1>2, <1>4, <2>1, <2>2
  <1>9. CASE SubmitEos
    <2> DEFINE t == HalTask("eos", NoSlot, NoRefer, TRUE)
    <2>1. procQ' = Append(procQ, t) /\ t \in HalJobs /\ t.kind # "info"
      BY <1>9, ConstantTypes DEF SubmitEos, HalTask
    <2>2. UNCHANGED <<task, readyCmd, flushDue>> /\ ~task.parsed
      BY <1>0, <1>9 DEF SubmitEos, ParserRests, ctrlVars
    <2>3. ~ChangeAwaited /\ (InfoShown => flushDue)
      BY <1>0, <2>2 DEF ChangeAwaited, InfoFrameRests
    <2> HIDE DEF t
    <2> QED  BY <1>3, <1>4, <2>1, <2>2, <2>3
  <1>10. CASE SendInfoChange
    <2> DEFINE t == HalTask("info", task.out, NoRefer, FALSE)
    <2>1. t \in HalJobs /\ t.kind = "info"
      BY <1>0 DEF DecTasks, HalTask, HalJobs, NoRefer, Entries
    <2>2. /\ procQ' = Append(procQ, t) /\ task.parsed /\ infoChanged /\ ~task.infoGen /\ ppc' = "top"
          /\ UNCHANGED <<readyCmd, flushDue, infoChanged>> /\ task' = [task EXCEPT !.infoGen = TRUE]
      BY <1>10 DEF SendInfoChange, Parsed, ctrlVars, slotVars
    <2>3. ~HasTask("info") /\ ~InfoShown /\ ~readyCmd
      BY <1>0, <2>2 DEF InfoTaskRests, InfoFrameRests, ChangeAwaited
    <2>4. task'.parsed /\ task'.infoGen
      BY <1>0, <2>2 DEF DecTasks
    <2> HIDE DEF t
    <2>5. OneInfoTask'
      <3>1. \A k \in DOMAIN procQ' : \/ k \in DOMAIN procQ /\ procQ'[k] = procQ[k]
                                     \/ k = Len(procQ) + 1
        BY <1>0, <2>1, <2>2, QueueMore
      <3> QED  BY <2>3, <3>1 DEF OneInfoTask, HasTask
    <2>6. InfoTaskRests' /\ InfoFrameRests'
      BY <1>1, <2>2, <2>3, <2>4 DEF InfoTaskRests, InfoFrameRests, ChangeAwaited
    <2> QED  BY <1>1, <2>5, <2>6 DEF InfoOnce
  <1>11. CASE WaitInfoChange
    <2>1. /\ UNCHANGED <<procQ, readyCmd, flushDue, infoChanged>> /\ ppc' = "top"
          /\ task' = [task EXCEPT !.waitInfo = TRUE]
      BY <1>11 DEF WaitInfoChange, halVars, ctrlVars, slotVars
    <2>2. task'.parsed = task.parsed /\ task'.infoGen = task.infoGen
      BY <1>0, <2>1 DEF DecTasks
    <2> QED  BY <1>5, <2>1, <2>2
  <1>12. CASE NoBuffer \/ \E b \in Buffers : GetBuffer(b)
    <2>1. UNCHANGED <<procQ, readyCmd, flushDue>> /\ task.parsed /\ ~infoChanged
      BY <1>12 DEF NoBuffer, GetBuffer, Parsed, halVars, ctrlVars
    <2>2. ~ChangeAwaited
      BY <2>1 DEF ChangeAwaited
    <2> QED  BY <1>2, <1>4, <2>1, <2>2
  <1>13. CASE Submit
    <2> DEFINE t == HalTask("frame", task.out, task.refer, task.eos)
    <2>1. t \in HalJobs /\ t.kind # "info"
      BY <1>0 DEF DecTasks, HalTask, HalJobs, Entries
    <2>2. procQ' = Append(procQ, t) /\ UNCHANGED <<readyCmd, flushDue>> /\ ppc = "submit"
      BY <1>13 DEF Submit, ctrlVars
    <2>3. ~ChangeAwaited /\ task.parsed
      BY <1>0, <2>2 DEF ParserRests, ChangeAwaited
    <2> HIDE DEF t
    <2> QED  BY <1>3, <1>4, <2>1, <2>2, <2>3
  <1>14. CASE ProcControl
    <2>1. readyCmd /\ ~readyCmd' /\ UNCHANGED <<task, procQ, flushDue>>
      BY <1>14 DEF ProcControl, parserVars, halVars
    <2>2. ~HasTask("info") /\ ~InfoShown
      BY <1>0, <2>1 DEF InfoTaskRests, InfoFrameRests
    <2>3. InfoTaskRests' /\ InfoFrameRests'
      BY <1>1, <1>2, <2>1, <2>2 DEF InfoTaskRests, InfoFrameRests
    <2> QED  BY <1>1, <1>2, <2>1, <2>3 DEF InfoOnce
  <1>15. CASE ResetPost
    <2>1. UNCHANGED <<task, procQ, readyCmd, flushDue, infoChanged>> /\ ppc' = "waithal"
      BY <1>15 DEF ResetPost, halVars, slotVars
    <2> QED  BY <1>5, <2>1
  <1>16. CASE ResetParser \/ \E i \in Slots : ResetDrain(i)
    <2>1. UNCHANGED <<task, procQ, readyCmd, flushDue, infoChanged>>
      BY <1>16 DEF ResetParser, ResetDrain, Dequeue, halVars, slotVars, ctrlVars
    <2>2. ~HasTask("info")
      <3>1. procQ = << >>
        BY <1>0, <1>16 DEF ResetParser, ResetDrain, ResetSteps, HalAtRest
      <3> QED  BY <3>1 DEF HasTask
    <2> QED  BY <1>5, <2>1, <2>2
  <1>17. CASE ResetDone
    <2>1. UNCHANGED <<procQ, readyCmd, flushDue>> /\ task' = NoTask /\ ppc = "drain"
      BY <1>17 DEF ResetDone, halVars
    <2>2. ~HasTask("info") /\ flushDue
      BY <1>0, <2>1 DEF ResetSteps, HalAtRest, HasTask
    <2>3. InfoTaskRests' /\ InfoFrameRests'
      BY <1>0, <1>1, <1>2, <2>1, <2>2 DEF InfoTaskRests, InfoFrameRests, NoTask
    <2> QED  BY <1>1, <1>2, <2>1, <2>3 DEF InfoOnce
  <1>18. CASE ParserCall
    <2>1. /\ UNCHANGED <<task, procQ, readyCmd, flushDue, ppc>> /\ ptodo # << >>
          /\ Call(Head(ptodo))
      BY <1>18 DEF ParserCall, halVars, ctrlVars
    <2>2. infoChanged => infoChanged'
      BY <1>0, <2>1, Advanced, CallInfo
    <2>3. HasTask("info") => ppc \in {"top", "waithal"}
      BY <1>0 DEF InfoTaskRests
    <2> QED  BY <1>5, <2>1, <2>2, <2>3
  <1> QED  BY <1>6, <1>7, <1>8, <1>9, <1>10, <1>11, <1>12, <1>13, <1>14, <1>15, <1>16, <1>17, <1>18
           DEF ParserNext

\* Every step keeps the control of the threads.
LEMMA StepControl == ASSUME SlotInv, [Next]_vars, Types' PROVE Control'
  <1>1. CASE Next
    <2>1. InfoOnce'
      BY <1>1, InfoOnceHal, InfoOnceUser, InfoOnceParser DEF Next
    <2> QED  BY <1>1, <2>1, ParserRestsStep, HalRestsStep, ResetStepsStep, TasksLeftStep,
                EndsParsingStep DEF Control
  <1>2. CASE UNCHANGED vars
    <2>1. Control
      BY DEF SlotInv
    <2>2. UNCHANGED <<parserVars, halVars, ctrlVars, frames, infoChanged>>
      BY <1>2 DEF vars, outVars, slotVars
    <2>3. ParserRests' /\ HalRests' /\ TasksLeft' /\ EndsParsing'
      BY <2>1, <2>2 DEF Control, ParserRests, HalRests, TasksLeft, EndsParsing, parserVars, halVars,
         ctrlVars
    <2>4. ResetSteps' /\ AfterReset'
      BY <2>1, <2>2 DEF Control, ResetSteps, AfterReset, HalAtRest, Valid, parserVars, halVars,
         ctrlVars
    <2>5. InfoOnce'
      BY <2>1, <2>2 DEF Control, InfoOnce, OneInfoTask, OneInfoFrame, InfoTaskRests, InfoFrameRests,
         HasTask, InfoShown, ChangeAwaited, parserVars, halVars, ctrlVars
    <2> QED  BY <2>3, <2>4, <2>5 DEF Control
  <1> QED  BY <1>1, <1>2

-----------------------------------------------------------------------------
(* The todo lists *)

\* While the hal thread flushes the parser, the parser thread changes no reference.
LEMMA NotFlushing ==
    ASSUME SlotInv,
           \/ ppc \notin {"top", "waithal"}
           \/ ~task.parsed /\ ~gotEos /\ ppc = "top"
           \/ halReset = "done"
    PROVE  ~Flushing
  <1>0. InfoTaskRests /\ HalRests /\ ResetSteps /\ EndsParsing /\ procQ \in Seq(HalJobs)
    BY DEF SlotInv, Control, InfoOnce, Types, HalTypes
  <1>1. ASSUME hal.kind = "info" PROVE FALSE
    <2>1. procQ # << >> /\ procQ[1].kind = "info" /\ 1 \in DOMAIN procQ
      BY <1>0, <1>1 DEF HalRests
    <2>2. HasTask("info")
      BY <2>1 DEF HasTask
    <2> QED  BY <1>0, <2>1, <2>2 DEF InfoTaskRests, ChangeAwaited, ResetSteps, HalAtRest
  <1>2. ASSUME hal.kind = "reset" PROVE FALSE
    BY <1>0, <1>2 DEF HalRests, ResetSteps
  <1>3. ASSUME hal.eos PROVE FALSE
    <2>1. gotEos /\ ~task.parsed /\ ppc \in {"top", "waithal"}
      BY <1>0, <1>3 DEF EndsParsing
    <2>2. halReset = "done" => hal = NoHal
      BY <1>0 DEF ResetSteps, HalAtRest, HalRests
    <2> QED  BY <1>3, <2>1, <2>2 DEF NoHal, HalTask
  <1> QED  BY <1>1, <1>2, <1>3 DEF Flushing

\* Every step keeps the parser thread's todo list in order and to the right entries.
LEMMA ParserTodoStep == ASSUME SlotInv, Next PROVE InOrder(ptodo') /\ ParserCalls'
  <1>0. /\ InOrder(ptodo) /\ ParserCalls /\ ParserRests /\ ResetSteps /\ RefsDiffer
        /\ ptodo \in Seq(SlotCalls) /\ ref0 \in Refs /\ ref1 \in Refs /\ task \in DecTasks
    BY DEF SlotInv, Todo, OnTheWay, Control, Types, ParserTypes
  <1>1. ASSUME UNCHANGED <<ptodo, ppc, task, ref1>>, ref0'.slot = ref0.slot
        PROVE  InOrder(ptodo') /\ ParserCalls'
    BY <1>0, <1>1 DEF ParserCalls, IsRef
  <1>2. ASSUME ptodo' = << >> PROVE InOrder(ptodo') /\ ParserCalls'
    BY <1>2, NoCalls DEF ParserCalls
  <1>3. CASE UserNext
    BY <1>1, <1>3, UserKeeps DEF parserVars
  <1>4. CASE HalNext
    <2>1. UNCHANGED <<ptodo, ppc, task, ref1>>
      BY <1>4, HalKeeps
    <2>2. ref0' = ref0 \/ ref0' = Flushed(ref0)
      BY <1>4 DEF HalNext, HalTake, HwDone, HalReset, HalCall, HalDequeue, HalPut, HalEnd,
         parserVars
    <2> QED  BY <1>0, <1>1, <2>1, <2>2, FlushedTypes
  <1>5. ASSUME NEW type \in {"I", "P", "B"}, NEW size \in Infos, NEW eos \in BOOLEAN,
               Parse(type, size, eos)
        PROVE  InOrder(ptodo') /\ ParserCalls'
    <2>1. PICK i \in Slots : ParseAs(type, size, eos, i)
      BY <1>5 DEF Parse
    <2> DEFINE last == ParseLast(type, size, i)
    <2>2. ParseFacts(type, size, eos, i)
      BY <1>5, <2>1, ParseEffect
    <2>3. /\ InOrder(ptodo') /\ CallsIn(ptodo') = ParseSet(type, size, eos, i, last)
          /\ ppc' = "check" /\ task'.out = i /\ task'.refer[1] = ref0.slot
          /\ task'.refer[2] = ref1.slot
      BY <2>2 DEF ParseFacts, Lists
    <2>4. /\ ref0'.slot = last.slot /\ last.slot = (IF type = "B" THEN ref0.slot ELSE i)
          /\ ref1'.slot = (IF type = "B" THEN ref1.slot ELSE ref0.slot)
      <3>1. last \in Refs /\ ref0' = (IF eos THEN Flushed(last) ELSE last)
            /\ ref1' = (IF type = "B" THEN ref1 ELSE ref0)
        BY <2>2 DEF ParseFacts
      <3>2. ref0'.slot = last.slot
        BY <3>1, FlushedTypes
      <3> QED  BY <3>1, <3>2 DEF ParseLast
    <2>5. i # ref0.slot /\ i # ref1.slot
      BY <2>2 DEF ParseFacts, Needed, IsRef
    <2> HIDE DEF last
    <2>6. ASSUME NEW c \in ReferSet(ref0) \cup ReferSet(ref1)
          PROVE  c[1] = "set" /\ c[3] = "HAL_INPUT" /\ (c[2] = task'.refer[1] \/ c[2] = task'.refer[2])
      BY <2>3 DEF ReferSet
    <2>7. ASSUME NEW c \in UpdateSet(type, i)
          PROVE  \/ /\ c[1] = "enqueue" \/ (c[1] = "set" /\ c[3] = "QUEUE_USE")
                    /\ IsRef(c[2])' \/ c[2] = i
                 \/ c[1] = "set" /\ c[3] = "CODEC_USE" /\ c[2] = i /\ i = ref0'.slot
                 \/ c[1] = "clr" /\ c[3] = "CODEC_USE" /\ ~IsRef(c[2])'
      <3>1. CASE type = "B"
        BY <2>7, <3>1 DEF UpdateSet, ShowSet
      <3>2. CASE c \in FlushSet(ref0) /\ type # "B"
        BY <2>4, <3>2 DEF FlushSet, ShowSet, IsRef
      <3>3. CASE c = <<"set", i, "CODEC_USE">> /\ type # "B"
        BY <2>4, <3>3
      <3>4. CASE c \in UnrefSet(ref1) /\ type # "B"
        <4>1. c = <<"clr", ref1.slot, "CODEC_USE">> /\ Valid(ref1)
          BY <3>4 DEF UnrefSet
        <4>2. ref1.slot # ref0.slot
          BY <1>0, <4>1 DEF RefsDiffer, Valid
        <4>3. c[2] # i /\ c[2] # ref0.slot
          BY <2>5, <4>1, <4>2
        <4>4. ~IsRef(c[2])'
          BY <2>4, <3>4, <4>3 DEF IsRef
        <4> QED  BY <4>1, <4>4
      <3> QED  BY <2>7, <3>1, <3>2, <3>3, <3>4 DEF UpdateSet
    <2>8. ASSUME NEW c \in FlushSet(last)
          PROVE  /\ c[1] = "enqueue" \/ (c[1] = "set" /\ c[3] = "QUEUE_USE")
                 /\ IsRef(c[2])'
      BY <2>4, <2>8 DEF FlushSet, ShowSet, IsRef
    <2>9. ASSUME NEW c \in ParseSet(type, size, eos, i, last)
          PROVE  \/ c = <<"set", i, "HAL_OUTPUT">>
                 \/ c = <<"frame", i, size>>
                 \/ c \in ReferSet(ref0) \cup ReferSet(ref1)
                 \/ c \in UpdateSet(type, i)
                 \/ c \in FlushSet(last)
      BY <2>9 DEF ParseSet
    <2>10. ParserCalls'
      <3> SUFFICES ASSUME NEW c \in CallsIn(ptodo')
                   PROVE  /\ (c[1] = "set" /\ c[3] = "HAL_OUTPUT" => ppc' = "check" /\ c[2] = task'.out)
                          /\ (c[1] = "set" /\ c[3] = "CODEC_USE" =>
                                ppc' = "check" /\ c[2] = task'.out /\ c[2] = ref0'.slot)
                          /\ (c[1] = "set" /\ c[3] = "HAL_INPUT" =>
                                ppc' = "check" /\ (c[2] = task'.refer[1] \/ c[2] = task'.refer[2]))
                          /\ (c[1] = "frame" => ppc' = "check" /\ c[2] = task'.out)
                          /\ (c[1] = "enqueue" \/ (c[1] = "set" /\ c[3] = "QUEUE_USE") =>
                                IsRef(c[2])' \/ c[2] = task'.out)
                          /\ (c[1] = "clr" => c[3] = "CODEC_USE" /\ ~IsRef(c[2])')
                          /\ c[1] # "put" /\ c[1] # "reset"
        BY <2>3 DEF ParserCalls
      <3>1. CASE c = <<"set", i, "HAL_OUTPUT">> \/ c = <<"frame", i, size>>
        BY <2>3, <3>1
      <3>2. CASE c \in ReferSet(ref0) \cup ReferSet(ref1)
        BY <2>3, <2>6, <3>2
      <3>3. CASE c \in UpdateSet(type, i)
        BY <2>3, <2>7, <3>3
      <3>4. CASE c \in FlushSet(last)
        BY <2>3, <2>8, <3>4
      <3> QED  BY <2>3, <2>9, <3>1, <3>2, <3>3, <3>4
    <2> QED  BY <2>3, <2>10
  <1>6. CASE PrepareEos
    <2>1. Lists(ptodo', FlushSet(ref0)) /\ ppc' = "eos" /\ ref0' = Flushed(ref0)
      BY <1>0, <1>6, FlushLists DEF PrepareEos
    <2>2. ref0'.slot = ref0.slot
      BY <1>0, <2>1, FlushedTypes
    <2>3. ParserCalls'
      BY <2>1, <2>2 DEF ParserCalls, Lists, FlushSet, ShowSet, IsRef
    <2> QED  BY <2>1, <2>3 DEF Lists
  <1>7. CASE ResetParser
    <2>1. /\ ptodo' = ResetCalls /\ ref0' = NoRef /\ ref1' = NoRef /\ ppc' = "drain"
          /\ UNCHANGED task /\ ppc = "waithal" /\ halReset = "done"
      BY <1>7 DEF ResetParser
    <2>2. Lists(ptodo', ResetSet)
      <3>1. task.parsed => /\ task.out # NoSlot
                           /\ task.refer[1] # NoSlot => task.refer[1] # task.refer[2]
        BY <2>1, ParsedTask DEF SlotInv, Control, ParserRests
      <3>2. task.waitInfo => task.parsed
        BY <1>0 DEF ParserRests
      <3> QED  BY <1>0, <2>1, <3>1, <3>2, ResetLists
    <2>3. FlushSet(ref0) = {}
      BY <1>0, <2>1 DEF ResetSteps, FlushSet
    <2>4. \A i \in Slots : ~IsRef(i)'
      BY <2>1 DEF IsRef, NoRef, Slots, NoSlot
    <2>5. ASSUME NEW c \in ResetSet
          PROVE  \/ c[1] = "clr" /\ c[3] = "CODEC_USE" /\ ~IsRef(c[2])'
                 \/ c[1] = "clr" /\ c[3] # "CODEC_USE"
                 \/ /\ c[1] = "reset" /\ task.waitInfo /\ c[2] = task.out
                    /\ <<"clr", c[2], "HAL_OUTPUT">> \in ResetSet
      <3>1. CASE c \in UnrefSet(ref0) \cup UnrefSet(ref1)
        BY <1>0, <2>4, <3>1 DEF UnrefSet, Valid, Refs, Entries
      <3>2. CASE c \in DoneSet(task)
        BY <3>2 DEF DoneSet, ClrInSet
      <3>3. CASE c = <<"reset", task.out, 0>> /\ task.waitInfo
        <4>1. task.parsed
          BY <1>0, <3>3 DEF ParserRests
        <4>2. <<"clr", task.out, "HAL_OUTPUT">> \in ResetSet
          BY <4>1 DEF ResetSet, DoneSet
        <4> QED  BY <3>3, <4>2
      <3> QED  BY <2>3, <2>5, <3>1, <3>2, <3>3 DEF ResetSet
    <2>6. ParserCalls'
      BY <2>1, <2>2, <2>5 DEF ParserCalls, Lists
    <2> QED  BY <2>2, <2>6 DEF Lists
  <1>8. ASSUME NEW i \in Slots, ResetDrain(i) PROVE InOrder(ptodo') /\ ParserCalls'
    <2>1. Lists(ptodo', DrainSet(i)) /\ ppc' = "drain"
      BY <1>8, DrainLists DEF ResetDrain
    <2>2. ParserCalls'
      BY <2>1 DEF ParserCalls, Lists, DrainSet
    <2> QED  BY <2>1, <2>2 DEF Lists
  <1>9. CASE ParserCall
    <2>1. ptodo # << >> /\ ptodo' = Tail(ptodo) /\ UNCHANGED <<ppc, task, ref0, ref1>>
      BY <1>9 DEF ParserCall
    <2>2. /\ CallsIn(ptodo') = CallsIn(ptodo) \ {Head(ptodo)} /\ InOrder(ptodo')
          /\ \A c \in CallsIn(ptodo') : Before(Head(ptodo), c)
      BY <1>0, <2>1, CallsTail
    <2>3. ASSUME NEW c \in CallsIn(ptodo')
          PROVE  /\ c[1] = "put" => <<"clr", c[2], "QUEUE_USE">> \in CallsIn(ptodo')
                 /\ c[1] = "reset" => <<"clr", c[2], "HAL_OUTPUT">> \in CallsIn(ptodo')
      <3>1. CASE c[1] = "put"
        <4> DEFINE d == <<"clr", c[2], "QUEUE_USE">>
        <4>1. d \in CallsIn(ptodo) /\ d[1] = "clr"
          BY <1>0, <2>2, <3>1 DEF ParserCalls
        <4>2. d # Head(ptodo)
          BY <2>2, <3>1, <4>1 DEF Before
        <4> QED  BY <2>2, <3>1, <4>1, <4>2
      <3>2. CASE c[1] = "reset"
        <4> DEFINE d == <<"clr", c[2], "HAL_OUTPUT">>
        <4>1. d \in CallsIn(ptodo) /\ d[1] = "clr" /\ d[3] = "HAL_OUTPUT"
          BY <1>0, <2>2, <3>2 DEF ParserCalls
        <4>2. d # Head(ptodo)
          BY <2>2, <3>2, <4>1 DEF Before
        <4> QED  BY <2>2, <3>2, <4>1, <4>2
      <3> QED  BY <3>1, <3>2
    <2>4. ParserCalls'
      BY <1>0, <2>1, <2>2, <2>3 DEF ParserCalls, IsRef
    <2> QED  BY <2>2, <2>4
  <1>10. CASE \/ PrevDone \/ (\E eos \in BOOLEAN : ParseSkipped(eos)) \/ SubmitEos
              \/ SendInfoChange \/ WaitInfoChange \/ NoBuffer
              \/ (\E b \in Buffers : GetBuffer(b)) \/ ProcControl \/ ResetPost
    <2>1. ptodo = << >> /\ UNCHANGED ptodo
      BY <1>0, <1>10 DEF PrevDone, ParseSkipped, SubmitEos, SendInfoChange, WaitInfoChange,
         NoBuffer,
         GetBuffer, ProcControl, ResetPost, TryProc, Parsed, ParserRests, parserVars
    <2> QED  BY <1>2, <2>1
  <1>11. CASE Submit \/ ResetDone
    <2>1. ptodo = << >> /\ UNCHANGED ptodo
      BY <1>0, <1>11 DEF Submit, ResetDone, ParserRests
    <2> QED  BY <1>2, <2>1
  <1> QED  BY <1>3, <1>4, <1>5, <1>6, <1>7, <1>8, <1>9, <1>10, <1>11 DEF Next, ParserNext

\* A parser step leaves the last reference's slot alone, or the hal thread flushes nothing.
LEMMA RefSlotKept ==
    ASSUME SlotInv, ParserNext
    PROVE  ref0'.slot = ref0.slot \/ ~Flushing
  <1>0. ref0 \in Refs
    BY DEF SlotInv, Types, ParserTypes
  <1>1. ASSUME NEW type \in {"I", "P", "B"}, NEW size \in Infos, NEW eos \in BOOLEAN,
               Parse(type, size, eos)
        PROVE  ~Flushing
    BY <1>1, NotFlushing DEF Parse, TryProc, PacketReady
  <1>2. CASE PrepareEos
    BY <1>0, <1>2, FlushedTypes DEF PrepareEos
  <1>3. CASE ResetParser
    BY <1>3, NotFlushing DEF ResetParser
  <1>4. CASE \/ PrevDone \/ (\E eos \in BOOLEAN : ParseSkipped(eos)) \/ SubmitEos
             \/ SendInfoChange \/ WaitInfoChange \/ NoBuffer
             \/ (\E b \in Buffers : GetBuffer(b)) \/ ProcControl \/ ResetPost
             \/ Submit \/ ResetDone \/ (\E i \in Slots : ResetDrain(i)) \/ ParserCall
    BY <1>4 DEF PrevDone, ParseSkipped, SubmitEos, SendInfoChange, WaitInfoChange, NoBuffer,
       GetBuffer, ProcControl, ResetPost, Submit, ResetDone, ResetDrain, ParserCall, parserVars
  <1> QED  BY <1>1, <1>2, <1>3, <1>4 DEF ParserNext

\* Every step keeps the hal thread's todo list in order and to the right entries.
LEMMA HalTodoStep == ASSUME SlotInv, Next PROVE InOrder(htodo') /\ HalCalls'
  <1>0. /\ InOrder(htodo) /\ HalCalls /\ HalRests /\ procQ \in Seq(HalJobs)
        /\ htodo \in Seq(SlotCalls) /\ ref0 \in Refs /\ hal \in HalJobs /\ hcur \in Entries
    BY DEF SlotInv, Todo, Control, Types, ParserTypes, HalTypes
  <1>1. ASSUME htodo' = << >> PROVE InOrder(htodo') /\ HalCalls'
    BY <1>1, NoCalls DEF HalCalls
  <1>2. CASE UserNext
    BY <1>0, <1>2, UserKeeps DEF halVars, parserVars, HalCalls, Flushing
  <1>3. CASE ParserNext
    <2>1. UNCHANGED <<hpc, htodo, hal>> /\ (ref0'.slot = ref0.slot \/ ~Flushing)
      BY <1>3, ParserKeeps, RefSlotKept
    <2> QED  BY <1>0, <2>1 DEF HalCalls, Flushing
  <1>4. ASSUME Lists(htodo', FlushSet(ref0)), ref0' = Flushed(ref0), hpc' = "push", Flushing'
        PROVE  InOrder(htodo') /\ HalCalls'
    <2>1. ref0'.slot = ref0.slot
      BY <1>0, <1>4, FlushedTypes
    <2> QED  BY <1>4, <2>1 DEF Lists, HalCalls, FlushSet, ShowSet
  <1>5. CASE HalTake
    <2>1. CASE hal'.kind = "info"
      BY <1>0, <1>4, <1>5, <2>1, FlushLists DEF HalTake, Flushing
    <2>2. CASE hal'.kind # "info"
      BY <1>1, <1>5, <2>2 DEF HalTake
    <2> QED  BY <2>1, <2>2
  <1>6. CASE HwDone
    <2> DEFINE F == IF EndsStream(hal) THEN FlushSet(ref0) ELSE {}
    <2>1. /\ htodo' = HwDoneCalls(hal) \o If(EndsStream(hal), FlushCalls(ref0)) /\ hpc' = "push"
          /\ ref0' = (IF EndsStream(hal) THEN Flushed(ref0) ELSE ref0) /\ UNCHANGED hal
      BY <1>6 DEF HwDone
    <2>2. Lists(htodo', DoneSet(hal) \cup F)
      <3>1. EndsStream(hal) \in BOOLEAN
        BY <1>0 DEF EndsStream, HalJobs
      <3> QED  BY <1>0, <1>6, <2>1, <3>1, HwTask, FinishLists DEF HwDone
    <2>3. ref0'.slot = ref0.slot
      BY <1>0, <2>1, FlushedTypes
    <2>4. ASSUME NEW c \in DoneSet(hal) PROVE c[1] = "clr" /\ c[3] # "CODEC_USE"
      BY <2>4 DEF DoneSet, ClrInSet
    <2>5. ASSUME NEW c \in F
          PROVE  /\ c[1] = "enqueue" \/ (c[1] = "set" /\ c[3] = "QUEUE_USE")
                 /\ c[2] = ref0.slot /\ hal.eos
      BY <2>5 DEF FlushSet, ShowSet, EndsStream
    <2> HIDE DEF F
    <2>6. HalCalls'
      BY <2>1, <2>2, <2>3, <2>4, <2>5 DEF HalCalls, Lists, Flushing
    <2> QED  BY <2>2, <2>6 DEF Lists
  <1>7. CASE HalReset
    <2>1. hal'.kind = "reset"
      BY <1>7 DEF HalReset, HalTask
    <2> QED  BY <1>0, <1>4, <1>7, <2>1, FlushLists DEF HalReset, Flushing
  <1>8. CASE HalCall
    <2>1. htodo # << >> /\ htodo' = Tail(htodo) /\ UNCHANGED <<hpc, hal, ref0>>
      BY <1>8 DEF HalCall, parserVars
    <2>2. CallsIn(htodo') = CallsIn(htodo) \ {Head(htodo)} /\ InOrder(htodo')
      BY <1>0, <2>1, CallsTail
    <2> QED  BY <1>0, <2>1, <2>2 DEF HalCalls, Flushing
  <1>9. CASE HalEnd \/ \E i \in Slots : HalDequeue(i)
    BY <1>1, <1>9 DEF HalEnd, HalDequeue
  <1>10. CASE HalPut
    <2> DEFINE c == <<"clr", hcur, "QUEUE_USE">>
    <2>1. htodo' = << c >> /\ hpc' = "push" /\ hcur \in Slots
      BY <1>0, <1>10 DEF HalPut, HalRests, Entries
    <2>2. c \in SlotCalls
      BY <2>1 DEF SlotCalls, Flags
    <2>3. CallsIn(htodo') = {c} /\ InOrder(htodo')
      <3> HIDE DEF c
      <3> QED  BY <2>1, <2>2, OneCall
    <2> QED  BY <2>1, <2>3 DEF HalCalls
  <1> QED  BY <1>2, <1>3, <1>5, <1>6, <1>7, <1>8, <1>9, <1>10 DEF Next, HalNext

-----------------------------------------------------------------------------
(* The pictures on their way *)

\* The frame tasks among those of a queue.
Frames(q) == {q[k] : k \in {k \in DOMAIN q : q[k].kind = "frame"}}
FramesDiffer(q) ==
    \A j, k \in DOMAIN q : q[j].kind = "frame" /\ q[k].kind = "frame" /\ q[j].out = q[k].out => j = k

\* A task at the end of a queue joins its frame tasks, if it is one.
LEMMA FramesMore ==
    ASSUME NEW q \in Seq(HalJobs), NEW t \in HalJobs
    PROVE  Frames(Append(q, t)) = Frames(q) \cup (IF t.kind = "frame" THEN {t} ELSE {})
  <1> DEFINE p == Append(q, t)
  <1>1. /\ \A k \in DOMAIN q : k \in DOMAIN p /\ p[k] = q[k]
        /\ Len(q) + 1 \in DOMAIN p /\ p[Len(q) + 1] = t
        /\ \A k \in DOMAIN p : k \in DOMAIN q \/ k = Len(q) + 1
    BY Appended
  <1> HIDE DEF p
  <1>2. ASSUME NEW x \in Frames(p)
        PROVE  x \in Frames(q) \cup (IF t.kind = "frame" THEN {t} ELSE {})
    <2>1. PICK k \in DOMAIN p : p[k].kind = "frame" /\ x = p[k]
      BY <1>2 DEF Frames
    <2> QED  BY <1>1, <2>1 DEF Frames
  <1>3. ASSUME NEW x \in Frames(q) PROVE x \in Frames(p)
    <2>1. PICK k \in DOMAIN q : q[k].kind = "frame" /\ x = q[k]
      BY <1>3 DEF Frames
    <2> QED  BY <1>1, <2>1 DEF Frames
  <1>4. t.kind = "frame" => t \in Frames(p)
    BY <1>1 DEF Frames
  <1>5. Frames(p) = Frames(q) \cup (IF t.kind = "frame" THEN {t} ELSE {})
    BY <1>2, <1>3, <1>4
  <1> QED  BY <1>5 DEF p

\* The first task of a queue leaves its frame tasks, if it is one.
LEMMA FramesLess ==
    ASSUME NEW q \in Seq(HalJobs), q # << >>, FramesDiffer(q)
    PROVE  /\ Frames(Tail(q)) = (IF Head(q).kind = "frame" THEN Frames(q) \ {Head(q)} ELSE Frames(q))
           /\ FramesDiffer(Tail(q))
  <1> DEFINE p == Tail(q)
  <1>1. /\ Len(q) \in Nat /\ DOMAIN q = 1 .. Len(q) /\ DOMAIN p = 1 .. Len(q) - 1
        /\ \A k \in 1 .. Len(q) - 1 : p[k] = q[k + 1]
        /\ Head(q) = q[1] /\ Len(q) > 0
    BY Advanced
  <1> HIDE DEF p
  <1>2. ASSUME NEW k \in DOMAIN p PROVE k + 1 \in DOMAIN q /\ p[k] = q[k + 1] /\ k + 1 # 1
    BY <1>1
  <1>3. ASSUME NEW k \in DOMAIN q, k # 1 PROVE k - 1 \in DOMAIN p /\ p[k - 1] = q[k]
    BY <1>1, <1>3
  <1>4. ASSUME NEW x \in Frames(p)
        PROVE  x \in Frames(q) /\ (Head(q).kind = "frame" => x # Head(q))
    <2>1. PICK k \in DOMAIN p : p[k].kind = "frame" /\ x = p[k]
      BY <1>4 DEF Frames
    <2>2. k + 1 \in DOMAIN q /\ x = q[k + 1] /\ k + 1 # 1 /\ q[k + 1].kind = "frame"
      BY <1>2, <2>1
    <2>3. 1 \in DOMAIN q
      BY <1>1
    <2>4. Head(q).kind = "frame" => x # Head(q)
      BY <1>1, <2>2, <2>3 DEF FramesDiffer
    <2> QED  BY <2>2, <2>4 DEF Frames
  <1>5. ASSUME NEW x \in Frames(q), x # Head(q) \/ Head(q).kind # "frame" PROVE x \in Frames(p)
    <2>1. PICK k \in DOMAIN q : q[k].kind = "frame" /\ x = q[k]
      BY <1>5 DEF Frames
    <2>2. k # 1
      BY <1>1, <1>5, <2>1
    <2>3. k - 1 \in DOMAIN p /\ p[k - 1] = x /\ p[k - 1].kind = "frame"
      BY <1>3, <2>1, <2>2
    <2> QED  BY <2>3 DEF Frames
  <1>6. Frames(p) = (IF Head(q).kind = "frame" THEN Frames(q) \ {Head(q)} ELSE Frames(q))
    BY <1>4, <1>5
  <1>7. FramesDiffer(p)
    <2> SUFFICES ASSUME NEW j \in DOMAIN p, NEW k \in DOMAIN p, p[j].kind = "frame",
                        p[k].kind = "frame", p[j].out = p[k].out
                 PROVE  j = k
      BY DEF FramesDiffer
    <2>1. j + 1 = k + 1
      BY <1>2 DEF FramesDiffer
    <2> QED  BY <1>1, <2>1
  <1> QED  BY <1>6, <1>7 DEF p

\* There are no more frame tasks than tasks.
LEMMA FramesFew ==
    ASSUME NEW q \in Seq(HalJobs)
    PROVE  IsFiniteSet(Frames(q)) /\ Cardinality(Frames(q)) <= Len(q) /\ Len(q) \in Nat
  <1> DEFINE K == {k \in DOMAIN q : q[k].kind = "frame"}
  <1> DEFINE f == [k \in K |-> q[k]]
  <1>1. DOMAIN q = 1 .. Len(q) /\ Len(q) \in Nat
    OBVIOUS
  <1>2. IsFiniteSet(1 .. Len(q)) /\ Cardinality(1 .. Len(q)) = Len(q)
    BY <1>1, FS_Interval
  <1>3. IsFiniteSet(K) /\ Cardinality(K) <= Len(q)
    BY <1>1, <1>2, FS_Subset
  <1>4. f \in Surjection(K, Frames(q))
    BY DEF Surjection, Frames
  <1> HIDE DEF K, f
  <1>5. IsFiniteSet(Frames(q)) /\ Cardinality(Frames(q)) <= Cardinality(K)
    BY <1>3, <1>4, FS_Surjection
  <1> QED  BY <1>1, <1>3, <1>5, FS_CardinalityType

\* The tasks on their way are few: no more than the tasks there are.
LEMMA FewTasksStep == ASSUME Types' PROVE TasksFew'
  <1>0. procQ' \in Seq(HalJobs)
    BY DEF Types, HalTypes
  <1>1. Sent' = Frames(procQ')
    BY Zenon DEF Sent, Frames
  <1>2. IsFiniteSet(Sent') /\ Cardinality(Sent') <= Len(procQ') /\ Len(procQ') \in Nat
    BY <1>0, <1>1, FramesFew
  <1>3. CASE task'.parsed /\ ppc' # "drain"
    <2> DEFINE t == HalTask("frame", task'.out, task'.refer, task'.eos)
    <2>1. InFlight' = Sent' \cup {t}
      BY <1>3 DEF InFlight, Waiting
    <2> HIDE DEF t
    <2>2. /\ IsFiniteSet(Sent' \cup {t})
          /\ Cardinality(Sent' \cup {t}) = (IF t \in Sent' THEN Cardinality(Sent') ELSE Cardinality(Sent') + 1)
      BY <1>2, FS_AddElement
    <2>3. Cardinality(Sent') \in Nat
      BY <1>2, FS_CardinalityType
    <2> QED  BY <1>2, <1>3, <2>1, <2>2, <2>3 DEF TasksFew
  <1>4. CASE ~(task'.parsed /\ ppc' # "drain")
    <2>1. InFlight' = Sent'
      BY <1>4 DEF InFlight, Waiting
    <2> QED  BY <1>2, <1>4, <2>1 DEF TasksFew
  <1> QED  BY <1>3, <1>4

\* The picture that is parsed into entry i, as a task.
NewTask(eos, i) == HalTask("frame", i, <<ref0.slot, ref1.slot>>, eos)

\* A picture is on its way when it is parsed.
LEMMA FlightParse ==
    ASSUME SlotInv, NEW type \in {"I", "P", "B"}, NEW size \in Infos, NEW eos \in BOOLEAN,
           NEW i \in Slots, ParseFacts(type, size, eos, i)
    PROVE  /\ InFlight = Sent /\ Sent' = Sent
           /\ InFlight' = InFlight \cup {NewTask(eos, i)}
           /\ NewTask(eos, i).out = i /\ NewTask(eos, i).refer[1] = ref0.slot
           /\ NewTask(eos, i).refer[2] = ref1.slot
           /\ NewTask(eos, i).refer = <<ref0.slot, ref1.slot>>
  <1>1. /\ ~task.parsed /\ UNCHANGED procQ /\ ppc' = "check" /\ task'.parsed
        /\ task'.out = i /\ task'.refer = <<ref0.slot, ref1.slot>> /\ task'.eos = eos
    BY DEF ParseFacts, halVars
  <1>2. InFlight = Sent /\ Sent' = Sent
    BY <1>1 DEF InFlight, Waiting, Sent
  <1>3. Waiting' = {NewTask(eos, i)}
    BY <1>1 DEF Waiting, NewTask
  <1> QED  BY <1>2, <1>3 DEF InFlight, NewTask, HalTask

\* It stays on its way until the hardware has finished it.
LEMMA FlightDone ==
    ASSUME SlotInv, HwDone
    PROVE  /\ InFlight' = InFlight \ {hal} /\ Waiting' = Waiting
           /\ FramesDiffer(procQ)' /\ UNCHANGED task
  <1>0. /\ procQ \in Seq(HalJobs) /\ FramesDiffer(procQ) /\ hpc = "hw" /\ procQ' = Tail(procQ)
        /\ hal = Head(procQ) /\ procQ # << >> /\ hal.kind = "frame" /\ TasksDiffer
        /\ UNCHANGED <<ppc, task>>
    BY DEF SlotInv, Types, HalTypes, OnTheWay, TasksDiffer, FramesDiffer, HwDone, Control, HalRests
  <1>1. Frames(procQ') = Frames(procQ) \ {hal} /\ FramesDiffer(procQ')
    BY <1>0, FramesLess
  <1>2. Sent = Frames(procQ) /\ Sent' = Frames(procQ')
    BY Zenon DEF Sent, Frames
  <1>3. Waiting' = Waiting
    BY <1>0 DEF Waiting
  <1>4. hal \notin Waiting
    <2> SUFFICES ASSUME task.parsed, hal = HalTask("frame", task.out, task.refer, task.eos)
                 PROVE  FALSE
      BY DEF Waiting
    <2>1. hal.out = task.out /\ hal = procQ[1] /\ 1 \in DOMAIN procQ
      BY <1>0, HwTask DEF HalTask
    <2> QED  BY <1>0, <2>1 DEF TasksDiffer
  <1>5. InFlight' = InFlight \ {hal}
    BY <1>1, <1>2, <1>3, <1>4 DEF InFlight
  <1> QED  BY <1>0, <1>1, <1>3, <1>5 DEF FramesDiffer

\* Or until a reset, which nothing sent outlives.
LEMMA FlightReset == ASSUME SlotInv, ResetParser PROVE InFlight' = {} /\ InFlight = Waiting
  <1>1. procQ = << >> /\ UNCHANGED procQ /\ ppc' = "drain"
    BY DEF ResetParser, SlotInv, Control, ResetSteps, HalAtRest, halVars
  <1> QED  BY <1>1 DEF InFlight, Sent, Waiting

\* No other step starts or ends a picture's way.
OtherStep ==
    \/ PrevDone \/ (\E eos \in BOOLEAN : ParseSkipped(eos)) \/ PrepareEos \/ SubmitEos
    \/ SendInfoChange \/ WaitInfoChange \/ NoBuffer \/ (\E b \in Buffers : GetBuffer(b)) \/ Submit
    \/ ProcControl \/ ResetPost \/ ResetDone \/ (\E i \in Slots : ResetDrain(i)) \/ ParserCall
    \/ HalTake \/ HalReset \/ HalCall \/ (\E i \in Slots : HalDequeue(i)) \/ HalPut \/ HalEnd
    \/ UserNext

\* The steps that start and end no picture leave the same pictures on their way.
LEMMA FlightSame ==
    ASSUME SlotInv, OtherStep
    PROVE  InFlight' = InFlight /\ TasksDiffer'
  <1>0. /\ procQ \in Seq(HalJobs) /\ FramesDiffer(procQ) /\ TasksDiffer /\ HalRests /\ ParserRests
        /\ task \in DecTasks /\ ResetSteps
    BY DEF SlotInv, Types, HalTypes, ParserTypes, OnTheWay, TasksDiffer, FramesDiffer, Control
  <1>1. Sent = Frames(procQ) /\ Sent' = Frames(procQ')
    BY Zenon DEF Sent, Frames
  <1>2. ASSUME UNCHANGED <<procQ, task, ppc>> PROVE InFlight' = InFlight /\ TasksDiffer'
    BY <1>0, <1>2 DEF InFlight, Sent, Waiting, TasksDiffer
  <1>3. ASSUME NEW t \in HalJobs, t.kind # "frame", procQ' = Append(procQ, t) \/ UNCHANGED procQ,
               UNCHANGED <<task.parsed, task.out, task.refer, task.eos>>,
               ppc # "drain", ppc' # "drain"
        PROVE  InFlight' = InFlight /\ TasksDiffer'
    <2>1. Frames(procQ') = Frames(procQ)
      BY <1>0, <1>3, FramesMore
    <2>2. \A k \in DOMAIN procQ' : procQ'[k].kind = "frame" =>
              k \in DOMAIN procQ /\ procQ'[k] = procQ[k]
      BY <1>0, <1>3, QueueMore
    <2>3. Waiting' = Waiting
      BY <1>3 DEF Waiting, HalTask
    <2>4. InFlight' = InFlight
      BY <1>1, <2>1, <2>3 DEF InFlight
    <2>5. TasksDiffer'
      BY <1>0, <1>3, <2>2 DEF TasksDiffer
    <2> QED  BY <2>4, <2>5
  <1>4. CASE UserNext \/ HalTake \/ HalReset \/ HalCall \/ (\E i \in Slots : HalDequeue(i)) \/ HalPut
    BY <1>2, <1>4, UserKeeps DEF parserVars, halVars, HalTake, HalReset, HalCall, HalDequeue, HalPut
  <1>5. CASE HalEnd
    <2>1. UNCHANGED <<task, ppc>>
      BY <1>5 DEF HalEnd, parserVars
    <2>2. CASE procQ' = procQ
      BY <1>2, <2>1, <2>2
    <2>3. CASE hal.kind \in {"info", "eos"} /\ procQ' = Tail(procQ)
      <3>1. procQ # << >> /\ Head(procQ).kind # "frame"
        BY <1>0, <2>3 DEF HalRests
      <3>2. Frames(procQ') = Frames(procQ) /\ FramesDiffer(procQ')
        BY <1>0, <2>3, <3>1, FramesLess
      <3>3. \A k \in DOMAIN procQ' : k + 1 \in DOMAIN procQ /\ procQ'[k] = procQ[k + 1]
        BY <1>0, <2>3, <3>1, QueueLess
      <3>4. InFlight' = InFlight
        BY <1>1, <2>1, <3>2 DEF InFlight, Waiting
      <3>5. TasksDiffer'
        <4>1. \A k \in DOMAIN procQ' : procQ'[k].kind = "frame" /\ task'.parsed =>
                /\ procQ'[k].out # task'.out
                /\ procQ'[k].refer[1] # task'.out /\ procQ'[k].refer[2] # task'.out
          BY <1>0, <2>1, <3>3 DEF TasksDiffer
        <4> QED  BY <3>2, <4>1 DEF TasksDiffer, FramesDiffer
      <3> QED  BY <3>4, <3>5
    <2> QED  BY <1>5, <2>2, <2>3 DEF HalEnd
  <1>6. CASE (\E i \in Slots : ResetDrain(i)) \/ ParserCall \/ ProcControl \/ PrepareEos \/ ResetPost
    <2>1. UNCHANGED <<procQ, task>>
      BY <1>6 DEF ResetDrain, ParserCall, ProcControl, PrepareEos, ResetPost, halVars, parserVars
    <2>2. ppc' = ppc \/ (ppc # "drain" /\ ppc' # "drain")
      BY <1>6 DEF ResetDrain, ParserCall, ProcControl, PrepareEos, ResetPost, parserVars, TryProc
    <2>3. CASE ppc' = ppc
      BY <1>2, <2>1, <2>3
    <2>4. CASE ppc # "drain" /\ ppc' # "drain"
      BY <1>0, <2>1, <2>4 DEF InFlight, Sent, Waiting, TasksDiffer
    <2> QED  BY <2>2, <2>3, <2>4
  <1>7. CASE PrevDone \/ WaitInfoChange \/ NoBuffer \/ (\E b \in Buffers : GetBuffer(b))
    <2>1. UNCHANGED procQ
      BY <1>7 DEF PrevDone, WaitInfoChange, NoBuffer, GetBuffer, halVars
    <2>2. UNCHANGED <<task.parsed, task.out, task.refer, task.eos>>
      BY <1>0, <1>7 DEF PrevDone, WaitInfoChange, NoBuffer, GetBuffer, DecTasks
    <2>3. ppc # "drain" /\ ppc' # "drain"
      BY <1>7 DEF PrevDone, WaitInfoChange, NoBuffer, GetBuffer, TryProc, Parsed
    <2> QED  BY <1>3, <2>1, <2>2, <2>3, ConstantTypes DEF NoHal, HalTask
  <1>8. CASE (\E eos \in BOOLEAN : ParseSkipped(eos)) \/ SubmitEos
    <2>1. procQ' = Append(procQ, HalTask("eos", NoSlot, NoRefer, TRUE)) \/ UNCHANGED procQ
      BY <1>8 DEF ParseSkipped, SubmitEos
    <2>2. UNCHANGED task /\ ppc # "drain" /\ ppc' # "drain"
      BY <1>8 DEF ParseSkipped, SubmitEos, TryProc
    <2>3. HalTask("eos", NoSlot, NoRefer, TRUE).kind # "frame"
      BY DEF HalTask
    <2> QED  BY <1>3, <2>1, <2>2, <2>3, ConstantTypes
  <1>9. CASE SendInfoChange
    <2> DEFINE t == HalTask("info", task.out, NoRefer, FALSE)
    <2>1. t \in HalJobs /\ t.kind # "frame"
      BY <1>0 DEF HalTask, HalJobs, NoRefer, DecTasks, Entries
    <2>2. procQ' = Append(procQ, t) /\ ppc # "drain" /\ ppc' # "drain"
      BY <1>9 DEF SendInfoChange, Parsed, TryProc
    <2>3. UNCHANGED <<task.parsed, task.out, task.refer, task.eos>>
      BY <1>0, <1>9 DEF SendInfoChange, DecTasks
    <2> HIDE DEF t
    <2> QED  BY <1>3, <2>1, <2>2, <2>3
  <1>10. CASE Submit
    <2> DEFINE t == HalTask("frame", task.out, task.refer, task.eos)
    <2>1. /\ procQ' = Append(procQ, t) /\ ppc = "submit" /\ ppc' = "top" /\ ~task'.parsed
          /\ task.parsed
      BY <1>0, <1>10 DEF Submit, NoTask, ParserRests
    <2>2. t \in HalJobs /\ t.kind = "frame" /\ t.out = task.out
      BY <1>0 DEF HalTask, HalJobs, DecTasks
    <2>3. Waiting = {t} /\ Waiting' = {}
      BY <2>1 DEF Waiting
    <2> HIDE DEF t
    <2>4. Frames(procQ') = Frames(procQ) \cup {t}
      BY <1>0, <2>1, <2>2, FramesMore
    <2>5. InFlight' = InFlight
      BY <1>1, <2>3, <2>4 DEF InFlight
    <2>6. TasksDiffer'
      <3> SUFFICES ASSUME NEW j \in DOMAIN procQ', NEW k \in DOMAIN procQ', procQ'[j].kind = "frame",
                          procQ'[k].kind = "frame", procQ'[j].out = procQ'[k].out
                   PROVE  j = k
        BY <2>1 DEF TasksDiffer
      <3>1. /\ j \in DOMAIN procQ \/ j = Len(procQ) + 1
            /\ k \in DOMAIN procQ \/ k = Len(procQ) + 1
        BY <1>0, <2>1, <2>2, QueueMore
      <3>2. /\ \A n \in DOMAIN procQ : procQ'[n] = procQ[n]
            /\ procQ'[Len(procQ) + 1] = t
        BY <1>0, <2>1, <2>2, QueueMore
      <3> QED  BY <1>0, <2>1, <2>2, <3>1, <3>2 DEF TasksDiffer
    <2> QED  BY <2>5, <2>6
  <1>11. CASE ResetDone
    <2>1. UNCHANGED procQ /\ ppc = "drain" /\ ~task'.parsed /\ procQ = << >>
      BY <1>0, <1>11 DEF ResetDone, halVars, NoTask, ResetSteps, HalAtRest
    <2> QED  BY <2>1 DEF InFlight, Sent, Waiting, TasksDiffer
  <1> QED  BY <1>4, <1>5, <1>6, <1>7, <1>8, <1>9, <1>10, <1>11 DEF OtherStep

\* Every step of the system is one of these.
LEMMA NextSteps ==
    ASSUME Next
    PROVE  \/ OtherStep \/ HwDone \/ ResetParser
           \/ \E type \in {"I", "P", "B"}, size \in Infos, eos \in BOOLEAN : Parse(type, size, eos)
  BY DEF Next, ParserNext, HalNext, OtherStep

\* No task refers to an entry that nobody needs.
LEMMA NotReferred ==
    ASSUME SlotInv, NEW i \in Slots, ~Needed(i), NEW t \in InFlight
    PROVE  t.out # i /\ t.refer[1] # i /\ t.refer[2] # i
  <1> DEFINE A == {x \in InFlight : x.refer[1] = i}
  <1> DEFINE B == {x \in InFlight : x.refer[2] = i}
  <1>1. IsFiniteSet(A) /\ IsFiniteSet(B)
    <2>1. IsFiniteSet(InFlight)
      BY DEF SlotInv, OnTheWay, TasksFew
    <2> QED  BY <2>1, FS_Subset
  <1>2. Reads(i) = Cardinality(A) + Cardinality(B)
    BY DEF Reads, Uses
  <1>3. ~(Reads(i) > 0) /\ t.out # i
    BY DEF Needed, Writing
  <1> HIDE DEF A, B
  <1>4. Cardinality(A) \in Nat /\ Cardinality(B) \in Nat
    BY <1>1, FS_CardinalityType
  <1>5. Cardinality(A) = 0 /\ Cardinality(B) = 0
    BY <1>2, <1>3, <1>4
  <1>6. A = {} /\ B = {}
    BY <1>1, <1>5, FS_EmptySet
  <1> QED  BY <1>3, <1>6 DEF A, B

\* The entries of a task on its way.
TaskRefers(t) ==
    /\ t.out \in Slots /\ t.refer \in Entries \X Entries
    /\ t.out # t.refer[1] /\ t.out # t.refer[2]
    /\ t.refer[1] # NoSlot => t.refer[1] # t.refer[2]

\* Which references the parser's step leaves.
LEMMA RefsDifferStep == ASSUME SlotInv, Next PROVE RefsDiffer'
  <1>0. ref0 \in Refs /\ ref1 \in Refs /\ RefsDiffer
    BY DEF SlotInv, OnTheWay, Types, ParserTypes
  <1>1. ASSUME ref0' = ref0 \/ ref0' = Flushed(ref0), ref1' = ref1 PROVE RefsDiffer'
    BY <1>0, <1>1, FlushedTypes DEF RefsDiffer, Valid
  <1>2. CASE OtherStep \/ HwDone
    BY <1>1, <1>2, UserKeeps DEF OtherStep, HwDone, PrevDone, ParseSkipped, PrepareEos, SubmitEos,
       SendInfoChange, WaitInfoChange, NoBuffer, GetBuffer, Submit, ProcControl, ResetPost, ResetDone,
       ResetDrain, ParserCall, HalTake, HalReset, HalCall, HalDequeue, HalPut, HalEnd, parserVars
  <1>3. CASE ResetParser
    BY <1>3 DEF ResetParser, RefsDiffer, NoRef, Valid
  <1>4. ASSUME NEW type \in {"I", "P", "B"}, NEW size \in Infos, NEW eos \in BOOLEAN,
               Parse(type, size, eos)
        PROVE  RefsDiffer'
    <2>1. PICK i \in Slots : ParseAs(type, size, eos, i)
      BY <1>4 DEF Parse
    <2> DEFINE last == ParseLast(type, size, i)
    <2>2. ParseFacts(type, size, eos, i)
      BY <1>4, <2>1, ParseEffect
    <2>3. last \in Refs /\ ref0' = (IF eos THEN Flushed(last) ELSE last)
          /\ ref1' = (IF type = "B" THEN ref1 ELSE ref0) /\ i # ref0.slot
      BY <2>2 DEF ParseFacts, Needed, IsRef
    <2>4. ref0'.slot = last.slot
      BY <2>3, FlushedTypes
    <2> QED  BY <1>0, <2>3, <2>4 DEF ParseLast, RefsDiffer, Valid
  <1> QED  BY <1>2, <1>3, <1>4, NextSteps

\* Every step keeps what is on its way.
LEMMA StepOnTheWay == ASSUME SlotInv, [Next]_vars, Types' PROVE OnTheWay'
  <1>0. TasksDiffer /\ TasksRefer /\ RefsDiffer /\ procQ \in Seq(HalJobs)
        /\ ref0 \in Refs /\ ref1 \in Refs
    BY DEF SlotInv, OnTheWay, Types, HalTypes, ParserTypes
  <1>r. TasksRefer' <=> \A t \in InFlight' : TaskRefers(t)
    BY DEF TasksRefer, TaskRefers
  <1>s. \A t \in InFlight : TaskRefers(t)
    BY <1>0 DEF TasksRefer, TaskRefers
  <1>1. CASE UNCHANGED vars
    <2>1. UNCHANGED <<procQ, task, ppc, ref0, ref1>>
      BY <1>1 DEF vars, parserVars, halVars
    <2>2. InFlight' = InFlight
      BY <2>1 DEF InFlight, Sent, Waiting
    <2> QED  BY <1>0, <1>r, <1>s, <2>1, <2>2, FewTasksStep DEF OnTheWay, TasksDiffer, RefsDiffer
  <1>2. CASE Next
    <2>1. RefsDiffer' /\ TasksFew'
      BY <1>2, RefsDifferStep, FewTasksStep
    <2>2. TasksDiffer' /\ TasksRefer'
      <3>1. CASE OtherStep
        BY <1>r, <1>s, <3>1, FlightSame
      <3>2. CASE HwDone
        <4>1. /\ \A k \in DOMAIN procQ' : k + 1 \in DOMAIN procQ /\ procQ'[k] = procQ[k + 1]
              /\ UNCHANGED task
          BY <1>0, <3>2, QueueLess DEF HwDone, SlotInv, Control, HalRests
        <4>2. InFlight' = InFlight \ {hal} /\ FramesDiffer(procQ)'
          BY <3>2, FlightDone
        <4>3. TasksDiffer'
          <5>1. \A k \in DOMAIN procQ' : procQ'[k].kind = "frame" /\ task'.parsed =>
                  /\ procQ'[k].out # task'.out
                  /\ procQ'[k].refer[1] # task'.out /\ procQ'[k].refer[2] # task'.out
            BY <1>0, <4>1 DEF TasksDiffer
          <5> QED  BY <4>2, <5>1 DEF TasksDiffer, FramesDiffer
        <4> QED  BY <1>r, <1>s, <4>2, <4>3
      <3>3. CASE ResetParser
        <4>1. InFlight' = {}
          BY <3>3, FlightReset
        <4>2. UNCHANGED <<procQ, task>>
          BY <3>3 DEF ResetParser, halVars
        <4> QED  BY <1>0, <1>r, <4>1, <4>2 DEF TasksDiffer
      <3>4. ASSUME NEW type \in {"I", "P", "B"}, NEW size \in Infos, NEW eos \in BOOLEAN,
                   Parse(type, size, eos)
            PROVE  TasksDiffer' /\ TasksRefer'
        <4>1. PICK i \in Slots : ParseAs(type, size, eos, i)
          BY <3>4 DEF Parse
        <4>2. ParseFacts(type, size, eos, i)
          BY <3>4, <4>1, ParseEffect
        <4> DEFINE t == NewTask(eos, i)
        <4>3. InFlight' = InFlight \cup {t} /\ t.out = i /\ t.refer = <<ref0.slot, ref1.slot>>
              /\ t.refer[1] = ref0.slot /\ t.refer[2] = ref1.slot
          BY <4>2, FlightParse
        <4> HIDE DEF t
        <4>4. TaskRefers(t)
          <5>1. ref0.slot \in Entries /\ ref1.slot \in Entries
            BY <1>0 DEF Refs
          <5>2. i # ref0.slot /\ i # ref1.slot
            BY <4>2 DEF ParseFacts, Needed, IsRef
          <5> QED  BY <1>0, <4>3, <5>1, <5>2 DEF TaskRefers, RefsDiffer, Valid
        <4>5. TasksDiffer'
          <5>1. ~Needed(i) /\ UNCHANGED procQ /\ task'.out = i
            BY <4>2 DEF ParseFacts, halVars
          <5>2. ASSUME NEW k \in DOMAIN procQ, procQ[k].kind = "frame"
                PROVE  procQ[k].out # i /\ procQ[k].refer[1] # i /\ procQ[k].refer[2] # i
            <6>1. procQ[k] \in InFlight
              BY <5>2 DEF InFlight, Sent
            <6> QED  BY <5>1, <6>1, NotReferred
          <5> QED  BY <1>0, <5>1, <5>2 DEF TasksDiffer
        <4> QED  BY <1>r, <1>s, <4>3, <4>4, <4>5
      <3> QED  BY <1>2, <3>1, <3>2, <3>3, <3>4, NextSteps
    <2> QED  BY <2>1, <2>2 DEF OnTheWay
  <1> QED  BY <1>1, <1>2

-----------------------------------------------------------------------------
(* A call that a thread makes *)

\* What a call is for, whichever thread has it in hand.
CallIs(c) ==
    /\ c[1] = "set" /\ c[3] = "HAL_OUTPUT" => ppc = "check" /\ c[2] = task.out
    /\ c[1] = "set" /\ c[3] = "CODEC_USE" => ppc = "check" /\ c[2] = task.out /\ c[2] = ref0.slot
    /\ c[1] = "set" /\ c[3] = "HAL_INPUT" =>
         ppc = "check" /\ (c[2] = task.refer[1] \/ c[2] = task.refer[2])
    /\ c[1] = "frame" => ppc = "check" /\ c[2] = task.out
    /\ c[1] = "enqueue" \/ (c[1] = "set" /\ c[3] = "QUEUE_USE") =>
         /\ ppc # "drain"
         /\ IsRef(c[2]) \/ (ppc = "check" /\ c[2] = task.out)
    /\ c[1] = "clr" /\ c[3] = "CODEC_USE" => ppc \in {"check", "drain"} /\ ~IsRef(c[2])
    /\ c[1] = "put" => ppc = "drain" /\ ClrShow(c[2])
    /\ c[1] = "reset" => ppc = "drain" /\ task.waitInfo /\ c[2] = task.out /\ ClrOut(c[2])

\* What each call that is still to be made is for.
LEMMA CallFacts == ASSUME SlotInv, NEW c \in Calls PROVE c \in SlotCalls /\ CallIs(c)
  <1>0. /\ ParserCalls /\ HalCalls /\ ResetSteps /\ ptodo \in Seq(SlotCalls)
        /\ htodo \in Seq(SlotCalls)
    BY DEF SlotInv, Todo, Control, Types, ParserTypes, HalTypes
  <1>1. c \in SlotCalls
    BY <1>0 DEF Calls, CallsIn
  <1>2. CASE c \in CallsIn(ptodo)
    BY <1>0, <1>1, <1>2 DEF ParserCalls, CallIs, ClrShow, ClrOut, Calls
  <1>3. CASE c \in CallsIn(htodo)
    <2>1. ppc # "drain"
      BY <1>0, <1>3 DEF HalCalls, ResetSteps, HalAtRest
    <2>2. \/ c[1] = "clr" /\ c[3] # "CODEC_USE"
          \/ (c[1] = "enqueue" \/ (c[1] = "set" /\ c[3] = "QUEUE_USE")) /\ c[2] = ref0.slot
      BY <1>0, <1>3 DEF HalCalls
    <2>3. CASE c[1] = "clr" /\ c[3] # "CODEC_USE"
      BY <1>1, <2>3 DEF CallIs
    <2>4. CASE c[1] = "enqueue" /\ c[2] = ref0.slot
      BY <1>1, <2>1, <2>4 DEF CallIs, IsRef
    <2>5. CASE c[1] = "set" /\ c[3] = "QUEUE_USE" /\ c[2] = ref0.slot
      BY <1>1, <2>1, <2>5 DEF CallIs, IsRef
    <2> QED  BY <2>2, <2>3, <2>4, <2>5
  <1> QED  BY <1>1, <1>2, <1>3 DEF Calls

\* No call is in hand twice.
LEMMA CallsApart ==
    ASSUME SlotInv, NEW c \in CallsIn(ptodo), NEW d \in CallsIn(htodo)
    PROVE  c # d /\ ~(c[1] \in {"set", "enqueue"} /\ d[1] \in {"set", "enqueue"})
  <1>0. /\ ParserCalls /\ HalCalls /\ ResetSteps
    BY DEF SlotInv, Todo, Control
  <1>1. ppc # "drain"
    BY <1>0 DEF HalCalls, ResetSteps, HalAtRest
  <1>2. ppc \in {"check", "eos"} => ~Flushing
    BY NotFlushing
  <1>3. CASE d[1] = "clr" /\ d[3] # "CODEC_USE"
    BY <1>0, <1>1, <1>3 DEF ParserCalls
  <1>4. CASE d[1] \in {"set", "enqueue"} /\ Flushing /\ (d[1] = "set" => d[3] = "QUEUE_USE")
    <2>1. ppc \notin {"check", "eos"}
      BY <1>2, <1>4
    <2>2. ASSUME c[1] \in {"set", "enqueue"} PROVE FALSE
      <3>1. c \in SlotCalls
        BY DEF SlotInv, Types, ParserTypes, CallsIn
      <3>2. c[1] = "set" => c[3] \in Flags
        BY <3>1, CallKinds
      <3> QED  BY <1>0, <1>1, <2>1, <2>2, <3>2 DEF ParserCalls, Flags
    <2> QED  BY <1>4, <2>2
  <1> QED  BY <1>0, <1>3, <1>4 DEF HalCalls

\* The call c is made, and no other call comes or goes.
MadeCall(c) ==
    /\ c \in SlotCalls /\ c \in Calls /\ Call(c) /\ Calls' = Calls \ {c}
    /\ UNCHANGED <<ref0, ref1, ppc, task, procQ, hcur, frames, held, pic, coded, shown, dropped>>
    /\ c[1] = "enqueue" => ~SetShow(c[2])
    /\ c[1] = "clr" => ~GiveBack(c[2])
    /\ c[1] = "clr" /\ c[3] = "CODEC_USE" => ~SetIn(c[2])

\* A step of a todo list makes one of the calls that were left, and no call is added.
LEMMA CallStep ==
    ASSUME SlotInv, ParserCall \/ HalCall
    PROVE  \E c \in SlotCalls : MadeCall(c)
  <1>0. /\ InOrder(ptodo) /\ InOrder(htodo) /\ ptodo \in Seq(SlotCalls) /\ htodo \in Seq(SlotCalls)
        /\ ParserCalls /\ HalCalls /\ ResetSteps
    BY DEF SlotInv, Todo, Control, Types, ParserTypes, HalTypes
  <1>a. ASSUME NEW a \in Seq(SlotCalls), NEW b \in Seq(SlotCalls), a # << >>, InOrder(a),
               \A x \in CallsIn(a), y \in CallsIn(b) :
                  x # y /\ ~(x[1] \in {"set", "enqueue"} /\ y[1] \in {"set", "enqueue"})
                        /\ ~(x[1] = "clr" /\ y[1] = "put")
        PROVE  /\ Head(a) \in SlotCalls /\ Head(a) \in CallsIn(a)
               /\ CallsIn(Tail(a)) = CallsIn(a) \ {Head(a)} /\ Head(a) \notin CallsIn(b)
               /\ Head(a)[1] = "enqueue" =>
                    <<"set", Head(a)[2], "QUEUE_USE">> \notin CallsIn(a) \cup CallsIn(b)
               /\ Head(a)[1] = "clr" => <<"put", Head(a)[2], 0>> \notin CallsIn(a) \cup CallsIn(b)
               /\ Head(a)[1] = "clr" => <<"set", Head(a)[2], "HAL_INPUT">> \notin CallsIn(a)
    <2> DEFINE h == Head(a)
               s == <<"set", h[2], "QUEUE_USE">>
               p == <<"put", h[2], 0>>
    <2>1. /\ h \in SlotCalls /\ h \in CallsIn(a) /\ CallsIn(Tail(a)) = CallsIn(a) \ {h}
          /\ \A c \in CallsIn(a) \ {h} : Before(h, c)
      BY <1>a, CallsTail
    <2>2. s[1] = "set" /\ p[1] = "put" /\ p # s
      OBVIOUS
    <2>3. ASSUME h[1] = "enqueue" PROVE s \notin CallsIn(a) \cup CallsIn(b)
      <3>1. s # h
        BY <2>2, <2>3
      <3>2. s \notin CallsIn(a)
        BY <2>1, <2>3, <3>1 DEF Before
      <3>3. s \notin CallsIn(b)
        <4> HIDE DEF s, h
        <4> QED  BY <1>a, <2>1, <2>2, <2>3
      <3> QED  BY <3>2, <3>3
    <2>4. ASSUME h[1] = "clr" PROVE p \notin CallsIn(a) \cup CallsIn(b)
      <3>1. p # h
        BY <2>2, <2>4
      <3>2. p \notin CallsIn(a)
        BY <2>1, <2>2, <2>4, <3>1 DEF Before
      <3>3. p \notin CallsIn(b)
        <4> HIDE DEF p, h
        <4> QED  BY <1>a, <2>1, <2>2, <2>4
      <3> QED  BY <3>2, <3>3
    <2>5. h \notin CallsIn(b)
      <3> HIDE DEF h
      <3> QED  BY <1>a, <2>1
    <2>6. ASSUME h[1] = "clr" PROVE <<"set", h[2], "HAL_INPUT">> \notin CallsIn(a)
      <3> DEFINE q == <<"set", h[2], "HAL_INPUT">>
      <3>1. q[1] = "set" /\ q[3] = "HAL_INPUT" /\ q # h
        BY <2>6
      <3> QED  BY <2>1, <2>6, <3>1 DEF Before
    <2> QED  BY <2>1, <2>3, <2>4, <2>5, <2>6
  <1>b. \A x \in CallsIn(htodo), y \in CallsIn(ptodo) : ~(x[1] = "clr" /\ y[1] = "put")
    BY <1>0 DEF ParserCalls, HalCalls, ResetSteps, HalAtRest
  <1>c. \A y \in CallsIn(htodo) : y[1] # "put"
    BY <1>0 DEF HalCalls
  <1>d. \A y \in CallsIn(htodo) : ~(y[1] = "set" /\ y[3] = "HAL_INPUT")
                               /\ ~(y[1] = "clr" /\ y[3] = "CODEC_USE")
    BY <1>0 DEF HalCalls
  <1>1. CASE ParserCall
    <2> DEFINE c == Head(ptodo)
    <2>1. /\ ptodo # << >> /\ Call(c) /\ ptodo' = Tail(ptodo)
          /\ UNCHANGED <<ref0, ref1, ppc, task, procQ, hcur, htodo, frames, held, pic, coded, shown,
                         dropped>>
      BY <1>1 DEF ParserCall, halVars, outVars, histVars
    <2>2. \A x \in CallsIn(ptodo), y \in CallsIn(htodo) :
             x # y /\ ~(x[1] \in {"set", "enqueue"} /\ y[1] \in {"set", "enqueue"})
                   /\ ~(x[1] = "clr" /\ y[1] = "put")
      BY <1>c, CallsApart
    <2>3. /\ c \in SlotCalls /\ c \in CallsIn(ptodo)
          /\ CallsIn(Tail(ptodo)) = CallsIn(ptodo) \ {c} /\ c \notin CallsIn(htodo)
          /\ c[1] = "enqueue" => <<"set", c[2], "QUEUE_USE">> \notin Calls
          /\ c[1] = "clr" => <<"put", c[2], 0>> \notin Calls
          /\ c[1] = "clr" => <<"set", c[2], "HAL_INPUT">> \notin CallsIn(ptodo)
      BY <1>0, <1>a, <2>1, <2>2 DEF Calls
    <2> HIDE DEF c
    <2>4. Calls' = Calls \ {c}
      BY <2>1, <2>3 DEF Calls
    <2>5. MadeCall(c)
      <3>1. c[1] = "clr" => ~SetIn(c[2])
        BY <1>d, <2>3 DEF SetIn, Calls
      <3> QED  BY <2>1, <2>3, <2>4, <3>1 DEF MadeCall, SetShow, GiveBack, Calls
    <2> QED  BY <2>3, <2>5
  <1>2. CASE HalCall
    <2> DEFINE c == Head(htodo)
    <2>1. /\ htodo # << >> /\ Call(c) /\ htodo' = Tail(htodo)
          /\ UNCHANGED <<ref0, ref1, ppc, task, procQ, hcur, ptodo, frames, held, pic, coded, shown,
                         dropped>>
      BY <1>2 DEF HalCall, parserVars, outVars, histVars
    <2>2. \A x \in CallsIn(htodo), y \in CallsIn(ptodo) :
             x # y /\ ~(x[1] \in {"set", "enqueue"} /\ y[1] \in {"set", "enqueue"})
                   /\ ~(x[1] = "clr" /\ y[1] = "put")
      BY <1>b, CallsApart
    <2>3. /\ c \in SlotCalls /\ c \in CallsIn(htodo)
          /\ CallsIn(Tail(htodo)) = CallsIn(htodo) \ {c} /\ c \notin CallsIn(ptodo)
          /\ c[1] = "enqueue" => <<"set", c[2], "QUEUE_USE">> \notin Calls
          /\ c[1] = "clr" => <<"put", c[2], 0>> \notin Calls
          /\ c[1] = "clr" => <<"set", c[2], "HAL_INPUT">> \notin CallsIn(htodo)
      BY <1>0, <1>a, <2>1, <2>2 DEF Calls
    <2> HIDE DEF c
    <2>4. Calls' = Calls \ {c}
      BY <2>1, <2>3 DEF Calls
    <2>5. MadeCall(c)
      BY <1>d, <2>1, <2>3, <2>4 DEF MadeCall, SetShow, GiveBack, Calls
    <2> QED  BY <2>3, <2>5
  <1> QED  BY <1>1, <1>2

-----------------------------------------------------------------------------
(* The entries *)

\* The parts of the invariant that are about one entry.
StageOf(i) ==
    /\ Show(i) => ~InQ(i) /\ hcur # i /\ ~ClrShow(i)
    /\ InQ(i) => hcur # i /\ ~ClrShow(i)
    /\ hcur = i => ~ClrShow(i)
    /\ SetShow(i) => Show(i)
    /\ hcur = i \/ ClrShow(i) => ~Writing(i) /\ ~ClrOut(i)
    /\ ClrOut(i) => ~Writing(i)
    /\ Forget(i) => InQ(i)
    /\ Forgotten(i) => ~Staged(i)
EntryOk(i) == StageOf(i) /\ FlagsOf(i) /\ (SetIn(i) => IsRef(i) \/ ClrRef(i))

\* The invariant, entry by entry.
LEMMA EntriesOk == ASSUME SlotInv, NEW i \in Slots PROVE EntryOk(i)
  BY DEF SlotInv, Stages, StagesDiffer, Displays, FlagsExact, Todo, ReadsHeld, EntryOk, StageOf

\* The invariant from its entries, with what relates several of them.
LEMMA EntriesStep ==
    ASSUME QueuedOnce',
           (Valid(ref0) /\ ~ref0.enqueued => ~Staged(ref0.slot))',
           (task.parsed /\ ppc # "drain" =>
               (task.out = ref0.slot /\ ~ref0.enqueued) \/ Show(task.out) \/ InQ(task.out))',
           \A i \in Slots : EntryOk(i)'
    PROVE  Stages' /\ FlagsExact' /\ ReadsHeld'
  BY DEF Stages, StagesDiffer, Displays, FlagsExact, ReadsHeld, EntryOk, StageOf

\* The calls in hand for an entry, and the rest of what its flags depend on.
CallsSame(i) ==
    /\ SetOut(i)' <=> SetOut(i)
    /\ SetIn(i)' <=> SetIn(i)
    /\ SetRef(i)' <=> SetRef(i)
    /\ SetShow(i)' <=> SetShow(i)
    /\ Show(i)' <=> Show(i)
    /\ ClrOut(i)' <=> ClrOut(i)
    /\ ClrIn(i)' <=> ClrIn(i)
    /\ ClrRef(i)' <=> ClrRef(i)
    /\ ClrShow(i)' <=> ClrShow(i)
    /\ Forget(i)' <=> Forget(i)
WaySame(i) == (Writing(i)' <=> Writing(i)) /\ Reads(i)' = Reads(i)
PlaceSame(i) == /\ InQ(i)' <=> InQ(i)
                /\ hcur' = i <=> hcur = i
RefSame(i) == IsRef(i)' <=> IsRef(i)
ResetSame(i) == Forgotten(i)' <=> Forgotten(i)
FieldsSame(i) ==
    /\ slot'[i].on_used = slot[i].on_used /\ slot'[i].not_ready = slot[i].not_ready
    /\ slot'[i].codec_use = slot[i].codec_use /\ slot'[i].hal_output = slot[i].hal_output
    /\ slot'[i].hal_use = slot[i].hal_use /\ slot'[i].queue_use = slot[i].queue_use

\* An entry whose users stay as they are.
LEMMA EntrySame ==
    ASSUME SlotInv, NEW i \in Slots, CallsSame(i), WaySame(i), PlaceSame(i), RefSame(i), ResetSame(i),
           FieldsSame(i)
    PROVE  EntryOk(i)'
  <1>1. EntryOk(i)
    BY EntriesOk
  <1>2. StageOf(i)'
    BY <1>1 DEF EntryOk, StageOf, Staged, CallsSame, WaySame, PlaceSame, RefSame, ResetSame
  <1>3. (SetIn(i) => IsRef(i) \/ ClrRef(i))'
    BY <1>1 DEF EntryOk, CallsSame, RefSame
  <1>4. /\ InUses(i) /\ QueueUses(i) /\ CodecUse(i) /\ Output(i) /\ NotReady(i) /\ OnUse(i)
    BY <1>1 DEF EntryOk, FlagsOf
  <1>5. InUses(i)' /\ QueueUses(i)'
    BY <1>4 DEF InUses, QueueUses, N, CallsSame, WaySame, PlaceSame, FieldsSame
  <1>6. CodecUse(i)' /\ Output(i)' /\ NotReady(i)'
    BY <1>4 DEF CodecUse, Output, NotReady, CallsSame, WaySame, RefSame, FieldsSame
  <1>7. OnUse(i)'
    BY <1>4 DEF OnUse, Needed, Staged, CallsSame, WaySame, PlaceSame, RefSame, ResetSame, FieldsSame
  <1> QED  BY <1>2, <1>3, <1>5, <1>6, <1>7 DEF EntryOk, FlagsOf

\* What follows from the steps that the threads' lists take.
LEMMA CallsKept ==
    ASSUME NEW i, \A c : c[2] = i => (c \in Calls' <=> c \in Calls)
    PROVE  CallsSame(i)
  BY DEF CallsSame, SetOut, SetIn, SetRef, SetShow, Show, ClrOut, ClrIn, ClrRef, ClrShow, Forget

\* How many tasks read an entry.
ReadsOf(i, n) == {t \in InFlight : t.refer[n] = i}

\* The reads of an entry, counted by their place in the tasks; eight at the most.
LEMMA ReadsCount ==
    ASSUME SlotInv, NEW i
    PROVE  /\ IsFiniteSet(ReadsOf(i, 1)) /\ IsFiniteSet(ReadsOf(i, 2))
           /\ Reads(i) = Cardinality(ReadsOf(i, 1)) + Cardinality(ReadsOf(i, 2))
           /\ Cardinality(ReadsOf(i, 1)) \in 0 .. 4 /\ Cardinality(ReadsOf(i, 2)) \in 0 .. 4
           /\ Reads(i) \in 0 .. 8
  <1>1. IsFiniteSet(InFlight) /\ Cardinality(InFlight) <= 4
    <2>1. TasksFew /\ TasksLeft /\ procQ \in Seq(HalJobs) /\ procDone \in Nat
      BY DEF SlotInv, OnTheWay, Control, Types, HalTypes
    <2>2. HalTasks \in {2, 3} /\ Len(procQ) \in Nat
      BY <2>1, FlowAssumption
    <2>3. Cardinality(InFlight) \in Nat
      BY <2>1, FS_CardinalityType DEF TasksFew
    <2> QED  BY <2>1, <2>2, <2>3 DEF TasksFew, TasksLeft
  <1>2. ASSUME NEW n \in {1, 2}
        PROVE  IsFiniteSet(ReadsOf(i, n)) /\ Cardinality(ReadsOf(i, n)) \in 0 .. 4
    <2>1. ReadsOf(i, n) \in SUBSET InFlight
      BY DEF ReadsOf
    <2>2. IsFiniteSet(ReadsOf(i, n)) /\ Cardinality(ReadsOf(i, n)) <= Cardinality(InFlight)
      BY <1>1, <2>1, FS_Subset
    <2>3. Cardinality(ReadsOf(i, n)) \in Nat /\ Cardinality(InFlight) \in Nat
      BY <1>1, <2>2, FS_CardinalityType
    <2> QED  BY <1>1, <2>2, <2>3
  <1>3. Reads(i) = Cardinality(ReadsOf(i, 1)) + Cardinality(ReadsOf(i, 2))
    BY DEF Reads, Uses, ReadsOf
  <1> HIDE DEF ReadsOf
  <1> QED  BY <1>2, <1>3

\* What stays on its way is read as often.
LEMMA WayKept ==
    ASSUME InFlight' = InFlight, NEW i
    PROVE  WaySame(i)
  <1>1. Reads(i)' = Reads(i)
    BY DEF Reads, Uses
  <1> QED  BY <1>1 DEF WaySame, Writing

-----------------------------------------------------------------------------
(* The steps that change neither the table nor its users *)

\* What this part is about.
TableOk == Stages /\ FlagsExact /\ ReadsHeld /\ UsedCounted /\ ~slotError

\* The count of the entries on use.
LEMMA CountSame ==
    ASSUME UsedCounted, usedCount' = usedCount, \A i \in Slots : slot'[i].on_used = slot[i].on_used
    PROVE  UsedCounted'
  <1>1. UsedEntries' = UsedEntries
    BY DEF UsedEntries
  <1> QED  BY <1>1 DEF UsedCounted

\* The queue of the display is as it was.
LEMMA QueueSame ==
    ASSUME queue' = queue
    PROVE  (\A i : InQ(i)' <=> InQ(i)) /\ (QueuedOnce => QueuedOnce')
  BY DEF InQ, QueuedOnce

\* A step that changes no flag, no call and no picture on its way keeps the table exact.
LEMMA QuietSame ==
    ASSUME SlotInv, UNCHANGED <<queue, hcur, usedCount, slotError, ref0, ref1>>, Calls' = Calls,
           InFlight' = InFlight, \A i \in Slots : FieldsSame(i),
           ppc' = "drain" <=> ppc = "drain", ppc = "drain" => UNCHANGED task,
           task'.parsed => task.parsed /\ task'.out = task.out
    PROVE  TableOk'
  <1>0. /\ QueuedOnce /\ Displays /\ UsedCounted /\ ~slotError
    BY DEF SlotInv, Stages
  <1>1. ASSUME NEW i PROVE CallsSame(i) /\ WaySame(i) /\ PlaceSame(i) /\ RefSame(i) /\ ResetSame(i)
    <2>1. CallsSame(i) /\ WaySame(i)
      BY WayKept DEF CallsSame, SetOut, SetIn, SetRef, SetShow, Show, ClrOut, ClrIn, ClrRef,
         ClrShow,
         Forget
    <2>2. PlaceSame(i) /\ RefSame(i)
      BY QueueSame DEF PlaceSame, RefSame, IsRef
    <2>3. ResetSame(i)
      BY <2>1 DEF ResetSame, Forgotten, CallsSame
    <2> QED  BY <2>1, <2>2, <2>3
  <1>2. \A i \in Slots : EntryOk(i)'
    BY <1>1, EntrySame
  <1>3. \A i : (Staged(i)' <=> Staged(i)) /\ (Show(i)' <=> Show(i)) /\ (InQ(i)' <=> InQ(i))
    BY <1>1 DEF Staged, CallsSame, PlaceSame
  <1>4. (Valid(ref0) /\ ~ref0.enqueued => ~Staged(ref0.slot))'
    <2>1. Staged(ref0.slot)' <=> Staged(ref0.slot)
      BY DEF Staged, Show, InQ, ClrShow
    <2> QED  BY <1>0, <2>1 DEF Displays, Valid
  <1>5. (task.parsed /\ ppc # "drain" =>
            (task.out = ref0.slot /\ ~ref0.enqueued) \/ Show(task.out) \/ InQ(task.out))'
    <2> SUFFICES ASSUME task'.parsed, ppc' # "drain"
                 PROVE  (task'.out = ref0'.slot /\ ~ref0'.enqueued) \/ Show(task.out)' \/ InQ(task.out)'
      OBVIOUS
    <2>1. task'.out = task.out /\ task.parsed /\ ppc # "drain"
      OBVIOUS
    <2>2. (Show(task.out)' <=> Show(task.out)) /\ (InQ(task.out)' <=> InQ(task.out))
      BY <2>1 DEF Show, InQ
    <2> QED  BY <1>0, <2>1, <2>2 DEF Displays
  <1>6. UsedCounted'
    BY <1>0, CountSame DEF FieldsSame
  <1>7. Stages' /\ FlagsExact' /\ ReadsHeld'
    BY <1>0, <1>2, <1>4, <1>5, QueueSame, EntriesStep
  <1> QED  BY <1>0, <1>6, <1>7 DEF TableOk

\* The steps that are of this kind.
QuietStep ==
    \/ PrevDone \/ (\E eos \in BOOLEAN : ParseSkipped(eos)) \/ SubmitEos
    \/ SendInfoChange \/ WaitInfoChange \/ NoBuffer \/ (\E b \in Buffers : GetBuffer(b)) \/ Submit
    \/ ProcControl \/ ResetPost \/ HalEnd \/ UserNext

\* The steps that make no call keep the table exact.
LEMMA QuietTable == ASSUME SlotInv, QuietStep PROVE TableOk'
  <1>0. ParserRests /\ task \in DecTasks /\ SlotTypes /\ HalRests
    BY DEF SlotInv, Control, Types, ParserTypes
  <1>1. InFlight' = InFlight
    BY FlightSame DEF QuietStep, OtherStep
  <1>2. UNCHANGED <<ref0, ref1, ptodo, htodo, hcur>>
    BY UserKeeps DEF QuietStep, PrevDone, ParseSkipped, SubmitEos, SendInfoChange, WaitInfoChange,
       NoBuffer, GetBuffer, Submit, ProcControl, ResetPost, HalEnd, parserVars, halVars
  <1>3. Calls' = Calls
    BY <1>2 DEF Calls
  <1>4. /\ ppc' = "drain" <=> ppc = "drain"
        /\ ppc = "drain" => UNCHANGED task
        /\ task'.parsed => task.parsed /\ task'.out = task.out
    <2>1. CASE HalEnd \/ UserNext \/ ProcControl
      BY <2>1, UserKeeps DEF HalEnd, parserVars, ProcControl
    <2>2. CASE Submit
      BY <2>2 DEF Submit, NoTask
    <2>3. CASE PrevDone
      BY <1>0, <2>3 DEF PrevDone, TryProc, DecTasks
    <2>4. CASE \/ SendInfoChange \/ WaitInfoChange \/ NoBuffer \/ (\E b \in Buffers : GetBuffer(b))
      BY <1>0, <2>4 DEF SendInfoChange, WaitInfoChange, NoBuffer, GetBuffer, Parsed, TryProc,
         DecTasks
    <2>5. CASE (\E eos \in BOOLEAN : ParseSkipped(eos)) \/ SubmitEos \/ ResetPost
      BY <2>5 DEF ParseSkipped, SubmitEos, ResetPost, TryProc
    <2> QED  BY <2>1, <2>2, <2>3, <2>4, <2>5 DEF QuietStep
  <1>5. CASE \E b \in Buffers : GetBuffer(b)
    <2>1. PICK b \in Buffers : SetBuffer(task.out, b) /\ task.parsed
      BY <1>5 DEF GetBuffer, Parsed
    <2>2. task.out \in Slots
      BY <2>1, ParsedTask
    <2>3. /\ OnlyEntry(task.out) /\ UNCHANGED <<queue, usedCount, slotError>>
          /\ slot'[task.out] = [slot[task.out] EXCEPT !.buffer = b,
                                         !.frameBuf = IF slot[task.out].frame THEN b
                                                      ELSE slot[task.out].frameBuf]
      BY <1>0, <2>1, <2>2, SetBufferEffect
    <2>4. \A i \in Slots : FieldsSame(i)
      <3> TAKE i \in Slots
      <3>1. CASE i = task.out
        <4>1. slot[i] \in SlotEntry
          BY <1>0 DEF SlotTypes
        <4> QED  BY <2>3, <3>1, <4>1 DEF FieldsSame, SlotEntry
      <3>2. CASE i # task.out
        BY <2>3, <3>2 DEF FieldsSame, OnlyEntry
      <3> QED  BY <3>1, <3>2
    <2> QED  BY <1>1, <1>2, <1>3, <1>4, <2>3, <2>4, QuietSame
  <1>6. CASE ~(\E b \in Buffers : GetBuffer(b))
    <2>1. UNCHANGED <<slot, queue, usedCount, slotError>>
      BY <1>6, UserKeeps DEF QuietStep, PrevDone, ParseSkipped, SubmitEos, SendInfoChange,
         WaitInfoChange, NoBuffer, Submit, ProcControl, ResetPost, HalEnd, slotVars, Ready
    <2>2. \A i \in Slots : FieldsSame(i)
      BY <2>1 DEF FieldsSame
    <2> QED  BY <1>1, <1>2, <1>3, <1>4, <2>1, <2>2, QuietSame
  <1> QED  BY <1>5, <1>6

-----------------------------------------------------------------------------
(* The parser's flush *)

\* The calls that a flush adds for the last reference.
Flushes == Valid(ref0) /\ ~ref0.enqueued

\* What a flush adds to the calls.
LEMMA FlushAdds ==
    ASSUME Calls' = Calls \cup FlushSet(ref0), NEW i \in Slots
    PROVE  /\ SetOut(i)' <=> SetOut(i)
           /\ SetIn(i)' <=> SetIn(i)
           /\ SetRef(i)' <=> SetRef(i)
           /\ SetShow(i)' <=> SetShow(i) \/ (Flushes /\ i = ref0.slot)
           /\ Show(i)' <=> Show(i) \/ (Flushes /\ i = ref0.slot)
           /\ ClrOut(i)' <=> ClrOut(i)
           /\ ClrIn(i)' <=> ClrIn(i)
           /\ ClrRef(i)' <=> ClrRef(i)
           /\ ClrShow(i)' <=> ClrShow(i)
           /\ Forget(i)' <=> Forget(i)
  <1>1. ASSUME NEW c PROVE c \in FlushSet(ref0) <=>
            /\ Flushes
            /\ c = <<"set", ref0.slot, "QUEUE_USE">> \/ c = <<"enqueue", ref0.slot, "DISPLAY">>
    BY DEF FlushSet, ShowSet, Flushes
  <1>2. SetShow(i)' <=> SetShow(i) \/ (Flushes /\ i = ref0.slot)
    BY <1>1 DEF SetShow
  <1>3. Show(i)' <=> Show(i) \/ (Flushes /\ i = ref0.slot)
    BY <1>1 DEF Show
  <1>4. /\ SetOut(i)' <=> SetOut(i)
        /\ SetIn(i)' <=> SetIn(i)
        /\ SetRef(i)' <=> SetRef(i)
    BY <1>1 DEF SetOut, SetIn, SetRef
  <1>5. /\ ClrOut(i)' <=> ClrOut(i)
        /\ ClrIn(i)' <=> ClrIn(i)
        /\ ClrRef(i)' <=> ClrRef(i)
        /\ ClrShow(i)' <=> ClrShow(i)
    BY <1>1 DEF ClrOut, ClrIn, ClrRef, ClrShow
  <1>6. Forget(i)' <=> Forget(i)
    BY <1>1 DEF Forget
  <1> QED  BY <1>2, <1>3, <1>4, <1>5, <1>6

\* An entry that is marked to be queued besides.
LEMMA EntryShown ==
    ASSUME SlotInv, NEW i \in Slots, FieldsSame(i), WaySame(i), PlaceSame(i), ~Staged(i),
           Show(i)', SetShow(i)', ~Forgotten(i), ~Forgotten(i)', IsRef(i), IsRef(i)',
           SetOut(i)' <=> SetOut(i), SetIn(i)' <=> SetIn(i), SetRef(i)' <=> SetRef(i),
           ClrOut(i)' <=> ClrOut(i), ClrIn(i)' <=> ClrIn(i), ClrRef(i)' <=> ClrRef(i),
           ClrShow(i)' <=> ClrShow(i), Forget(i)' <=> Forget(i)
    PROVE  EntryOk(i)'
  <1>1. EntryOk(i) /\ slot[i] \in SlotEntry
    BY EntriesOk DEF SlotInv, Types, SlotTypes
  <1>2. ~Show(i) /\ ~SetShow(i) /\ ~InQ(i) /\ hcur # i /\ ~ClrShow(i)
    BY <1>1 DEF EntryOk, StageOf, Staged
  <1>3. StageOf(i)'
    BY <1>1, <1>2 DEF EntryOk, StageOf, Staged, WaySame, PlaceSame
  <1>4. /\ InUses(i) /\ QueueUses(i) /\ CodecUse(i) /\ Output(i) /\ NotReady(i) /\ OnUse(i)
    BY <1>1 DEF EntryOk, FlagsOf
  <1>5. slot[i].queue_use = 0
    BY <1>1, <1>2, <1>4 DEF QueueUses, N, SlotEntry
  <1>6. InUses(i)' /\ QueueUses(i)'
    <2>1. InUses(i)'
      BY <1>4 DEF InUses, N, WaySame, FieldsSame
    <2>2. slot'[i].queue_use = 0 /\ ~InQ(i)' /\ hcur' # i /\ ~ClrShow(i)'
      BY <1>2, <1>5 DEF PlaceSame, FieldsSame
    <2> QED  BY <2>1, <2>2 DEF QueueUses, N
  <1>7. CodecUse(i)' /\ Output(i)' /\ NotReady(i)'
    BY <1>4 DEF CodecUse, Output, NotReady, WaySame, FieldsSame
  <1>8. OnUse(i)'
    BY <1>4 DEF OnUse, Needed, FieldsSame
  <1> QED  BY <1>1, <1>3, <1>6, <1>7, <1>8 DEF EntryOk, FlagsOf

\* A step whose calls are those of a flush keeps the table exact.
LEMMA FlushSame ==
    ASSUME SlotInv, UNCHANGED <<slot, queue, hcur, usedCount, slotError, ref1, task>>,
           ppc # "drain", ppc' # "drain",
           Calls' = Calls \cup FlushSet(ref0), ref0' = Flushed(ref0), InFlight' = InFlight
    PROVE  TableOk'
  <1>0. /\ QueuedOnce /\ Displays /\ UsedCounted /\ ~slotError /\ ref0 \in Refs /\ task \in DecTasks
        /\ ParserRests
    BY DEF SlotInv, Stages, Types, ParserTypes, Control
  <1>1. ref0'.slot = ref0.slot /\ ref0'.enqueued = (Valid(ref0) \/ ref0.enqueued)
    BY <1>0, FlushedTypes
  <1>2. ASSUME NEW i \in Slots
        PROVE  WaySame(i) /\ PlaceSame(i) /\ RefSame(i) /\ ~Forgotten(i) /\ ~Forgotten(i)'
               /\ FieldsSame(i)
    BY <1>1, WayKept, QueueSame DEF PlaceSame, RefSame, IsRef, Forgotten, FieldsSame
  <1>3. ASSUME NEW i \in Slots PROVE EntryOk(i)'
    <2>1. CASE Flushes /\ i = ref0.slot
      <3>1. ~Staged(i) /\ IsRef(i)
        BY <1>0, <2>1 DEF Displays, Flushes, IsRef
      <3> QED  BY <1>2, <2>1, <3>1, FlushAdds, EntryShown DEF RefSame
    <2>2. CASE ~(Flushes /\ i = ref0.slot)
      <3>1. CallsSame(i)
        BY <2>2, FlushAdds DEF CallsSame
      <3>2. ResetSame(i)
        BY <1>2 DEF ResetSame
      <3> QED  BY <1>2, <3>1, <3>2, EntrySame
    <2> QED  BY <2>1, <2>2
  <1>4. (Valid(ref0) /\ ~ref0.enqueued => ~Staged(ref0.slot))'
    <2>1. Valid(ref0)' <=> Valid(ref0)
      BY <1>1 DEF Valid
    <2> QED  BY <1>0, <1>1, <2>1 DEF Refs
  <1>5. (task.parsed /\ ppc # "drain" =>
            (task.out = ref0.slot /\ ~ref0.enqueued) \/ Show(task.out) \/ InQ(task.out))'
    <2> SUFFICES ASSUME task.parsed
                 PROVE  (task.out = ref0'.slot /\ ~ref0'.enqueued) \/ Show(task.out)' \/ InQ(task.out)'
      OBVIOUS
    <2>1. (task.out = ref0.slot /\ ~ref0.enqueued) \/ Show(task.out) \/ InQ(task.out)
      BY <1>0 DEF Displays
    <2>2. task.out \in Slots
      BY ParsedTask
    <2>3. Show(task.out)' <=> Show(task.out) \/ (Flushes /\ task.out = ref0.slot)
      <3>1. PICK i \in Slots : i = task.out
        BY <2>2
      <3>2. Show(i)' <=> Show(i) \/ (Flushes /\ i = ref0.slot)
        BY FlushAdds
      <3> QED  BY <3>1, <3>2 DEF Show
    <2>4. InQ(task.out)' <=> InQ(task.out)
      BY DEF InQ
    <2>5. task.out = ref0.slot /\ ~ref0.enqueued => Flushes
      BY <1>0 DEF Flushes, Valid, ParserRests
    <2> QED  BY <2>1, <2>3, <2>4, <2>5
  <1>6. UsedCounted'
    BY <1>0, CountSame
  <1>7. Stages' /\ FlagsExact' /\ ReadsHeld'
    BY <1>0, <1>3, <1>4, <1>5, QueueSame, EntriesStep
  <1> QED  BY <1>0, <1>6, <1>7 DEF TableOk

\* The steps that flush the parser keep the table exact.
LEMMA FlushTable == ASSUME SlotInv, HalTake \/ HalReset \/ PrepareEos PROVE TableOk'
  <1>0. ParserRests /\ ResetSteps /\ HalRests /\ ref0 \in Refs /\ procQ \in Seq(HalJobs)
    BY DEF SlotInv, Control, Types, ParserTypes, HalTypes
  <1>1. InFlight' = InFlight
    BY FlightSame DEF OtherStep
  <1>2. UNCHANGED <<slot, queue, hcur, usedCount, slotError, ref1, task>>
    BY DEF HalTake, HalReset, PrepareEos, slotVars, halVars
  <1>3. CallsIn(FlushCalls(ref0)) = FlushSet(ref0) /\ CallsIn(<< >>) = {}
    BY <1>0, FlushLists, NoCalls DEF Lists
  <1>4. CASE HalTake
    <2>1. htodo = << >> /\ UNCHANGED <<ptodo, ppc>> /\ hpc = "top" /\ procQ # << >>
      BY <1>0, <1>4 DEF HalTake, HalRests
    <2>2. CASE hal'.kind # "info"
      <3>1. UNCHANGED <<htodo, ref0>>
        BY <1>4, <2>1, <2>2 DEF HalTake
      <3>2. Calls' = Calls
        BY <2>1, <3>1 DEF Calls
      <3>3. \A i \in Slots : FieldsSame(i)
        BY <1>2 DEF FieldsSame
      <3> QED  BY <1>1, <1>2, <2>1, <3>1, <3>2, <3>3, QuietSame
    <2>3. CASE hal'.kind = "info"
      <3>1. htodo' = FlushCalls(ref0) /\ ref0' = Flushed(ref0)
        BY <1>4, <2>3 DEF HalTake
      <3>2. Calls' = Calls \cup FlushSet(ref0)
        BY <1>3, <2>1, <3>1 DEF Calls
      <3>3. ppc # "drain"
        BY <1>0, <2>1 DEF ResetSteps, HalAtRest
      <3> QED  BY <1>1, <1>2, <2>1, <3>1, <3>2, <3>3, FlushSame
    <2> QED  BY <2>2, <2>3
  <1>5. CASE HalReset
    <2>1. /\ htodo = << >> /\ UNCHANGED <<ptodo, ppc>> /\ ppc = "waithal"
          /\ htodo' = FlushCalls(ref0) /\ ref0' = Flushed(ref0)
      BY <1>0, <1>5 DEF HalReset, HalRests, HalIdle, ResetSteps
    <2>2. Calls' = Calls \cup FlushSet(ref0)
      BY <1>3, <2>1 DEF Calls
    <2> QED  BY <1>1, <1>2, <2>1, <2>2, FlushSame
  <1>6. CASE PrepareEos
    <2>1. /\ ptodo = << >> /\ UNCHANGED htodo /\ ppc = "top" /\ ppc' = "eos"
          /\ ptodo' = FlushCalls(ref0) /\ ref0' = Flushed(ref0)
      BY <1>0, <1>6 DEF PrepareEos, ParserRests, TryProc, halVars
    <2>2. Calls' = Calls \cup FlushSet(ref0)
      BY <1>3, <2>1 DEF Calls
    <2> QED  BY <1>1, <1>2, <2>1, <2>2, FlushSame
  <1> QED  BY <1>4, <1>5, <1>6

-----------------------------------------------------------------------------
(* The table after a call *)

\* What a call takes off the lists.
LEMMA CallRemoves ==
    ASSUME NEW c \in SlotCalls, Calls' = Calls \ {c}, NEW i
    PROVE  /\ SetOut(i)' <=> SetOut(i) /\ ~(c[1] = "set" /\ c[2] = i /\ c[3] = "HAL_OUTPUT")
           /\ SetIn(i)' <=> SetIn(i) /\ ~(c[1] = "set" /\ c[2] = i /\ c[3] = "HAL_INPUT")
           /\ SetRef(i)' <=> SetRef(i) /\ ~(c[1] = "set" /\ c[2] = i /\ c[3] = "CODEC_USE")
           /\ SetShow(i)' <=> SetShow(i) /\ ~(c[1] = "set" /\ c[2] = i /\ c[3] = "QUEUE_USE")
           /\ Show(i)' <=> Show(i) /\ ~(c[1] = "enqueue" /\ c[2] = i)
           /\ ClrOut(i)' <=> ClrOut(i) /\ ~(c[1] = "clr" /\ c[2] = i /\ c[3] = "HAL_OUTPUT")
           /\ ClrIn(i)' <=> ClrIn(i) /\ ~(c[1] = "clr" /\ c[2] = i /\ c[3] = "HAL_INPUT")
           /\ ClrRef(i)' <=> ClrRef(i) /\ ~(c[1] = "clr" /\ c[2] = i /\ c[3] = "CODEC_USE")
           /\ ClrShow(i)' <=> ClrShow(i) /\ ~(c[1] = "clr" /\ c[2] = i /\ c[3] = "QUEUE_USE")
           /\ Forget(i)' <=> Forget(i) /\ ~(c[1] = "reset" /\ c[2] = i)
  <1>1. /\ c[1] = "enqueue" => c[3] = "DISPLAY"
        /\ c[1] = "reset" => c[3] = 0
        /\ c = << c[1], c[2], c[3] >>
    BY CallKinds
  <1>2. \A a, x : c = << a, i, x >> <=> c[1] = a /\ c[2] = i /\ c[3] = x
    BY <1>1
  <1>3. \A a, x : << a, i, x >> \in Calls' <=> << a, i, x >> \in Calls /\ ~(c[1] = a /\ c[2] = i /\ c[3] = x)
    BY <1>2
  <1>4. /\ SetOut(i)' <=> SetOut(i) /\ ~(c[1] = "set" /\ c[2] = i /\ c[3] = "HAL_OUTPUT")
        /\ SetIn(i)' <=> SetIn(i) /\ ~(c[1] = "set" /\ c[2] = i /\ c[3] = "HAL_INPUT")
        /\ SetRef(i)' <=> SetRef(i) /\ ~(c[1] = "set" /\ c[2] = i /\ c[3] = "CODEC_USE")
        /\ SetShow(i)' <=> SetShow(i) /\ ~(c[1] = "set" /\ c[2] = i /\ c[3] = "QUEUE_USE")
    BY <1>3, Zenon DEF SetOut, SetIn, SetRef, SetShow
  <1>5. /\ ClrOut(i)' <=> ClrOut(i) /\ ~(c[1] = "clr" /\ c[2] = i /\ c[3] = "HAL_OUTPUT")
        /\ ClrIn(i)' <=> ClrIn(i) /\ ~(c[1] = "clr" /\ c[2] = i /\ c[3] = "HAL_INPUT")
        /\ ClrRef(i)' <=> ClrRef(i) /\ ~(c[1] = "clr" /\ c[2] = i /\ c[3] = "CODEC_USE")
        /\ ClrShow(i)' <=> ClrShow(i) /\ ~(c[1] = "clr" /\ c[2] = i /\ c[3] = "QUEUE_USE")
    BY <1>3, Zenon DEF ClrOut, ClrIn, ClrRef, ClrShow
  <1>6. Show(i)' <=> Show(i) /\ ~(c[1] = "enqueue" /\ c[2] = i)
    BY <1>1, <1>3, Zenon DEF Show
  <1>7. Forget(i)' <=> Forget(i) /\ ~(c[1] = "reset" /\ c[2] = i)
    BY <1>1, <1>3, Zenon DEF Forget
  <1> QED  BY <1>4, <1>5, <1>6, <1>7

\* The entries that a call is not about, and what is said of the whole table.
LEMMA CallOthers ==
    ASSUME SlotInv, NEW c, MadeCall(c), InFlight' = InFlight, OnlyEntry(c[2]),
           \A y : y # c[2] => (InQ(y)' <=> InQ(y)), QueuedOnce', EntryOk(c[2])',
           Staged(c[2])' => Staged(c[2]),
           ppc # "drain" /\ (Show(c[2]) \/ InQ(c[2])) => Show(c[2])' \/ InQ(c[2])'
    PROVE  Stages' /\ FlagsExact' /\ ReadsHeld'
  <1>0. /\ QueuedOnce /\ Displays /\ c \in SlotCalls /\ Calls' = Calls \ {c}
        /\ UNCHANGED <<ref0, ref1, ppc, task, procQ, hcur>>
    BY DEF SlotInv, Stages, MadeCall
  <1>1. ASSUME NEW i, i # c[2]
        PROVE  /\ CallsSame(i) /\ PlaceSame(i) /\ (Staged(i)' <=> Staged(i))
               /\ (Show(i)' <=> Show(i)) /\ (InQ(i)' <=> InQ(i))
    <2>1. CallsSame(i)
      BY <1>0, <1>1, CallsKept
    <2>2. PlaceSame(i)
      BY <1>0, <1>1 DEF PlaceSame
    <2> QED  BY <2>1, <2>2 DEF CallsSame, PlaceSame, Staged
  <1>2. ASSUME NEW i \in Slots PROVE EntryOk(i)'
    <2>1. CASE i = c[2]
      BY <2>1
    <2>2. CASE i # c[2]
      <3>1. WaySame(i) /\ RefSame(i) /\ ResetSame(i)
        BY <1>0, <1>1, <2>2, WayKept DEF RefSame, IsRef, ResetSame, Forgotten, CallsSame
      <3>2. FieldsSame(i)
        BY <2>2 DEF FieldsSame, OnlyEntry
      <3> QED  BY <1>1, <2>2, <3>1, <3>2, EntrySame
    <2> QED  BY <2>1, <2>2
  <1>3. (Valid(ref0) /\ ~ref0.enqueued => ~Staged(ref0.slot))'
    <2>1. PICK i : i = ref0.slot
      OBVIOUS
    <2>2. Staged(i)' => Staged(i)
      BY <1>1
    <2>3. Staged(ref0.slot)' <=> Staged(i)'
      BY <1>0, <2>1 DEF Staged, Show, InQ, ClrShow
    <2> QED  BY <1>0, <2>1, <2>2, <2>3 DEF Displays, Valid
  <1>4. (task.parsed /\ ppc # "drain" =>
            (task.out = ref0.slot /\ ~ref0.enqueued) \/ Show(task.out) \/ InQ(task.out))'
    <2>1. PICK i : i = task.out
      OBVIOUS
    <2>2. ppc # "drain" /\ (Show(i) \/ InQ(i)) => Show(i)' \/ InQ(i)'
      BY <1>1
    <2>3. (Show(task.out)' <=> Show(i)') /\ (InQ(task.out)' <=> InQ(i)')
      BY <1>0, <2>1 DEF Show, InQ
    <2> QED  BY <1>0, <2>1, <2>2, <2>3 DEF Displays
  <1> QED  BY <1>2, <1>3, <1>4, EntriesStep

\* What a call leaves alone of its own entry's users.
LEMMA CallEntry ==
    ASSUME SlotInv, NEW c, MadeCall(c), InFlight' = InFlight
    PROVE  /\ c \in SlotCalls /\ c[2] \in Slots /\ CallIs(c) /\ EntryOk(c[2])
           /\ slot[c[2]] \in SlotEntry
           /\ WaySame(c[2]) /\ RefSame(c[2]) /\ (hcur' = c[2] <=> hcur = c[2])
           /\ (Forgotten(c[2])' <=> ppc = "drain" /\ task.waitInfo /\ c[2] = task.out /\ ~Forget(c[2])')
           /\ Calls' = Calls \ {c} /\ UNCHANGED <<ppc, task, hcur, ref0, ref1>>
           /\ SlotTypes /\ QueuedOnce /\ UsedCounted /\ ~slotError
  <1>1. /\ c \in SlotCalls /\ c \in Calls /\ Calls' = Calls \ {c}
        /\ UNCHANGED <<ppc, task, hcur, ref0, ref1>>
    BY DEF MadeCall
  <1>2. c[2] \in Slots /\ CallIs(c)
    BY <1>1, CallKinds, CallFacts
  <1>3. EntryOk(c[2])
    BY <1>2, EntriesOk
  <1>4. PICK i : i = c[2]
    OBVIOUS
  <1>5. WaySame(i) /\ RefSame(i)
    BY <1>1, WayKept DEF RefSame, IsRef
  <1>6. Forgotten(i)' <=> ppc = "drain" /\ task.waitInfo /\ i = task.out /\ ~Forget(i)'
    BY <1>1 DEF Forgotten
  <1>7. SlotTypes /\ QueuedOnce /\ UsedCounted /\ ~slotError /\ slot[c[2]] \in SlotEntry
    BY <1>2 DEF SlotInv, Types, SlotTypes, Stages
  <1> QED  BY <1>1, <1>2, <1>3, <1>4, <1>5, <1>6, <1>7

\* A call that changes neither flags nor queue: a picture's frame, or a buffer's
\* extra reference.
LEMMA FrameTable ==
    ASSUME SlotInv, NEW c, MadeCall(c), InFlight' = InFlight, c[1] \in {"frame", "put"}
    PROVE  TableOk'
  <1>0. /\ c \in SlotCalls /\ c[2] \in Slots /\ SlotTypes /\ Call(c)
        /\ Calls' = Calls \ {c} /\ UNCHANGED <<ppc, task, hcur, ref0, ref1>> /\ UsedCounted /\ ~slotError
    BY CallEntry DEF MadeCall
  <1>1. \/ c[1] = "frame" /\ c[3] \in Infos /\ SetFrame(c[2], c[3])
        \/ c[1] = "put" /\ PutBuffer(c[2])
    BY <1>0, CallEffect
  <1>2. UNCHANGED <<queue, usedCount, slotError>> /\ \A i \in Slots : FieldsSame(i)
    <2>1. CASE c[1] = "put" /\ PutBuffer(c[2])
      BY <2>1 DEF PutBuffer, FieldsSame
    <2>2. CASE c[1] = "frame" /\ c[3] \in Infos /\ SetFrame(c[2], c[3])
      <3>1. /\ OnlyEntry(c[2]) /\ UNCHANGED <<queue, usedCount, slotError>>
            /\ slot'[c[2]] = [slot[c[2]] EXCEPT !.frame = TRUE, !.frameBuf = NoBuf]
        BY <1>0, <2>2, SetFrameEffect
      <3>2. FieldsSame(c[2])
        <4>1. slot[c[2]] \in SlotEntry
          BY <1>0 DEF SlotTypes
        <4> QED  BY <3>1, <4>1 DEF FieldsSame, SlotEntry
      <3> QED  BY <3>1, <3>2 DEF FieldsSame, OnlyEntry
    <2> QED  BY <1>1, <2>1, <2>2
  <1>3. ASSUME NEW i PROVE CallsSame(i)
    BY <1>0, CallRemoves DEF CallsSame
  <1>4. \A y : InQ(y)' <=> InQ(y)
    BY <1>2, QueueSame
  <1>5. ASSUME NEW i PROVE CallsSame(i) /\ WaySame(i) /\ PlaceSame(i) /\ RefSame(i) /\ ResetSame(i)
    <2>1. CallsSame(i)
      BY <1>3
    <2> QED  BY <1>0, <1>4, <2>1, WayKept DEF CallsSame, PlaceSame, RefSame, IsRef, ResetSame,
                Forgotten
  <1>6. \A i \in Slots : EntryOk(i)'
    BY <1>2, <1>5, EntrySame
  <1>7. QueuedOnce' /\ UsedCounted' /\ ~slotError'
    BY <1>0, <1>2, QueueSame, CountSame DEF SlotInv, Stages, FieldsSame
  <1>8. \A i : (Staged(i)' <=> Staged(i)) /\ (Show(i)' <=> Show(i)) /\ (InQ(i)' <=> InQ(i))
    BY <1>5 DEF Staged, CallsSame, PlaceSame
  <1>9. OnlyEntry(c[2])
    <2>1. CASE c[1] = "put" /\ PutBuffer(c[2])
      BY <2>1 DEF PutBuffer, OnlyEntry
    <2>2. CASE c[1] = "frame" /\ c[3] \in Infos /\ SetFrame(c[2], c[3])
      BY <1>0, <2>2, SetFrameEffect
    <2> QED  BY <1>1, <2>1, <2>2
  <1>10. PICK i : i = c[2]
    OBVIOUS
  <1>11. Stages' /\ FlagsExact' /\ ReadsHeld'
    <2>1. (Staged(c[2])' => Staged(c[2])) /\ (Show(c[2]) \/ InQ(c[2]) => Show(c[2])' \/ InQ(c[2])')
      BY <1>8, <1>10
    <2>2. EntryOk(c[2])'
      BY <1>0, <1>6, <1>10
    <2> QED  BY <1>4, <1>7, <1>9, <2>1, <2>2, CallOthers
  <1> QED  BY <1>7, <1>11 DEF TableOk

\* A use is set.
LEMMA SetTable ==
    ASSUME SlotInv, NEW c, MadeCall(c), InFlight' = InFlight, c[1] = "set"
    PROVE  TableOk'
  <1> DEFINE i == c[2]
             u == c[3]
             s == slot[i]
             t == slot'[i]
  <1>0. /\ c \in SlotCalls /\ i \in Slots /\ SlotTypes /\ Call(c) /\ CallIs(c) /\ EntryOk(i)
        /\ WaySame(i) /\ RefSame(i) /\ (hcur' = i <=> hcur = i) /\ s \in SlotEntry
        /\ (Forgotten(i)' <=> ppc = "drain" /\ task.waitInfo /\ i = task.out /\ ~Forget(i)')
        /\ Calls' = Calls \ {c} /\ UsedCounted /\ ~slotError /\ c \in Calls
    BY CallEntry DEF MadeCall
  <1>1. u \in Flags /\ SetFlag(i, u)
    BY <1>0, CallEffect
  <1>2. /\ OnlyEntry(i) /\ t = SetOp(s, u) /\ UNCHANGED <<queue, usedCount, slotError>>
    BY <1>0, <1>1, SetFlagEffect
  <1>3. /\ t.on_used = s.on_used
        /\ t.not_ready = (s.not_ready \/ u = "HAL_OUTPUT")
        /\ t.codec_use = (s.codec_use \/ u = "CODEC_USE")
        /\ t.hal_output = (s.hal_output \/ u = "HAL_OUTPUT")
        /\ t.hal_use = (IF u = "HAL_INPUT" THEN (s.hal_use + 1) % 256 ELSE s.hal_use)
        /\ t.queue_use = (IF u = "QUEUE_USE" THEN (s.queue_use + 1) % 32 ELSE s.queue_use)
    BY <1>0, <1>1, <1>2, SetOpFields
  <1>4. \A y : InQ(y)' <=> InQ(y)
    BY <1>2, QueueSame
  <1>5. /\ SetOut(i)' <=> SetOut(i) /\ u # "HAL_OUTPUT"
        /\ SetIn(i)' <=> SetIn(i) /\ u # "HAL_INPUT"
        /\ SetRef(i)' <=> SetRef(i) /\ u # "CODEC_USE"
        /\ SetShow(i)' <=> SetShow(i) /\ u # "QUEUE_USE"
        /\ Show(i)' <=> Show(i)
        /\ ClrOut(i)' <=> ClrOut(i)
        /\ ClrIn(i)' <=> ClrIn(i)
        /\ ClrRef(i)' <=> ClrRef(i)
        /\ ClrShow(i)' <=> ClrShow(i)
        /\ Forget(i)' <=> Forget(i)
    BY <1>0, CallRemoves
  <1>6. /\ u = "HAL_OUTPUT" => SetOut(i)
        /\ u = "HAL_INPUT" => SetIn(i)
        /\ u = "CODEC_USE" => SetRef(i)
        /\ u = "QUEUE_USE" => SetShow(i)
    <2>1. c = << "set", i, u >>
      BY <1>0, CallKinds
    <2> HIDE DEF i, u
    <2> QED  BY <1>0, <2>1 DEF SetOut, SetIn, SetRef, SetShow
  <1>7. u = "HAL_OUTPUT" => Writing(i)
    <2>1. u = "HAL_OUTPUT" => ppc = "check" /\ i = task.out /\ task.parsed
      BY <1>0 DEF CallIs, SlotInv, Control, ParserRests
    <2> QED  BY <2>1, ParsedTask DEF Writing, HalTask
  <1>8. u = "CODEC_USE" => IsRef(i)
    BY <1>0 DEF CallIs, IsRef
  <1>9. Reads(i) \in 0 .. 8
    BY ReadsCount
  <1>10. (Staged(i)' <=> Staged(i)) /\ (Forgotten(i)' <=> Forgotten(i))
    BY <1>0, <1>4, <1>5 DEF Staged, Forgotten
  <1> HIDE DEF i, u, s, t
  <1>11. StageOf(i)'
    BY <1>0, <1>4, <1>5, <1>10 DEF EntryOk, StageOf, WaySame
  <1>12. /\ InUses(i) /\ QueueUses(i) /\ CodecUse(i) /\ Output(i) /\ NotReady(i) /\ OnUse(i)
         /\ slot[i] = s /\ slot'[i] = t
    BY <1>0 DEF EntryOk, FlagsOf, s, t
  <1>13. InUses(i)'
    <2>1. s.hal_use + N(SetIn(i)) = Reads(i) + N(ClrIn(i)) /\ s.hal_use \in 0 .. 255
      BY <1>0, <1>12 DEF InUses, SlotEntry
    <2>2. t.hal_use + N(SetIn(i)') = Reads(i)' + N(ClrIn(i)')
      BY <1>0, <1>3, <1>5, <1>6, <1>9, <2>1 DEF N, WaySame
    <2> QED  BY <1>12, <2>2 DEF InUses, N
  <1>14. QueueUses(i)'
    <2>1. /\ s.queue_use + N(SetShow(i)) =
               (IF InQ(i) THEN 2 ELSE 0) + N(hcur = i) + N(ClrShow(i)) + N(Show(i))
          /\ s.queue_use \in 0 .. 31
      BY <1>0, <1>12 DEF QueueUses, SlotEntry
    <2>2. t.queue_use + N(SetShow(i)') =
               (IF InQ(i)' THEN 2 ELSE 0) + N(hcur' = i) + N(ClrShow(i)') + N(Show(i)')
      BY <1>0, <1>3, <1>4, <1>5, <1>6, <2>1 DEF N
    <2> QED  BY <1>12, <2>2 DEF QueueUses, N
  <1>15. CodecUse(i)' /\ Output(i)' /\ NotReady(i)'
    <2>1. CodecUse(i)'
      BY <1>0, <1>3, <1>5, <1>6, <1>8, <1>12 DEF CodecUse, RefSame
    <2>2. Output(i)'
      BY <1>0, <1>3, <1>5, <1>6, <1>7, <1>12 DEF Output, WaySame
    <2>3. NotReady(i)'
      BY <1>0, <1>3, <1>5, <1>6, <1>7, <1>12 DEF NotReady, WaySame
    <2> QED  BY <2>1, <2>2, <2>3
  <1>16. OnUse(i)'
    BY <1>0, <1>3, <1>5, <1>10, <1>12 DEF OnUse, Needed, WaySame, RefSame
  <1>17. EntryOk(i)'
    BY <1>0, <1>5, <1>11, <1>13, <1>14, <1>15, <1>16 DEF EntryOk, FlagsOf, RefSame
  <1>18. QueuedOnce' /\ UsedCounted' /\ ~slotError'
    <2>1. \A j \in Slots : slot'[j].on_used = slot[j].on_used
      BY <1>2, <1>3, <1>12 DEF OnlyEntry
    <2> QED  BY <1>0, <1>2, <2>1, QueueSame, CountSame DEF SlotInv, Stages
  <1>19. Stages' /\ FlagsExact' /\ ReadsHeld'
    BY <1>2, <1>4, <1>5, <1>10, <1>17, <1>18, CallOthers DEF i
  <1> QED  BY <1>18, <1>19 DEF TableOk

\* What an entry's pending uses say of its flags.
LEMMA PendingUses ==
    ASSUME SlotInv, NEW i \in Slots
    PROVE  /\ SetIn(i) => Reads(i) > 0
           /\ SetRef(i) => Writing(i)
           /\ SetShow(i) => IsRef(i) \/ Writing(i)
  <1>1. ASSUME ppc = "check", i = task.out PROVE Writing(i)
    <2>1. task.parsed
      BY <1>1 DEF SlotInv, Control, ParserRests
    <2> QED  BY <1>1, <2>1, ParsedTask DEF Writing, HalTask
  <1>2. ASSUME SetIn(i) PROVE Reads(i) > 0
    <2> DEFINE c == <<"set", i, "HAL_INPUT">>
               t == HalTask("frame", task.out, task.refer, task.eos)
    <2>1. c \in Calls /\ c[1] = "set" /\ c[2] = i /\ c[3] = "HAL_INPUT"
      BY <1>2 DEF SetIn
    <2> HIDE DEF c
    <2>2. ppc = "check" /\ (i = task.refer[1] \/ i = task.refer[2])
      BY <2>1, CallFacts DEF CallIs
    <2>3. t \in InFlight /\ t.refer = task.refer
      BY <2>2, ParsedTask DEF HalTask, SlotInv, Control, ParserRests
    <2> HIDE DEF t
    <2>4. t \in ReadsOf(i, 1) \/ t \in ReadsOf(i, 2)
      BY <2>2, <2>3 DEF ReadsOf
    <2>5. \A S : IsFiniteSet(S) /\ t \in S => Cardinality(S) # 0
      BY FS_EmptySet
    <2> QED  BY <2>4, <2>5, ReadsCount
  <1>3. ASSUME SetRef(i) PROVE Writing(i)
    <2> DEFINE c == <<"set", i, "CODEC_USE">>
    <2>1. c \in Calls /\ c[1] = "set" /\ c[2] = i /\ c[3] = "CODEC_USE"
      BY <1>3 DEF SetRef
    <2> HIDE DEF c
    <2> QED  BY <1>1, <2>1, CallFacts DEF CallIs
  <1>4. ASSUME SetShow(i) PROVE IsRef(i) \/ Writing(i)
    <2> DEFINE c == <<"set", i, "QUEUE_USE">>
    <2>1. c \in Calls /\ c[1] = "set" /\ c[2] = i /\ c[3] = "QUEUE_USE"
      BY <1>4 DEF SetShow
    <2> HIDE DEF c
    <2> QED  BY <1>1, <2>1, CallFacts DEF CallIs
  <1> QED  BY <1>2, <1>3, <1>4

\* An entry whose users went away is not counted any more.
LEMMA CountReleased ==
    ASSUME UsedCounted, SlotTypes, NEW i \in Slots, OnlyEntry(i), slot[i].on_used, ~slot'[i].on_used,
           usedCount' = usedCount - 1
    PROVE  UsedCounted'
  <1>1. UsedEntries' = UsedEntries \ {i} /\ i \in UsedEntries
    BY DEF UsedEntries, OnlyEntry
  <1>2. IsFiniteSet(UsedEntries)
    <2>1. IsFiniteSet(Slots)
      BY SlotsAssumption, FS_Interval DEF Slots
    <2> QED  BY <2>1, FS_Subset DEF UsedEntries
  <1>3. Cardinality(UsedEntries') = Cardinality(UsedEntries) - 1 /\ Cardinality(UsedEntries) \in Nat
    BY <1>1, <1>2, FS_RemoveElement, FS_CardinalityType
  <1>4. usedCount \in Int /\ SlotCount \in Nat
    BY SlotsAssumption DEF SlotTypes
  <1> QED  BY <1>3, <1>4 DEF UsedCounted

\* A use is taken away, and the entry released with the last one.
LEMMA ClrTable ==
    ASSUME SlotInv, NEW c, MadeCall(c), InFlight' = InFlight, c[1] = "clr"
    PROVE  TableOk'
  <1> DEFINE i == c[2]
             u == c[3]
             s == slot[i]
             t == slot'[i]
             r == ClrOp(s, u)
  <1>0. /\ c \in SlotCalls /\ i \in Slots /\ SlotTypes /\ Call(c) /\ CallIs(c) /\ EntryOk(i)
        /\ WaySame(i) /\ RefSame(i) /\ (hcur' = i <=> hcur = i) /\ s \in SlotEntry
        /\ (Forgotten(i)' <=> ppc = "drain" /\ task.waitInfo /\ i = task.out /\ ~Forget(i)')
        /\ Calls' = Calls \ {c} /\ UsedCounted /\ ~slotError /\ c \in Calls
        /\ (u = "CODEC_USE" => ~SetIn(i))
    BY CallEntry DEF MadeCall
  <1>1. u \in Flags /\ ClrFlag(i, u)
    BY <1>0, CallEffect
  <1>2. /\ OnlyEntry(i) /\ UNCHANGED queue /\ slotError' = (slotError \/ ClrIsError(s, u))
        /\ r \in SlotEntry
        /\ t.on_used = (r.on_used /\ ~Unused(r)) /\ t.not_ready = r.not_ready
        /\ t.codec_use = r.codec_use /\ t.hal_output = r.hal_output /\ t.hal_use = r.hal_use
        /\ t.queue_use = r.queue_use
        /\ (Unused(r) => usedCount' = usedCount - 1)
        /\ (~Unused(r) => usedCount' = usedCount)
    BY <1>0, <1>1, ClrFlagEffect, ReleaseEffect
  <1>3. /\ r.on_used = s.on_used
        /\ t.not_ready = (s.not_ready /\ u # "HAL_OUTPUT")
        /\ t.codec_use = (s.codec_use /\ u # "CODEC_USE")
        /\ t.hal_output = (s.hal_output /\ u # "HAL_OUTPUT")
        /\ t.hal_use = (IF u = "HAL_INPUT" /\ s.hal_use > 0 THEN s.hal_use - 1 ELSE s.hal_use)
        /\ t.queue_use = (IF u = "QUEUE_USE" /\ s.queue_use > 0 THEN s.queue_use - 1
                          ELSE s.queue_use)
    BY <1>0, <1>1, <1>2, ClrOpFields
  <1>4. \A y : InQ(y)' <=> InQ(y)
    BY <1>2, QueueSame
  <1>5. /\ SetOut(i)' <=> SetOut(i)
        /\ SetIn(i)' <=> SetIn(i)
        /\ SetRef(i)' <=> SetRef(i)
        /\ SetShow(i)' <=> SetShow(i)
        /\ Show(i)' <=> Show(i)
        /\ ClrOut(i)' <=> ClrOut(i) /\ u # "HAL_OUTPUT"
        /\ ClrIn(i)' <=> ClrIn(i) /\ u # "HAL_INPUT"
        /\ ClrRef(i)' <=> ClrRef(i) /\ u # "CODEC_USE"
        /\ ClrShow(i)' <=> ClrShow(i) /\ u # "QUEUE_USE"
        /\ Forget(i)' <=> Forget(i)
    BY <1>0, CallRemoves
  <1>6. /\ u = "HAL_OUTPUT" => ClrOut(i)
        /\ u = "HAL_INPUT" => ClrIn(i)
        /\ u = "CODEC_USE" => ClrRef(i)
        /\ u = "QUEUE_USE" => ClrShow(i)
    <2>1. c = << "clr", i, u >>
      BY <1>0, CallKinds
    <2> HIDE DEF i, u
    <2> QED  BY <1>0, <2>1 DEF ClrOut, ClrIn, ClrRef, ClrShow
  <1>7. u = "CODEC_USE" => ~IsRef(i)
    BY <1>0 DEF CallIs
  <1>8. /\ SetIn(i) => Reads(i) > 0
        /\ SetRef(i) => Writing(i)
        /\ SetShow(i) => IsRef(i) \/ Writing(i)
        /\ Reads(i) \in 0 .. 8
    BY <1>0, PendingUses, ReadsCount
  <1>9. (Forgotten(i)' <=> Forgotten(i)) /\ (Staged(i)' => Staged(i))
    BY <1>0, <1>4, <1>5 DEF Staged, Forgotten
  <1> HIDE DEF i, u, s, t, r
  <1>10. StageOf(i)'
    BY <1>0, <1>4, <1>5, <1>9 DEF EntryOk, StageOf, WaySame
  <1>11. /\ InUses(i) /\ QueueUses(i) /\ CodecUse(i) /\ Output(i) /\ NotReady(i) /\ OnUse(i)
         /\ slot[i] = s /\ slot'[i] = t
    BY <1>0 DEF EntryOk, FlagsOf, s, t
  <1>12. /\ s.hal_use + N(SetIn(i)) = Reads(i) + N(ClrIn(i)) /\ s.hal_use \in 0 .. 255
         /\ s.queue_use + N(SetShow(i)) =
               (IF InQ(i) THEN 2 ELSE 0) + N(hcur = i) + N(ClrShow(i)) + N(Show(i))
         /\ s.queue_use \in 0 .. 31
    BY <1>0, <1>11 DEF QueueUses, InUses, SlotEntry
  <1>13. u = "HAL_INPUT" => s.hal_use > 0
    BY <1>6, <1>8, <1>12 DEF N
  <1>14. u = "QUEUE_USE" => s.queue_use > 0
    <2>1. ClrShow(i) => ~Show(i) /\ ~SetShow(i)
      BY <1>0 DEF EntryOk, StageOf
    <2> QED  BY <1>6, <1>12, <2>1 DEF N
  <1>15. t.hal_use + N(SetIn(i)') = Reads(i)' + N(ClrIn(i)') /\ t.hal_use \in 0 .. 255
    BY <1>0, <1>3, <1>5, <1>6, <1>8, <1>12, <1>13 DEF N, WaySame
  <1>16. /\ t.queue_use + N(SetShow(i)') =
               (IF InQ(i)' THEN 2 ELSE 0) + N(hcur' = i) + N(ClrShow(i)') + N(Show(i)')
         /\ t.queue_use \in 0 .. 31
    BY <1>0, <1>3, <1>4, <1>5, <1>6, <1>12, <1>14 DEF N
  <1>17. InUses(i)' /\ QueueUses(i)'
    BY <1>11, <1>15, <1>16 DEF InUses, QueueUses, N
  <1>18. CodecUse(i)' /\ Output(i)' /\ NotReady(i)'
    <2>1. CodecUse(i)'
      BY <1>0, <1>3, <1>5, <1>7, <1>11 DEF CodecUse, RefSame
    <2>2. Output(i)'
      BY <1>0, <1>3, <1>5, <1>6, <1>11 DEF Output, WaySame, EntryOk, StageOf
    <2>3. NotReady(i)'
      BY <1>0, <1>3, <1>5, <1>6, <1>11 DEF NotReady, WaySame, EntryOk, StageOf
    <2> QED  BY <2>1, <2>2, <2>3
  <1>19. ~slotError'
    <2>1. ~ClrIsError(s, u)
      BY <1>13, <1>14 DEF ClrIsError
    <2> QED  BY <1>0, <1>2, <2>1, Zenon
  <1>20. (SetIn(i) => IsRef(i) \/ ClrRef(i))'
    BY <1>0, <1>5 DEF EntryOk, RefSame
  <1>21. Needed(i)' <=> \/ t.not_ready \/ t.codec_use \/ t.hal_output
                        \/ t.hal_use # 0 \/ t.queue_use # 0
    <2>1. /\ t.codec_use <=> (IsRef(i)' /\ ~SetRef(i)') \/ ClrRef(i)'
          /\ t.hal_output <=> (Writing(i)' /\ ~SetOut(i)') \/ ClrOut(i)'
          /\ t.not_ready <=> Writing(i)' \/ ClrOut(i)'
      BY <1>11, <1>18 DEF CodecUse, Output, NotReady
    <2>2. /\ SetRef(i)' => Writing(i)'
          /\ SetShow(i)' => IsRef(i)' \/ Writing(i)'
          /\ SetIn(i)' => IsRef(i)' \/ ClrRef(i)'
      BY <1>0, <1>5, <1>8, <1>20 DEF WaySame, RefSame
    <2>3. Reads(i)' > 0 \/ ClrIn(i)' <=> t.hal_use # 0 \/ SetIn(i)'
      BY <1>0, <1>5, <1>8, <1>15 DEF N, WaySame
    <2>4. Staged(i)' <=> t.queue_use # 0 \/ SetShow(i)'
      <3>1. SetShow(i)' => Show(i)'
        BY <1>10 DEF StageOf
      <3>2. Staged(i)' <=> Show(i)' \/ InQ(i)' \/ hcur' = i \/ ClrShow(i)'
        BY DEF Staged
      <3>3. CASE SetShow(i)'
        BY <3>1, <3>2, <3>3
      <3>4. CASE ~SetShow(i)'
        <4>1. t.queue_use = (IF InQ(i)' THEN 2 ELSE 0) + (IF hcur' = i THEN 1 ELSE 0)
                              + (IF ClrShow(i)' THEN 1 ELSE 0) + (IF Show(i)' THEN 1 ELSE 0)
          BY <1>16, <3>4 DEF N
        <4> QED  BY <3>2, <3>4, <4>1
      <3> QED  BY <3>3, <3>4
    <2> QED  BY <2>1, <2>2, <2>3, <2>4 DEF Needed
  <1>22. Needed(i)
    BY <1>1, <1>6 DEF Needed, Staged, Flags
  <1>23. /\ r.on_used => (Unused(r) <=> ~Needed(i)')
         /\ Unused(r) => r.on_used
    BY <1>2, <1>21 DEF Unused
  <1>24. OnUse(i)'
    BY <1>2, <1>3, <1>9, <1>11, <1>22, <1>23 DEF OnUse
  <1>25. EntryOk(i)'
    BY <1>10, <1>17, <1>18, <1>20, <1>24 DEF EntryOk, FlagsOf
  <1>26. QueuedOnce'
    BY <1>2, QueueSame DEF SlotInv, Stages
  <1>27. UsedCounted'
    <2>1. CASE Unused(r)
      BY <1>0, <1>2, <1>3, <1>11, <1>23, <2>1, CountReleased
    <2>2. CASE ~Unused(r)
      <3>1. \A j \in Slots : slot'[j].on_used = slot[j].on_used
        <4>1. r.on_used \in BOOLEAN
          BY <1>2 DEF SlotEntry
        <4>2. t.on_used = s.on_used
          BY <1>2, <1>3, <2>2, <4>1
        <4> QED  BY <1>2, <1>11, <4>2 DEF OnlyEntry
      <3> QED  BY <1>0, <1>2, <2>2, <3>1, CountSame
    <2> QED  BY <2>1, <2>2
  <1>28. Stages' /\ FlagsExact' /\ ReadsHeld'
    BY <1>2, <1>4, <1>5, <1>9, <1>25, <1>26, CallOthers DEF i
  <1> QED  BY <1>19, <1>27, <1>28 DEF TableOk

\* An entry joins the queue of the display, or leaves it.
LEMMA QueueJoined ==
    ASSUME SlotTypes, QueuedOnce, NEW i \in Slots,
           queue'["DISPLAY"] = Append(Without(queue["DISPLAY"], i), i)
    PROVE  QueuedOnce' /\ InQ(i)' /\ \A y : y # i => (InQ(y)' <=> InQ(y))
  <1> DEFINE q == queue["DISPLAY"]
             w == Without(q, i)
             p == Append(w, i)
  <1>1. q \in Seq(Slots)
    BY DEF SlotTypes, QueueTypes
  <1>2. \A j, k \in DOMAIN q : q[j] = q[k] => j = k
    BY DEF QueuedOnce
  <1> HIDE DEF q
  <1>3. /\ w \in Seq(Slots)
        /\ \A k \in DOMAIN w : w[k] # i
        /\ \A y : y # i => ((\E k \in DOMAIN w : w[k] = y) <=> (\E k \in DOMAIN q : q[k] = y))
        /\ \A j, k \in DOMAIN w : w[j] = w[k] => j = k
    BY <1>1, <1>2, WithoutOne
  <1> HIDE DEF w
  <1>4. /\ \A k \in DOMAIN w : p[k] = w[k]
        /\ p[Len(w) + 1] = i /\ Len(w) \in Nat
        /\ DOMAIN w = 1 .. Len(w) /\ DOMAIN p = 1 .. Len(w) + 1
    BY <1>3, Appended
  <1>5. queue'["DISPLAY"] = p
    BY DEF q, w
  <1> HIDE DEF p
  <1>6. ASSUME NEW k \in DOMAIN p PROVE k \in DOMAIN w \/ k = Len(w) + 1
    BY <1>4
  <1>7. \A j, k \in DOMAIN p : p[j] = p[k] => j = k
    BY <1>3, <1>4, <1>6
  <1>8. \E k \in DOMAIN p : p[k] = i
    <2>1. Len(w) + 1 \in DOMAIN p
      BY <1>4
    <2> QED  BY <1>4, <2>1
  <1>9. \A y : y # i => ((\E k \in DOMAIN p : p[k] = y) <=> (\E k \in DOMAIN w : w[k] = y))
    <2>1. DOMAIN w \subseteq DOMAIN p
      BY <1>4
    <2> QED  BY <1>4, <1>6, <2>1
  <1>10. QueuedOnce'
    BY <1>5, <1>7 DEF QueuedOnce
  <1>11. InQ(i)'
    BY <1>5, <1>8 DEF InQ
  <1>12. \A y : y # i => (InQ(y)' <=> InQ(y))
    BY <1>3, <1>5, <1>9 DEF InQ, q
  <1> QED  BY <1>10, <1>11, <1>12

\* An entry that leaves the display queue is no more in it, and the others stay.
LEMMA QueueLeft ==
    ASSUME SlotTypes, QueuedOnce, NEW i \in Slots,
           queue'["DISPLAY"] = Without(queue["DISPLAY"], i)
    PROVE  QueuedOnce' /\ ~InQ(i)' /\ \A y : y # i => (InQ(y)' <=> InQ(y))
  <1> DEFINE q == queue["DISPLAY"]
             w == Without(q, i)
  <1>1. q \in Seq(Slots)
    BY DEF SlotTypes, QueueTypes
  <1>2. \A j, k \in DOMAIN q : q[j] = q[k] => j = k
    BY DEF QueuedOnce
  <1> HIDE DEF q
  <1>3. /\ \A k \in DOMAIN w : w[k] # i
        /\ \A y : y # i => ((\E k \in DOMAIN w : w[k] = y) <=> (\E k \in DOMAIN q : q[k] = y))
        /\ \A j, k \in DOMAIN w : w[j] = w[k] => j = k
    BY <1>1, <1>2, WithoutOne
  <1>4. queue'["DISPLAY"] = w
    BY DEF q
  <1> HIDE DEF w
  <1> QED  BY <1>3, <1>4 DEF QueuedOnce, InQ, q

\* An entry that was marked is put into the display queue.
LEMMA EnqueueTable ==
    ASSUME SlotInv, NEW c, MadeCall(c), InFlight' = InFlight, c[1] = "enqueue"
    PROVE  TableOk'
  <1> DEFINE i == c[2]
             s == slot[i]
             t == slot'[i]
  <1>0. /\ c \in SlotCalls /\ i \in Slots /\ SlotTypes /\ Call(c) /\ CallIs(c) /\ EntryOk(i)
        /\ WaySame(i) /\ RefSame(i) /\ (hcur' = i <=> hcur = i) /\ s \in SlotEntry
        /\ (Forgotten(i)' <=> ppc = "drain" /\ task.waitInfo /\ i = task.out /\ ~Forget(i)')
        /\ Calls' = Calls \ {c} /\ UsedCounted /\ ~slotError /\ c \in Calls /\ QueuedOnce
        /\ ~SetShow(i)
    BY CallEntry DEF MadeCall
  <1>1. Enqueue(i, "DISPLAY")
    BY <1>0, CallEffect
  <1>2. /\ OnlyEntry(i) /\ t = [s EXCEPT !.queue_use = (s.queue_use + 1) % 32]
        /\ queue'["DISPLAY"] = Append(Without(queue["DISPLAY"], i), i)
        /\ UNCHANGED <<usedCount, slotError>>
    BY <1>0, <1>1, EnqueueEffect
  <1>3. /\ t.on_used = s.on_used /\ t.not_ready = s.not_ready /\ t.codec_use = s.codec_use
        /\ t.hal_output = s.hal_output /\ t.hal_use = s.hal_use
        /\ t.queue_use = (s.queue_use + 1) % 32
    BY <1>0, <1>2 DEF SlotEntry
  <1>4. QueuedOnce' /\ InQ(i)' /\ \A y : y # i => (InQ(y)' <=> InQ(y))
    BY <1>0, <1>2, QueueJoined
  <1>5. /\ SetOut(i)' <=> SetOut(i)
        /\ SetIn(i)' <=> SetIn(i)
        /\ SetRef(i)' <=> SetRef(i)
        /\ SetShow(i)' <=> SetShow(i)
        /\ ~Show(i)'
        /\ ClrOut(i)' <=> ClrOut(i)
        /\ ClrIn(i)' <=> ClrIn(i)
        /\ ClrRef(i)' <=> ClrRef(i)
        /\ ClrShow(i)' <=> ClrShow(i)
        /\ Forget(i)' <=> Forget(i)
    BY <1>0, CallRemoves
  <1>6. Show(i)
    <2>1. c = << "enqueue", i, "DISPLAY" >>
      BY <1>0, CallKinds
    <2> QED  BY <1>0, <2>1 DEF Show
  <1>7. ~Forgotten(i) /\ ~Forgotten(i)'
    BY <1>0 DEF CallIs, Forgotten
  <1> HIDE DEF i, s, t
  <1>8. ~InQ(i) /\ hcur # i /\ ~ClrShow(i)
    BY <1>0, <1>6 DEF EntryOk, StageOf
  <1>9. StageOf(i)'
    BY <1>0, <1>4, <1>5, <1>7, <1>8 DEF EntryOk, StageOf, WaySame
  <1>10. /\ InUses(i) /\ QueueUses(i) /\ CodecUse(i) /\ Output(i) /\ NotReady(i) /\ OnUse(i)
         /\ slot[i] = s /\ slot'[i] = t
    BY <1>0 DEF EntryOk, FlagsOf, s, t
  <1>11. InUses(i)'
    BY <1>0, <1>3, <1>5, <1>10 DEF InUses, N, WaySame
  <1>12. QueueUses(i)'
    <2>1. s.queue_use = 1
      BY <1>0, <1>6, <1>8, <1>10 DEF QueueUses, N, SlotEntry
    <2>2. t.queue_use = 2 /\ ~SetShow(i)' /\ hcur' # i /\ ~ClrShow(i)'
      BY <1>0, <1>3, <1>5, <1>8, <2>1
    <2> QED  BY <1>4, <1>5, <1>10, <2>2 DEF QueueUses, N
  <1>13. CodecUse(i)' /\ Output(i)' /\ NotReady(i)'
    BY <1>0, <1>3, <1>5, <1>10 DEF CodecUse, Output, NotReady, WaySame, RefSame
  <1>14. OnUse(i)'
    BY <1>3, <1>4, <1>6, <1>7, <1>10 DEF OnUse, Needed, Staged
  <1>15. EntryOk(i)'
    BY <1>0, <1>5, <1>9, <1>11, <1>12, <1>13, <1>14 DEF EntryOk, FlagsOf, RefSame
  <1>16. UsedCounted' /\ ~slotError'
    <2>1. \A j \in Slots : slot'[j].on_used = slot[j].on_used
      BY <1>2, <1>3, <1>10 DEF OnlyEntry
    <2> QED  BY <1>0, <1>2, <2>1, CountSame
  <1>17. Stages' /\ FlagsExact' /\ ReadsHeld'
    <2>1. Staged(i)
      BY <1>6 DEF Staged
    <2> QED  BY <1>2, <1>4, <1>15, <2>1, CallOthers DEF i
  <1> QED  BY <1>16, <1>17 DEF TableOk

\* The entry of an unfinished geometry change is given up at once.
LEMMA ResetTable ==
    ASSUME SlotInv, NEW c, MadeCall(c), InFlight' = InFlight, c[1] = "reset"
    PROVE  TableOk'
  <1> DEFINE i == c[2]
             s == slot[i]
             t == slot'[i]
  <1>0. /\ c \in SlotCalls /\ i \in Slots /\ SlotTypes /\ Call(c) /\ CallIs(c) /\ EntryOk(i)
        /\ WaySame(i) /\ RefSame(i) /\ (hcur' = i <=> hcur = i) /\ s \in SlotEntry
        /\ (Forgotten(i)' <=> ppc = "drain" /\ task.waitInfo /\ i = task.out /\ ~Forget(i)')
        /\ Calls' = Calls \ {c} /\ UsedCounted /\ ~slotError /\ c \in Calls /\ QueuedOnce
    BY CallEntry DEF MadeCall
  <1>1. SlotReset(i)
    BY <1>0, CallEffect
  <1>2. /\ OnlyEntry(i)
        /\ t = [s EXCEPT !.on_used = FALSE,
                         !.queue_use = IF s.queue_use > 1 THEN s.queue_use - 2 ELSE 0]
        /\ queue'["DISPLAY"] = Without(queue["DISPLAY"], i)
        /\ slotError' = (slotError \/ s.queue_use < 2)
        /\ UNCHANGED usedCount
    BY <1>0, <1>1, SlotResetEffect
  <1>3. /\ t.on_used = FALSE /\ t.not_ready = s.not_ready /\ t.codec_use = s.codec_use
        /\ t.hal_output = s.hal_output /\ t.hal_use = s.hal_use
        /\ t.queue_use = (IF s.queue_use > 1 THEN s.queue_use - 2 ELSE 0)
    BY <1>0, <1>2 DEF SlotEntry
  <1>4. QueuedOnce' /\ ~InQ(i)' /\ \A y : y # i => (InQ(y)' <=> InQ(y))
    BY <1>0, <1>2, QueueLeft
  <1>5. /\ SetOut(i)' <=> SetOut(i)
        /\ SetIn(i)' <=> SetIn(i)
        /\ SetRef(i)' <=> SetRef(i)
        /\ SetShow(i)' <=> SetShow(i)
        /\ Show(i)' <=> Show(i)
        /\ ClrOut(i)' <=> ClrOut(i)
        /\ ClrIn(i)' <=> ClrIn(i)
        /\ ClrRef(i)' <=> ClrRef(i)
        /\ ClrShow(i)' <=> ClrShow(i)
        /\ ~Forget(i)'
    BY <1>0, CallRemoves
  <1>6. Forget(i) /\ ppc = "drain" /\ task.waitInfo /\ i = task.out
    <2>1. c = << "reset", i, 0 >>
      BY <1>0, CallKinds
    <2> QED  BY <1>0, <2>1 DEF Forget, CallIs
  <1> HIDE DEF i, s, t
  <1>7. InQ(i) /\ ~Show(i) /\ ~SetShow(i) /\ hcur # i /\ ~ClrShow(i)
    BY <1>0, <1>6 DEF EntryOk, StageOf
  <1>8. ~Staged(i)' /\ Staged(i)
    BY <1>0, <1>4, <1>5, <1>7 DEF Staged
  <1>9. Forgotten(i)'
    BY <1>0, <1>5, <1>6
  <1>10. StageOf(i)'
    BY <1>0, <1>4, <1>5, <1>7, <1>8 DEF EntryOk, StageOf, WaySame
  <1>11. /\ InUses(i) /\ QueueUses(i) /\ CodecUse(i) /\ Output(i) /\ NotReady(i) /\ OnUse(i)
         /\ slot[i] = s /\ slot'[i] = t
    BY <1>0 DEF EntryOk, FlagsOf, s, t
  <1>12. InUses(i)'
    BY <1>0, <1>3, <1>5, <1>11 DEF InUses, N, WaySame
  <1>13. s.queue_use = 2
    BY <1>0, <1>7, <1>11 DEF QueueUses, N, SlotEntry
  <1>14. QueueUses(i)'
    <2>1. t.queue_use = 0 /\ ~SetShow(i)' /\ ~Show(i)' /\ ~ClrShow(i)' /\ hcur' # i
      BY <1>0, <1>3, <1>5, <1>7, <1>13
    <2> QED  BY <1>4, <1>11, <2>1 DEF QueueUses, N
  <1>15. CodecUse(i)' /\ Output(i)' /\ NotReady(i)'
    BY <1>0, <1>3, <1>5, <1>11 DEF CodecUse, Output, NotReady, WaySame, RefSame
  <1>16. OnUse(i)'
    BY <1>3, <1>9, <1>11 DEF OnUse
  <1>17. EntryOk(i)'
    BY <1>0, <1>5, <1>10, <1>12, <1>14, <1>15, <1>16 DEF EntryOk, FlagsOf, RefSame
  <1>18. ~slotError'
    <2>1. ~(s.queue_use < 2)
      BY <1>13
    <2> QED  BY <1>0, <1>2, <2>1, Zenon
  <1>19. UsedCounted'
    <2>1. UsedEntries' \subseteq UsedEntries
      BY <1>2, <1>3, <1>11 DEF UsedEntries, OnlyEntry
    <2>2. IsFiniteSet(UsedEntries)
      <3>1. IsFiniteSet(Slots)
        BY SlotsAssumption, FS_Interval DEF Slots
      <3> QED  BY <3>1, FS_Subset DEF UsedEntries
    <2>3. Cardinality(UsedEntries') <= Cardinality(UsedEntries)
      BY <2>1, <2>2, FS_Subset
    <2>4. Cardinality(UsedEntries') \in Nat /\ Cardinality(UsedEntries) \in Nat /\ usedCount \in Int
      BY <1>0, <2>1, <2>2, FS_Subset, FS_CardinalityType DEF SlotTypes
    <2> QED  BY <1>0, <1>2, <2>3, <2>4, SlotsAssumption DEF UsedCounted
  <1>20. Stages' /\ FlagsExact' /\ ReadsHeld'
    BY <1>2, <1>4, <1>6, <1>8, <1>17, CallOthers DEF i
  <1> QED  BY <1>18, <1>19, <1>20 DEF TableOk

\* Whatever call is made.
LEMMA CallTable == ASSUME SlotInv, ParserCall \/ HalCall PROVE TableOk'
  <1>1. PICK c \in SlotCalls : MadeCall(c)
    BY CallStep
  <1>2. InFlight' = InFlight
    BY FlightSame DEF OtherStep
  <1>3. c[1] \in {"set", "clr", "enqueue", "frame", "reset", "put"}
    BY CallKinds
  <1> QED  BY <1>1, <1>2, <1>3, SetTable, ClrTable, EnqueueTable, FrameTable, ResetTable

-----------------------------------------------------------------------------
(* The queue of the display is emptied *)

\* The entry that leaves the queue: it is ready, and the queue used it twice.
LEMMA DequeueFacts ==
    ASSUME SlotInv, NEW i \in Slots, Dequeue(i, "DISPLAY")
    PROVE  /\ SlotTypes /\ EntryOk(i) /\ OnlyEntry(i) /\ InQ(i) /\ ~Writing(i) /\ ~ClrOut(i)
           /\ QueuedOnce' /\ ~InQ(i)' /\ (\A y : y # i => (InQ(y)' <=> InQ(y)))
           /\ slot[i].queue_use = 2 /\ slot'[i].queue_use = 1
           /\ slot'[i].on_used = slot[i].on_used /\ slot'[i].not_ready = slot[i].not_ready
           /\ slot'[i].codec_use = slot[i].codec_use /\ slot'[i].hal_output = slot[i].hal_output
           /\ slot'[i].hal_use = slot[i].hal_use
           /\ UsedCounted' /\ ~slotError' /\ UNCHANGED bufRef
  <1> DEFINE s == slot[i]
             t == slot'[i]
  <1>0. SlotTypes /\ QueuedOnce /\ UsedCounted /\ ~slotError /\ EntryOk(i) /\ s \in SlotEntry
    BY EntriesOk DEF SlotInv, Types, SlotTypes, Stages
  <1>1. /\ OnlyEntry(i)
        /\ t = [s EXCEPT !.queue_use = IF s.queue_use > 0 THEN s.queue_use - 1 ELSE s.queue_use]
        /\ queue'["DISPLAY"] = Without(queue["DISPLAY"], i)
        /\ queue["DISPLAY"] # << >> /\ i = Head(queue["DISPLAY"]) /\ ~s.not_ready
        /\ slotError' = (slotError \/ s.queue_use = 0)
        /\ UNCHANGED <<usedCount, bufRef>>
    BY <1>0, DequeueEffect
  <1>2. InQ(i)
    <2>1. queue["DISPLAY"] \in Seq(Slots)
      BY <1>0 DEF SlotTypes, QueueTypes
    <2>2. 1 \in DOMAIN queue["DISPLAY"] /\ queue["DISPLAY"][1] = i
      BY <1>1, <2>1
    <2> QED  BY <2>2 DEF InQ
  <1>3. QueuedOnce' /\ ~InQ(i)' /\ (\A y : y # i => (InQ(y)' <=> InQ(y)))
    BY <1>0, <1>1, QueueLeft
  <1>4. ~Writing(i) /\ ~ClrOut(i)
    BY <1>0, <1>1 DEF EntryOk, FlagsOf, NotReady
  <1>5. s.queue_use = 2
    <2>1. ~Show(i) /\ ~SetShow(i) /\ hcur # i /\ ~ClrShow(i)
      BY <1>0, <1>2 DEF EntryOk, StageOf
    <2> QED  BY <1>0, <1>2, <2>1 DEF EntryOk, FlagsOf, QueueUses, N, SlotEntry
  <1>6. /\ t.queue_use = 1 /\ t.on_used = s.on_used /\ t.not_ready = s.not_ready
        /\ t.codec_use = s.codec_use /\ t.hal_output = s.hal_output /\ t.hal_use = s.hal_use
    BY <1>0, <1>1, <1>5 DEF SlotEntry
  <1>7. ~slotError'
    <2>1. ~(s.queue_use = 0)
      BY <1>5
    <2> HIDE DEF s
    <2> QED  BY <1>0, <1>1, <2>1, Zenon
  <1>8. UsedCounted'
    <2>1. \A j \in Slots : slot'[j].on_used = slot[j].on_used
      BY <1>1, <1>6 DEF OnlyEntry
    <2> QED  BY <1>0, <1>1, <2>1, CountSame
  <1> QED  BY <1>0, <1>1, <1>2, <1>3, <1>4, <1>5, <1>6, <1>7, <1>8

\* By the hal thread, which shows it.
LEMMA TakenTable == ASSUME SlotInv, NEW i \in Slots, HalDequeue(i) PROVE TableOk'
  <1>0. /\ HalRests /\ ResetSteps /\ Displays /\ EntryOk(i) /\ SlotTypes
    BY EntriesOk DEF SlotInv, Control, Stages, Types
  <1>1. /\ hpc = "push" /\ hcur' = i /\ Dequeue(i, "DISPLAY")
        /\ UNCHANGED <<ref0, ref1, ppc, task, ptodo, htodo, procQ>>
    BY DEF HalDequeue, parserVars
  <1>2. InFlight' = InFlight
    BY FlightSame DEF OtherStep
  <1>3. Calls' = Calls /\ hcur = NoSlot /\ ppc # "drain"
    BY <1>0, <1>1 DEF Calls, HalRests, ResetSteps, HalAtRest
  <1>4. /\ OnlyEntry(i) /\ InQ(i) /\ ~Writing(i) /\ ~ClrOut(i)
        /\ QueuedOnce' /\ ~InQ(i)' /\ (\A y : y # i => (InQ(y)' <=> InQ(y)))
        /\ slot[i].queue_use = 2 /\ slot'[i].queue_use = 1
        /\ slot'[i].on_used = slot[i].on_used /\ slot'[i].not_ready = slot[i].not_ready
        /\ slot'[i].codec_use = slot[i].codec_use /\ slot'[i].hal_output = slot[i].hal_output
        /\ slot'[i].hal_use = slot[i].hal_use
        /\ UsedCounted' /\ ~slotError'
    BY <1>1, DequeueFacts
  <1>5. ASSUME NEW j \in Slots
        PROVE  CallsSame(j) /\ WaySame(j) /\ RefSame(j) /\ ~Forgotten(j) /\ ~Forgotten(j)'
    <2>1. CallsSame(j)
      BY <1>3, CallsKept
    <2> QED  BY <1>1, <1>2, <1>3, <2>1, WayKept DEF RefSame, IsRef, Forgotten
  <1>6. NoSlot \notin Slots
    BY DEF NoSlot, Slots
  <1>7. ASSUME NEW j \in Slots, j # i PROVE EntryOk(j)'
    <2>1. PlaceSame(j)
      BY <1>1, <1>3, <1>4, <1>6, <1>7 DEF PlaceSame
    <2>2. FieldsSame(j)
      BY <1>4, <1>7 DEF FieldsSame, OnlyEntry
    <2>3. ResetSame(j)
      BY <1>5 DEF ResetSame
    <2> QED  BY <1>5, <2>1, <2>2, <2>3, EntrySame
  <1>8. ~Show(i) /\ ~SetShow(i) /\ ~ClrShow(i) /\ ~Forget(i)
    <2>1. ~Show(i) /\ ~SetShow(i) /\ ~ClrShow(i)
      BY <1>0, <1>4 DEF EntryOk, StageOf
    <2>2. ~Forget(i)
      <3>1. Forget(i) => ppc = "drain"
        <4> DEFINE c == <<"reset", i, 0>>
        <4>1. Forget(i) => c \in Calls /\ c[1] = "reset"
          BY DEF Forget
        <4> HIDE DEF c
        <4> QED  BY <4>1, CallFacts DEF CallIs
      <3> QED  BY <1>3, <3>1
    <2> QED  BY <2>1, <2>2
  <1>9. EntryOk(i)'
    <2>1. CallsSame(i) /\ WaySame(i) /\ RefSame(i) /\ ~Forgotten(i) /\ ~Forgotten(i)'
      BY <1>5
    <2>2. StageOf(i)'
      BY <1>0, <1>4, <1>8, <2>1 DEF EntryOk, StageOf, CallsSame, WaySame
    <2>3. InUses(i)' /\ CodecUse(i)' /\ Output(i)' /\ NotReady(i)'
      BY <1>0, <1>4, <2>1 DEF EntryOk, FlagsOf, InUses, CodecUse, Output, NotReady, CallsSame,
         WaySame,
         RefSame, N
    <2>4. QueueUses(i)'
      <3>1. ~Show(i)' /\ ~SetShow(i)' /\ ~ClrShow(i)'
        BY <1>8, <2>1 DEF CallsSame
      <3> QED  BY <1>1, <1>4, <3>1 DEF QueueUses, N
    <2>5. OnUse(i)'
      BY <1>0, <1>1, <1>4, <2>1 DEF EntryOk, FlagsOf, OnUse, Needed, Staged
    <2> QED  BY <1>0, <2>1, <2>2, <2>3, <2>4, <2>5 DEF EntryOk, FlagsOf, CallsSame, RefSame
  <1>10. (Valid(ref0) /\ ~ref0.enqueued => ~Staged(ref0.slot))'
    <2>1. PICK j : j = ref0.slot
      OBVIOUS
    <2>2. Show(j)' <=> Show(j)
      BY <1>3 DEF Show
    <2>3. ClrShow(j)' <=> ClrShow(j)
      BY <1>3 DEF ClrShow
    <2>4. Staged(j)' => Staged(j)
      BY <1>1, <1>4, <2>2, <2>3 DEF Staged
    <2>5. Staged(ref0.slot)' <=> Staged(j)'
      BY <1>1, <2>1 DEF Staged, Show, InQ, ClrShow
    <2> QED  BY <1>0, <1>1, <2>1, <2>4, <2>5 DEF Displays, Valid
  <1>11. (task.parsed /\ ppc # "drain" =>
            (task.out = ref0.slot /\ ~ref0.enqueued) \/ Show(task.out) \/ InQ(task.out))'
    <2> SUFFICES ASSUME task.parsed
                 PROVE  (task.out = ref0.slot /\ ~ref0.enqueued) \/ Show(task.out)' \/ InQ(task.out)'
      BY <1>1
    <2>1. PICK j : j = task.out
      OBVIOUS
    <2>2. Writing(j)
      BY <1>3, <2>1, ParsedTask DEF Writing, HalTask
    <2>3. j # i
      BY <1>4, <2>2
    <2>4. InQ(j)' <=> InQ(j)
      BY <1>4, <2>3
    <2>5. Show(j)' <=> Show(j)
      BY <1>3 DEF Show
    <2>6. (Show(task.out)' <=> Show(j)') /\ (InQ(task.out)' <=> InQ(j)')
      BY <1>1, <2>1 DEF Show, InQ
    <2> QED  BY <1>0, <1>3, <2>1, <2>4, <2>5, <2>6 DEF Displays
  <1>12. \A j \in Slots : EntryOk(j)'
    BY <1>7, <1>9
  <1> QED  BY <1>4, <1>10, <1>11, <1>12, EntriesStep DEF TableOk

\* By a reset, which throws it away.
LEMMA DrainTable == ASSUME SlotInv, NEW i \in Slots, ResetDrain(i) PROVE TableOk'
  <1>0. /\ HalRests /\ ResetSteps /\ EntryOk(i) /\ SlotTypes
    BY EntriesOk DEF SlotInv, Control, Types
  <1>1. /\ ppc = "drain" /\ ptodo = << >> /\ ptodo' = DrainCalls(i) /\ Dequeue(i, "DISPLAY")
        /\ UNCHANGED <<ref0, ref1, ppc, task, htodo, procQ, hcur>>
    BY DEF ResetDrain, halVars
  <1>2. InFlight' = InFlight
    BY FlightSame DEF OtherStep
  <1>3. htodo = << >> /\ ref0 = NoRef
    BY <1>0, <1>1 DEF HalRests, ResetSteps, HalAtRest
  <1>4. Calls = {} /\ Calls' = DrainSet(i)
    BY <1>1, <1>3, NoCalls, DrainLists DEF Calls, Lists
  <1>5. /\ OnlyEntry(i) /\ InQ(i) /\ ~Writing(i) /\ ~ClrOut(i)
        /\ QueuedOnce' /\ ~InQ(i)' /\ (\A y : y # i => (InQ(y)' <=> InQ(y)))
        /\ slot[i].queue_use = 2 /\ slot'[i].queue_use = 1
        /\ slot'[i].on_used = slot[i].on_used /\ slot'[i].not_ready = slot[i].not_ready
        /\ slot'[i].codec_use = slot[i].codec_use /\ slot'[i].hal_output = slot[i].hal_output
        /\ slot'[i].hal_use = slot[i].hal_use
        /\ UsedCounted' /\ ~slotError'
    BY <1>1, DequeueFacts
  <1>6. ASSUME NEW j \in Slots
        PROVE  /\ ~SetOut(j)' /\ ~SetIn(j)' /\ ~SetRef(j)' /\ ~SetShow(j)' /\ ~Show(j)' /\ ~ClrOut(j)'
               /\ ~ClrIn(j)' /\ ~ClrRef(j)' /\ (ClrShow(j)' <=> j = i) /\ ~Forget(j)'
    BY <1>4 DEF DrainSet, SetOut, SetIn, SetRef, SetShow, Show, ClrOut, ClrIn, ClrRef, ClrShow,
       Forget
  <1>7. ASSUME NEW j \in Slots
        PROVE  /\ ~SetOut(j) /\ ~SetIn(j) /\ ~SetRef(j) /\ ~SetShow(j) /\ ~Show(j) /\ ~ClrOut(j)
               /\ ~ClrIn(j) /\ ~ClrRef(j) /\ ~ClrShow(j) /\ ~Forget(j)
    BY <1>4 DEF SetOut, SetIn, SetRef, SetShow, Show, ClrOut, ClrIn, ClrRef, ClrShow, Forget
  <1>8. ASSUME NEW j \in Slots
        PROVE  WaySame(j) /\ RefSame(j) /\ ResetSame(j) /\ (hcur' = j <=> hcur = j)
    BY <1>1, <1>2, <1>6, <1>7, WayKept DEF RefSame, IsRef, ResetSame, Forgotten
  <1>9. ASSUME NEW j \in Slots, j # i PROVE EntryOk(j)'
    <2>1. CallsSame(j) /\ PlaceSame(j)
      BY <1>5, <1>6, <1>7, <1>8, <1>9 DEF CallsSame, PlaceSame
    <2>2. FieldsSame(j)
      BY <1>5, <1>9 DEF FieldsSame, OnlyEntry
    <2> QED  BY <1>8, <2>1, <2>2, EntrySame
  <1>10. EntryOk(i)'
    <2>1. ~Forgotten(i) /\ hcur # i
      BY <1>0, <1>5 DEF EntryOk, StageOf, Staged
    <2>2. ~Forgotten(i)' /\ hcur' # i
      BY <1>8, <2>1 DEF ResetSame
    <2>3. StageOf(i)'
      BY <1>5, <1>6, <1>8, <2>2 DEF StageOf, WaySame
    <2>4. InUses(i)' /\ CodecUse(i)' /\ Output(i)' /\ NotReady(i)'
      BY <1>0, <1>5, <1>6, <1>7, <1>8 DEF EntryOk, FlagsOf, InUses, CodecUse, Output, NotReady,
         WaySame,
         RefSame, N
    <2>5. QueueUses(i)'
      BY <1>5, <1>6, <2>2 DEF QueueUses, N
    <2>6. OnUse(i)'
      BY <1>0, <1>5, <1>6, <2>1, <2>2 DEF EntryOk, FlagsOf, OnUse, Needed, Staged
    <2> QED  BY <1>6, <2>3, <2>4, <2>5, <2>6 DEF EntryOk, FlagsOf
  <1>11. (Valid(ref0) /\ ~ref0.enqueued => ~Staged(ref0.slot))'
    BY <1>1, <1>3 DEF Valid, NoRef
  <1>12. \A j \in Slots : EntryOk(j)'
    BY <1>9, <1>10
  <1> QED  BY <1>1, <1>5, <1>11, <1>12, EntriesStep DEF TableOk

\* The hal thread gives the frame away, and the queue's last use is to go.
LEMMA PutTable == ASSUME SlotInv, HalPut PROVE TableOk'
  <1>0. /\ HalRests /\ ResetSteps /\ Displays /\ UsedCounted /\ ~slotError /\ hcur \in Entries
        /\ QueuedOnce
    BY DEF SlotInv, Control, Stages, Types, HalTypes
  <1>1. /\ hpc = "put" /\ hcur' = NoSlot /\ htodo = << >> /\ htodo' = << <<"clr", hcur, "QUEUE_USE">> >>
        /\ UNCHANGED <<slot, queue, usedCount, slotError, ref0, ref1, ppc, task, ptodo, procQ>>
    BY <1>0 DEF HalPut, HalRests, slotVars, parserVars
  <1>2. InFlight' = InFlight
    BY FlightSame DEF OtherStep
  <1>3. PICK i \in Slots : i = hcur
    BY <1>0, <1>1 DEF HalRests, Entries
  <1>4. CallsIn(htodo') = {<<"clr", i, "QUEUE_USE">>}
    <2> DEFINE c == <<"clr", i, "QUEUE_USE">>
    <2>1. c \in SlotCalls
      BY DEF SlotCalls, Flags
    <2> HIDE DEF c
    <2>2. CallsIn(<< c >>) = {c}
      BY <2>1, OneCall
    <2> QED  BY <1>1, <1>3, <2>2 DEF c
  <1>5. Calls' = Calls \cup {<<"clr", i, "QUEUE_USE">>}
    BY <1>1, <1>4, NoCalls DEF Calls
  <1>6. ASSUME NEW j
        PROVE  /\ SetOut(j)' <=> SetOut(j)
               /\ SetIn(j)' <=> SetIn(j)
               /\ SetRef(j)' <=> SetRef(j)
               /\ SetShow(j)' <=> SetShow(j)
               /\ Show(j)' <=> Show(j)
               /\ ClrOut(j)' <=> ClrOut(j)
               /\ ClrIn(j)' <=> ClrIn(j)
               /\ ClrRef(j)' <=> ClrRef(j)
               /\ ClrShow(j)' <=> ClrShow(j) \/ j = i
               /\ Forget(j)' <=> Forget(j)
    BY <1>5 DEF SetOut, SetIn, SetRef, SetShow, Show, ClrOut, ClrIn, ClrRef, ClrShow, Forget
  <1>7. ASSUME NEW j \in Slots
        PROVE  /\ WaySame(j) /\ RefSame(j) /\ ResetSame(j) /\ (InQ(j)' <=> InQ(j)) /\ FieldsSame(j)
               /\ hcur' # j
    <2>1. NoSlot \notin Slots
      BY DEF NoSlot, Slots
    <2> QED  BY <1>1, <1>2, <1>6, <2>1, WayKept, QueueSame DEF RefSame, IsRef, ResetSame, Forgotten,
                FieldsSame
  <1>8. ASSUME NEW j \in Slots, j # i PROVE EntryOk(j)'
    <2>1. CallsSame(j) /\ PlaceSame(j)
      BY <1>3, <1>6, <1>7, <1>8 DEF CallsSame, PlaceSame
    <2> QED  BY <1>7, <2>1, EntrySame
  <1>9. EntryOk(i)'
    <2>1. EntryOk(i)
      BY EntriesOk
    <2>2. ~InQ(i) /\ ~ClrShow(i) /\ ~Show(i) /\ ~Writing(i) /\ ~ClrOut(i) /\ ~Forgotten(i)
      BY <1>3, <2>1 DEF EntryOk, StageOf, Staged
    <2>3. StageOf(i)'
      BY <1>6, <1>7, <2>1, <2>2 DEF EntryOk, StageOf, WaySame, ResetSame
    <2>4. InUses(i)' /\ CodecUse(i)' /\ Output(i)' /\ NotReady(i)'
      BY <1>6, <1>7, <2>1 DEF EntryOk, FlagsOf, InUses, CodecUse, Output, NotReady, WaySame,
         RefSame, FieldsSame, N
    <2>5. QueueUses(i)'
      <3>1. /\ slot'[i].queue_use = slot[i].queue_use
            /\ SetShow(i)' <=> SetShow(i)
            /\ ~InQ(i)' /\ hcur' # i /\ ClrShow(i)' /\ ~Show(i)'
        BY <1>6, <1>7, <2>2 DEF FieldsSame
      <3>2. slot[i].queue_use + N(SetShow(i)) = 1
        BY <1>3, <2>1, <2>2 DEF EntryOk, FlagsOf, QueueUses, N
      <3> QED  BY <3>1, <3>2 DEF QueueUses, N
    <2>6. OnUse(i)'
      BY <1>3, <1>6, <1>7, <2>1, <2>2 DEF EntryOk, FlagsOf, OnUse, Needed, Staged, FieldsSame,
         ResetSame
    <2> QED  BY <1>6, <1>7, <2>1, <2>3, <2>4, <2>5, <2>6 DEF EntryOk, FlagsOf, RefSame
  <1>10. (Valid(ref0) /\ ~ref0.enqueued => ~Staged(ref0.slot))'
    <2>1. PICK j : j = ref0.slot
      OBVIOUS
    <2>2. InQ(j)' <=> InQ(j)
      BY <1>1, QueueSame
    <2>3. Staged(j)' => Staged(j) \/ j = NoSlot
      BY <1>1, <1>3, <1>6, <2>2 DEF Staged
    <2>4. Staged(ref0.slot)' <=> Staged(j)'
      BY <1>1, <2>1 DEF Staged, Show, InQ, ClrShow
    <2> QED  BY <1>0, <1>1, <2>1, <2>3, <2>4 DEF Displays, Valid
  <1>11. (task.parsed /\ ppc # "drain" =>
            (task.out = ref0.slot /\ ~ref0.enqueued) \/ Show(task.out) \/ InQ(task.out))'
    <2>1. PICK j : j = task.out
      OBVIOUS
    <2>2. (Show(j)' <=> Show(j)) /\ (InQ(j)' <=> InQ(j))
      BY <1>1, <1>6, QueueSame
    <2>3. (Show(task.out)' <=> Show(j)') /\ (InQ(task.out)' <=> InQ(j)')
      BY <1>1, <2>1 DEF Show, InQ
    <2> QED  BY <1>0, <1>1, <2>1, <2>2, <2>3 DEF Displays
  <1>12. QueuedOnce' /\ UsedCounted' /\ ~slotError'
    BY <1>0, <1>1, QueueSame, CountSame
  <1>13. \A j \in Slots : EntryOk(j)'
    BY <1>8, <1>9
  <1> QED  BY <1>10, <1>11, <1>12, <1>13, EntriesStep DEF TableOk

\* The end of a reset: the entry it gave up has no user left.
LEMMA ResetDoneTable == ASSUME SlotInv, ResetDone PROVE TableOk'
  <1>0. /\ HalRests /\ ResetSteps /\ UsedCounted /\ ~slotError /\ QueuedOnce
    BY DEF SlotInv, Control, Stages
  <1>1. /\ ppc = "drain" /\ ppc' = "top" /\ ptodo = << >> /\ htodo = << >> /\ ref0 = NoRef
        /\ ref1 = NoRef /\ hpc = "top" /\ procQ = << >> /\ hcur = NoSlot /\ task' = NoTask
        /\ UNCHANGED <<slot, queue, usedCount, slotError, ref0, ref1, ptodo, htodo, hcur, procQ>>
    BY <1>0 DEF ResetDone, HalRests, ResetSteps, HalAtRest, slotVars, halVars
  <1>2. InFlight' = InFlight /\ InFlight = {}
    <2>1. InFlight = {}
      BY <1>1 DEF InFlight, Sent, Waiting
    <2> QED  BY <2>1, FlightSame DEF OtherStep
  <1>3. Calls = {} /\ Calls' = {}
    BY <1>1, NoCalls DEF Calls
  <1>4. ASSUME NEW i \in Slots
        PROVE  CallsSame(i) /\ WaySame(i) /\ PlaceSame(i) /\ RefSame(i) /\ FieldsSame(i)
               /\ ~Forgotten(i)'
    <2>1. CallsSame(i)
      BY <1>3, CallsKept
    <2> QED  BY <1>1, <1>2, <2>1, WayKept, QueueSame DEF RefSame, IsRef, PlaceSame, FieldsSame,
                Forgotten
  <1>5. ASSUME NEW i \in Slots PROVE EntryOk(i)'
    <2>1. CASE ~Forgotten(i)
      BY <1>4, <2>1, EntrySame DEF ResetSame
    <2>2. CASE Forgotten(i)
      <3>1. EntryOk(i)
        BY EntriesOk
      <3>2. StageOf(i)'
        BY <1>4, <3>1 DEF EntryOk, StageOf, CallsSame, WaySame, PlaceSame
      <3>3. InUses(i)' /\ QueueUses(i)' /\ CodecUse(i)' /\ Output(i)' /\ NotReady(i)'
        <4>1. InUses(i)' /\ CodecUse(i)' /\ Output(i)' /\ NotReady(i)'
          BY <1>4, <3>1 DEF EntryOk, FlagsOf, InUses, CodecUse, Output, NotReady, CallsSame,
             WaySame,
             RefSame, FieldsSame, N
        <4>2. QueueUses(i)'
          BY <1>4, <3>1 DEF EntryOk, FlagsOf, QueueUses, CallsSame, PlaceSame, FieldsSame, N
        <4> QED  BY <4>1, <4>2
      <3>4. ~Needed(i)'
        <4>1. ~Staged(i)'
          BY <1>4, <2>2, <3>1 DEF EntryOk, StageOf, Staged, CallsSame, PlaceSame
        <4>2. ~IsRef(i)'
          BY <1>1 DEF IsRef, NoRef, NoSlot, Slots
        <4>3. ~ClrOut(i)' /\ ~ClrIn(i)' /\ ~ClrRef(i)'
          BY <1>3 DEF ClrOut, ClrIn, ClrRef
        <4>4. ~Writing(i)'
          BY <1>2 DEF Writing
        <4>5. ~(Reads(i)' > 0)
          <5>1. ReadsOf(i, 1) = {} /\ ReadsOf(i, 2) = {}
            BY <1>2 DEF ReadsOf
          <5>2. Cardinality(ReadsOf(i, 1)) = 0 /\ Cardinality(ReadsOf(i, 2)) = 0
            BY <5>1, FS_EmptySet
          <5>3. Reads(i) = 0
            BY <5>2, ReadsCount
          <5> QED  BY <1>4, <5>3 DEF WaySame
        <4> QED  BY <4>1, <4>2, <4>3, <4>4, <4>5 DEF Needed
      <3>5. OnUse(i)'
        BY <1>4, <2>2, <3>1, <3>4 DEF EntryOk, FlagsOf, OnUse, FieldsSame
      <3> QED  BY <1>4, <3>1, <3>2, <3>3, <3>5 DEF EntryOk, FlagsOf, CallsSame, RefSame
    <2> QED  BY <2>1, <2>2
  <1>6. (Valid(ref0) /\ ~ref0.enqueued => ~Staged(ref0.slot))'
    BY <1>1 DEF Valid, NoRef
  <1>7. ~task'.parsed
    BY <1>1 DEF NoTask
  <1>8. QueuedOnce' /\ UsedCounted' /\ ~slotError'
    BY <1>0, <1>1, QueueSame, CountSame
  <1> QED  BY <1>5, <1>6, <1>7, <1>8, EntriesStep DEF TableOk

-----------------------------------------------------------------------------
(* A picture is parsed, finished, or given up *)

\* A task that leaves reads no entry any more.
LEMMA ReadsRemoved ==
    ASSUME SlotInv, NEW t \in InFlight, InFlight' = InFlight \ {t}, NEW j
    PROVE  Reads(j)' = Reads(j) - N(t.refer[1] = j) - N(t.refer[2] = j)
  <1>1. ASSUME NEW n \in {1, 2}
        PROVE  Cardinality(ReadsOf(j, n)') = Cardinality(ReadsOf(j, n)) - N(t.refer[n] = j)
    <2>1. ReadsOf(j, n)' = ReadsOf(j, n) \ {t}
      BY DEF ReadsOf
    <2>2. t \in ReadsOf(j, n) <=> t.refer[n] = j
      BY DEF ReadsOf
    <2>3. IsFiniteSet(ReadsOf(j, n)) /\ Cardinality(ReadsOf(j, n)) \in Nat
      BY ReadsCount
    <2>4. Cardinality(ReadsOf(j, n) \ {t}) =
             IF t \in ReadsOf(j, n) THEN Cardinality(ReadsOf(j, n)) - 1 ELSE Cardinality(ReadsOf(j, n))
      BY <2>3, FS_RemoveElement
    <2> QED  BY <2>1, <2>2, <2>3, <2>4 DEF N
  <1>2. Reads(j) = Cardinality(ReadsOf(j, 1)) + Cardinality(ReadsOf(j, 2))
        /\ Cardinality(ReadsOf(j, 1)) \in Nat /\ Cardinality(ReadsOf(j, 2)) \in Nat
    BY ReadsCount
  <1>3. Reads(j)' = Cardinality(ReadsOf(j, 1)') + Cardinality(ReadsOf(j, 2)')
    BY DEF Reads, Uses, ReadsOf
  <1>4. N(t.refer[1] = j) \in Int /\ N(t.refer[2] = j) \in Int
    BY DEF N
  <1> QED  BY <1>1, <1>2, <1>3, <1>4

\* A task that joins reads its two references.
LEMMA ReadsAdded ==
    ASSUME SlotInv, NEW t, t \notin InFlight, InFlight' = InFlight \cup {t}, NEW j
    PROVE  Reads(j)' = Reads(j) + N(t.refer[1] = j) + N(t.refer[2] = j)
  <1>1. ASSUME NEW n \in {1, 2}
        PROVE  Cardinality(ReadsOf(j, n)') = Cardinality(ReadsOf(j, n)) + N(t.refer[n] = j)
    <2>1. ReadsOf(j, n)' = IF t.refer[n] = j THEN ReadsOf(j, n) \cup {t} ELSE ReadsOf(j, n)
      BY DEF ReadsOf
    <2>2. t \notin ReadsOf(j, n)
      BY DEF ReadsOf
    <2>3. IsFiniteSet(ReadsOf(j, n)) /\ Cardinality(ReadsOf(j, n)) \in Nat
      BY ReadsCount
    <2>4. Cardinality(ReadsOf(j, n) \cup {t}) = Cardinality(ReadsOf(j, n)) + 1
      BY <2>2, <2>3, FS_AddElement
    <2> QED  BY <2>1, <2>3, <2>4 DEF N
  <1>2. Reads(j) = Cardinality(ReadsOf(j, 1)) + Cardinality(ReadsOf(j, 2))
        /\ Cardinality(ReadsOf(j, 1)) \in Nat /\ Cardinality(ReadsOf(j, 2)) \in Nat
    BY ReadsCount
  <1>3. Reads(j)' = Cardinality(ReadsOf(j, 1)') + Cardinality(ReadsOf(j, 2)')
    BY DEF Reads, Uses, ReadsOf
  <1>4. N(t.refer[1] = j) \in Int /\ N(t.refer[2] = j) \in Int
    BY DEF N
  <1> QED  BY <1>1, <1>2, <1>3, <1>4

\* What the hal thread and the parser thread have in hand when the hardware is done.
LEMMA DoneFacts ==
    ASSUME SlotInv, HwDone
    PROVE  /\ hal \in InFlight /\ InFlight' = InFlight \ {hal}
           /\ Calls' = Calls \cup DoneSet(hal) \cup (IF EndsStream(hal) THEN FlushSet(ref0) ELSE {})
           /\ ref0' = (IF EndsStream(hal) THEN Flushed(ref0) ELSE ref0)
           /\ EndsStream(hal) => ~task.parsed
           /\ hcur = NoSlot /\ ppc # "drain"
           /\ UNCHANGED <<slot, queue, hcur, usedCount, slotError, ref1, task, ppc>>
           /\ \A j : ~ClrOut(j) /\ ~ClrIn(j) /\ ~ClrShow(j) /\ ~Forget(j)
           /\ ~SetOut(hal.out)
           /\ \A t \in InFlight : t.out = hal.out => t = hal
  <1>0. /\ HalRests /\ ResetSteps /\ EndsParsing /\ ParserRests /\ TasksDiffer
        /\ ParserCalls /\ ref0 \in Refs
    BY DEF SlotInv, Control, OnTheWay, Todo, Types, ParserTypes
  <1>1. /\ hpc = "hw" /\ htodo' = HwDoneCalls(hal) \o If(EndsStream(hal), FlushCalls(ref0))
        /\ ref0' = (IF EndsStream(hal) THEN Flushed(ref0) ELSE ref0)
        /\ UNCHANGED <<slot, queue, hcur, usedCount, slotError, ref1, task, ppc, ptodo>>
    BY Zenon DEF HwDone, slotVars
  <1>2. hcur = NoSlot /\ ppc # "drain" /\ htodo = << >>
    BY <1>0, <1>1 DEF HalRests, ResetSteps, HalAtRest
  <1>3. /\ hal \in InFlight /\ hal \in HalJobs /\ hal = procQ[1] /\ 1 \in DOMAIN procQ
        /\ hal.kind = "frame" /\ hal.out \in Slots /\ hal.refer \in Entries \X Entries
        /\ hal.refer[1] # NoSlot => hal.refer[1] # hal.refer[2]
    BY <1>1, HwTask
  <1>4. EndsStream(hal) \in BOOLEAN
    BY <1>3 DEF EndsStream, HalJobs
  <1>5. CallsIn(htodo') = DoneSet(hal) \cup (IF EndsStream(hal) THEN FlushSet(ref0) ELSE {})
    <2>1. Lists(htodo', DoneSet(hal) \cup (IF EndsStream(hal) THEN FlushSet(ref0) ELSE {}))
      BY <1>0, <1>1, <1>3, <1>4, FinishLists
    <2> QED  BY <2>1 DEF Lists
  <1>6. Calls = CallsIn(ptodo)
    BY <1>2, NoCalls DEF Calls
  <1>7. Calls' = Calls \cup DoneSet(hal) \cup (IF EndsStream(hal) THEN FlushSet(ref0) ELSE {})
    BY <1>1, <1>5, <1>6 DEF Calls
  <1>8. EndsStream(hal) => ~task.parsed
    BY <1>0 DEF EndsParsing, EndsStream
  <1>9. \A j : ~ClrOut(j) /\ ~ClrIn(j) /\ ~ClrShow(j) /\ ~Forget(j)
    BY <1>0, <1>2, <1>6 DEF ParserCalls, ClrOut, ClrIn, ClrShow, Forget
  <1>10. ~SetOut(hal.out)
    <2> SUFFICES ASSUME SetOut(hal.out) PROVE FALSE
      OBVIOUS
    <2>1. ppc = "check" /\ hal.out = task.out
      BY <1>0, <1>6 DEF ParserCalls, SetOut
    <2>2. task.parsed
      BY <1>0, <2>1 DEF ParserRests
    <2> QED  BY <1>0, <1>3, <2>1, <2>2 DEF TasksDiffer
  <1>11. ASSUME NEW t \in InFlight, t.out = hal.out PROVE t = hal
    <2>1. CASE t \in Sent
      <3>1. PICK k \in DOMAIN procQ : procQ[k].kind = "frame" /\ t = procQ[k]
        BY <2>1 DEF Sent
      <3> QED  BY <1>0, <1>3, <1>11, <3>1 DEF TasksDiffer
    <2>2. CASE t \in Waiting
      <3>1. task.parsed /\ t.out = task.out
        BY <2>2 DEF Waiting, HalTask
      <3> QED  BY <1>0, <1>3, <1>11, <3>1 DEF TasksDiffer
    <2> QED  BY <2>1, <2>2 DEF InFlight
  <1>12. InFlight' = InFlight \ {hal}
    BY FlightDone
  <1> QED  BY <1>1, <1>2, <1>3, <1>7, <1>8, <1>9, <1>10, <1>11, <1>12

\* The hardware has finished a picture.
LEMMA DoneTable == ASSUME SlotInv, HwDone PROVE TableOk'
  <1> DEFINE E == EndsStream(hal) /\ Flushes
             r1 == hal.refer[1]
             r2 == hal.refer[2]
  <1>0. /\ QueuedOnce /\ Displays /\ UsedCounted /\ ~slotError /\ ref0 \in Refs /\ SlotTypes
    BY DEF SlotInv, Stages, Types, ParserTypes
  <1>1. /\ hal \in InFlight /\ InFlight' = InFlight \ {hal}
        /\ Calls' = Calls \cup DoneSet(hal) \cup (IF EndsStream(hal) THEN FlushSet(ref0) ELSE {})
        /\ ref0' = (IF EndsStream(hal) THEN Flushed(ref0) ELSE ref0)
        /\ EndsStream(hal) => ~task.parsed
        /\ hcur = NoSlot /\ ppc # "drain"
        /\ UNCHANGED <<slot, queue, hcur, usedCount, slotError, ref1, task, ppc>>
        /\ \A j : ~ClrOut(j) /\ ~ClrIn(j) /\ ~ClrShow(j) /\ ~Forget(j)
        /\ ~SetOut(hal.out)
        /\ \A t \in InFlight : t.out = hal.out => t = hal
    BY DoneFacts
  <1>2. hal.out \in Slots /\ (r1 # NoSlot => r1 # r2)
    BY HwTask DEF HwDone
  <1>3. ref0'.slot = ref0.slot /\ (EndsStream(hal) => ref0'.enqueued = (Valid(ref0) \/ ref0.enqueued))
    BY <1>0, <1>1, FlushedTypes
  <1>4. ASSUME NEW c
        PROVE  c \in Calls' <=>
                 \/ c \in Calls \/ c = <<"clr", hal.out, "HAL_OUTPUT">>
                 \/ r1 # NoSlot /\ c = <<"clr", r1, "HAL_INPUT">>
                 \/ r2 # NoSlot /\ c = <<"clr", r2, "HAL_INPUT">>
                 \/ E /\ (c = <<"set", ref0.slot, "QUEUE_USE">> \/ c = <<"enqueue", ref0.slot, "DISPLAY">>)
    <2>1. c \in DoneSet(hal) <=>
                 \/ c = <<"clr", hal.out, "HAL_OUTPUT">>
                 \/ r1 # NoSlot /\ c = <<"clr", r1, "HAL_INPUT">>
                 \/ r2 # NoSlot /\ c = <<"clr", r2, "HAL_INPUT">>
      BY DEF DoneSet, ClrInSet
    <2>2. c \in FlushSet(ref0) <=> Flushes /\ (c = <<"set", ref0.slot, "QUEUE_USE">>
                                                 \/ c = <<"enqueue", ref0.slot, "DISPLAY">>)
      BY DEF FlushSet, ShowSet, Flushes
    <2> QED  BY <1>1, <2>1, <2>2, Zenon
  <1> HIDE DEF E
  <1>5. ASSUME NEW j \in Slots
        PROVE  /\ SetOut(j)' <=> SetOut(j)
               /\ SetIn(j)' <=> SetIn(j)
               /\ SetRef(j)' <=> SetRef(j)
               /\ SetShow(j)' <=> SetShow(j) \/ (E /\ j = ref0.slot)
               /\ Show(j)' <=> Show(j) \/ (E /\ j = ref0.slot)
               /\ ClrOut(j)' <=> j = hal.out
               /\ ClrIn(j)' <=> j = r1 \/ j = r2
               /\ ClrRef(j)' <=> ClrRef(j)
               /\ ~ClrShow(j)'
               /\ ~Forget(j)'
    <2>0. j # NoSlot
      BY DEF NoSlot, Slots
    <2>1. /\ SetOut(j)' <=> SetOut(j)
          /\ SetIn(j)' <=> SetIn(j)
          /\ SetRef(j)' <=> SetRef(j)
      BY <1>4 DEF SetOut, SetIn, SetRef
    <2>2. SetShow(j)' <=> SetShow(j) \/ (E /\ j = ref0.slot)
      BY <1>4 DEF SetShow
    <2>3. Show(j)' <=> Show(j) \/ (E /\ j = ref0.slot)
      BY <1>4 DEF Show
    <2>4. ClrOut(j)' <=> j = hal.out
      BY <1>1, <1>4 DEF ClrOut
    <2>5. ClrIn(j)' <=> j = r1 \/ j = r2
      BY <1>1, <1>4, <2>0 DEF ClrIn
    <2>6. (ClrRef(j)' <=> ClrRef(j)) /\ ~ClrShow(j)' /\ ~Forget(j)'
      BY <1>1, <1>4 DEF ClrRef, ClrShow, Forget
    <2> QED  BY <2>1, <2>2, <2>3, <2>4, <2>5, <2>6
  <1>6. ASSUME NEW j \in Slots
        PROVE  /\ Writing(j)' <=> Writing(j) /\ j # hal.out
               /\ Writing(hal.out)
               /\ Reads(j)' = Reads(j) - N(r1 = j) - N(r2 = j) /\ Reads(j) \in Nat /\ Reads(j)' \in Int
               /\ Reads(j)' >= 0
    <2>1. Writing(j)' <=> Writing(j) /\ j # hal.out
      BY <1>1 DEF Writing
    <2>2. Reads(j)' = Reads(j) - N(r1 = j) - N(r2 = j)
      BY <1>1, ReadsRemoved
    <2>3. Reads(j) = Cardinality(ReadsOf(j, 1)) + Cardinality(ReadsOf(j, 2))
          /\ IsFiniteSet(ReadsOf(j, 1)) /\ IsFiniteSet(ReadsOf(j, 2))
          /\ Cardinality(ReadsOf(j, 1)) \in Nat /\ Cardinality(ReadsOf(j, 2)) \in Nat
      BY ReadsCount
    <2>4. (r1 = j => Cardinality(ReadsOf(j, 1)) # 0) /\ (r2 = j => Cardinality(ReadsOf(j, 2)) # 0)
      <3>1. (r1 = j => hal \in ReadsOf(j, 1)) /\ (r2 = j => hal \in ReadsOf(j, 2))
        BY <1>1 DEF ReadsOf
      <3>2. \A S : IsFiniteSet(S) /\ hal \in S => Cardinality(S) # 0
        BY FS_EmptySet
      <3> QED  BY <2>3, <3>1, <3>2
    <2> QED  BY <1>1, <2>1, <2>2, <2>3, <2>4 DEF Writing, N
  <1>7. ASSUME NEW j \in Slots
        PROVE  /\ PlaceSame(j) /\ RefSame(j) /\ FieldsSame(j) /\ ~Forgotten(j) /\ ~Forgotten(j)'
               /\ hcur # j /\ hcur' # j /\ EntryOk(j)
    <2>1. hcur # j
      BY <1>1 DEF NoSlot, Slots
    <2> QED  BY <1>1, <1>3, <2>1, EntriesOk, QueueSame DEF PlaceSame, RefSame, IsRef, FieldsSame,
                Forgotten
  <1>8. E => ~Staged(ref0.slot) /\ IsRef(ref0.slot)
    BY <1>0 DEF E, Flushes, Displays, IsRef
  <1>9. ASSUME NEW j \in Slots PROVE EntryOk(j)'
    <2>1. StageOf(j)'
      BY <1>1, <1>5, <1>6, <1>7, <1>8 DEF EntryOk, StageOf, Staged, PlaceSame
    <2>2. InUses(j)'
      <3>1. slot[j].hal_use + N(SetIn(j)) = Reads(j)
        BY <1>1, <1>6, <1>7 DEF EntryOk, FlagsOf, InUses, N
      <3>2. N(r1 = j) + N(r2 = j) = N(ClrIn(j)')
        <4>1. ~(r1 = j /\ r2 = j)
          BY <1>2 DEF NoSlot, Slots
        <4> QED  BY <1>5, <4>1 DEF N
      <3>3. slot'[j].hal_use = slot[j].hal_use /\ N(SetIn(j)') = N(SetIn(j))
        BY <1>5, <1>7 DEF FieldsSame, N
      <3>4. N(r1 = j) \in Int /\ N(r2 = j) \in Int /\ N(ClrIn(j)') \in Int
        BY DEF N
      <3>5. slot'[j].hal_use + N(SetIn(j)') = Reads(j)' + N(ClrIn(j)')
        BY <1>6, <3>1, <3>2, <3>3, <3>4
      <3> QED  BY <3>5 DEF InUses
    <2>3. QueueUses(j)'
      <3>1. E /\ j = ref0.slot => ~Show(j) /\ ~SetShow(j)
        BY <1>7, <1>8 DEF EntryOk, StageOf, Staged
      <3>2. slot'[j].queue_use = slot[j].queue_use /\ slot[j].queue_use \in Nat
        <4>1. slot[j] \in SlotEntry
          BY <1>0 DEF SlotTypes
        <4> QED  BY <1>7, <4>1 DEF FieldsSame, SlotEntry
      <3>3. slot[j].queue_use + N(SetShow(j)) = (IF InQ(j) THEN 2 ELSE 0) + N(Show(j))
        BY <1>1, <1>7 DEF EntryOk, FlagsOf, QueueUses, N
      <3> QED  BY <1>5, <1>7, <3>1, <3>2, <3>3 DEF QueueUses, PlaceSame, N
    <2>4. CodecUse(j)' /\ Output(j)' /\ NotReady(j)'
      <3>1. CodecUse(j)'
        BY <1>5, <1>7 DEF EntryOk, FlagsOf, CodecUse, RefSame, FieldsSame
      <3>2. Output(j)'
        BY <1>1, <1>5, <1>6, <1>7 DEF EntryOk, FlagsOf, Output, FieldsSame
      <3>3. NotReady(j)'
        BY <1>1, <1>5, <1>6, <1>7 DEF EntryOk, FlagsOf, NotReady, FieldsSame
      <3> QED  BY <3>1, <3>2, <3>3
    <2>5. OnUse(j)'
      <3>1. Staged(j)' <=> Staged(j) \/ (E /\ j = ref0.slot)
        BY <1>1, <1>5, <1>7 DEF Staged, PlaceSame
      <3>2. Reads(j) > 0 <=> Reads(j)' > 0 \/ r1 = j \/ r2 = j
        BY <1>6 DEF N
      <3>3. Needed(j)' <=> Needed(j)
        BY <1>1, <1>5, <1>6, <1>7, <1>8, <3>1, <3>2 DEF Needed, RefSame
      <3> QED  BY <1>7, <3>3 DEF EntryOk, FlagsOf, OnUse, FieldsSame
    <2> QED  BY <1>5, <1>7, <2>1, <2>2, <2>3, <2>4, <2>5 DEF EntryOk, FlagsOf, RefSame
  <1>10. (Valid(ref0) /\ ~ref0.enqueued => ~Staged(ref0.slot))'
    <2> SUFFICES ASSUME Valid(ref0'), ~ref0'.enqueued PROVE ~Staged(ref0.slot)'
      BY DEF Valid
    <2>1. PICK j \in Slots : j = ref0.slot
      BY <1>0, <1>3 DEF Valid, Refs, Entries
    <2>2. ~EndsStream(hal)
      BY <1>0, <1>1, <1>3 DEF Valid
    <2>3. ~Staged(j)
      BY <1>0, <1>1, <2>1, <2>2 DEF Displays, Valid
    <2>4. ~Staged(j)'
      BY <1>5, <1>7, <2>2, <2>3 DEF Staged, PlaceSame, E
    <2> QED  BY <1>3, <2>1, <2>4 DEF Staged, Show, InQ, ClrShow
  <1>11. (task.parsed /\ ppc # "drain" =>
            (task.out = ref0.slot /\ ~ref0.enqueued) \/ Show(task.out) \/ InQ(task.out))'
    <2> SUFFICES ASSUME task.parsed
                 PROVE  (task.out = ref0'.slot /\ ~ref0'.enqueued) \/ Show(task.out)' \/ InQ(task.out)'
      BY <1>1
    <2>1. PICK j \in Slots : j = task.out
      BY ParsedTask
    <2>2. ~EndsStream(hal) /\ ref0' = ref0
      BY <1>1
    <2>3. (Show(j) => Show(j)') /\ (InQ(j)' <=> InQ(j))
      BY <1>5, <1>7 DEF PlaceSame
    <2>4. (Show(task.out)' <=> Show(j)') /\ (InQ(task.out)' <=> InQ(j)')
      BY <1>1, <2>1 DEF Show, InQ
    <2> QED  BY <1>0, <1>1, <2>1, <2>2, <2>3, <2>4 DEF Displays
  <1>12. QueuedOnce' /\ UsedCounted' /\ ~slotError'
    BY <1>0, <1>1, QueueSame, CountSame
  <1> QED  BY <1>9, <1>10, <1>11, <1>12, EntriesStep DEF TableOk

\* What a reset of the parser finds, and the calls it has to make.
LEMMA ResetFacts ==
    ASSUME SlotInv, ResetParser
    PROVE  /\ Calls = {} /\ Calls' = ResetSet /\ hcur = NoSlot /\ FlushSet(ref0) = {}
           /\ ppc = "waithal" /\ ppc' = "drain" /\ ref0' = NoRef /\ ref1' = NoRef
           /\ InFlight' = {}
           /\ InFlight = (IF task.parsed THEN {HalTask("frame", task.out, task.refer, task.eos)} ELSE {})
           /\ UNCHANGED <<slot, queue, hcur, usedCount, slotError, task>>
           /\ task.parsed => InQ(task.out)
           /\ task.waitInfo => task.parsed
  <1>0. /\ HalRests /\ ResetSteps /\ ParserRests /\ ref0 \in Refs /\ ref1 \in Refs /\ task \in DecTasks
        /\ RefsDiffer /\ Displays
    BY DEF SlotInv, Control, OnTheWay, Stages, Types, ParserTypes
  <1>1. /\ ptodo' = ResetCalls /\ ref0' = NoRef /\ ref1' = NoRef /\ ppc' = "drain" /\ ppc = "waithal"
        /\ halReset = "done"
        /\ UNCHANGED <<slot, queue, hcur, usedCount, slotError, task, htodo>>
    BY DEF ResetParser, slotVars, halVars
  <1>2. ptodo = << >> /\ htodo = << >> /\ hcur = NoSlot /\ (Valid(ref0) => ref0.enqueued)
    BY <1>0, <1>1 DEF ParserRests, HalRests, ResetSteps, HalAtRest
  <1>3. Lists(ptodo', ResetSet)
    <2>1. task.parsed => /\ task.out # NoSlot
                         /\ task.refer[1] # NoSlot => task.refer[1] # task.refer[2]
      BY <1>0, <1>1, ParsedTask DEF ParserRests
    <2>2. task.waitInfo => task.parsed
      BY <1>0 DEF ParserRests
    <2> QED  BY <1>0, <1>1, <2>1, <2>2, ResetLists
  <1>4. Calls = {} /\ Calls' = ResetSet
    BY <1>1, <1>2, <1>3, NoCalls DEF Calls, Lists
  <1>5. InFlight' = {} /\ InFlight = Waiting
    BY FlightReset
  <1>6. Waiting = (IF task.parsed THEN {HalTask("frame", task.out, task.refer, task.eos)} ELSE {})
    BY <1>1 DEF Waiting
  <1>7. task.parsed => InQ(task.out)
    <2> SUFFICES ASSUME task.parsed PROVE InQ(task.out)
      OBVIOUS
    <2>1. task.out # NoSlot
      BY <1>0 DEF ParserRests
    <2>2. ~Show(task.out)
      BY <1>4 DEF Show
    <2> QED  BY <1>0, <1>1, <1>2, <2>1, <2>2 DEF Displays, Valid
  <1>8. task.waitInfo => task.parsed
    BY <1>0 DEF ParserRests
  <1>9. FlushSet(ref0) = {}
    BY <1>2 DEF FlushSet
  <1> QED  BY <1>1, <1>2, <1>4, <1>5, <1>6, <1>7, <1>8, <1>9

\* The parser's reset gives up its references and the picture it has parsed.
LEMMA ResetParserTable == ASSUME SlotInv, ResetParser PROVE TableOk'
  <1> DEFINE r1 == task.refer[1]
             r2 == task.refer[2]
             t == HalTask("frame", task.out, task.refer, task.eos)
  <1>0. /\ QueuedOnce /\ UsedCounted /\ ~slotError /\ ref0 \in Refs /\ ref1 \in Refs
    BY DEF SlotInv, Stages, Types, ParserTypes
  <1>1. /\ Calls = {} /\ Calls' = ResetSet /\ hcur = NoSlot /\ FlushSet(ref0) = {}
        /\ ppc = "waithal" /\ ppc' = "drain" /\ ref0' = NoRef /\ ref1' = NoRef
        /\ InFlight' = {}
        /\ InFlight = (IF task.parsed THEN {t} ELSE {})
        /\ UNCHANGED <<slot, queue, hcur, usedCount, slotError, task>>
        /\ task.parsed => InQ(task.out)
        /\ task.waitInfo => task.parsed
    BY ResetFacts
  <1>2. task.parsed => task.out \in Slots /\ (r1 # NoSlot => r1 # r2)
    BY <1>1, ParsedTask
  <1>3. t.out = task.out /\ t.refer[1] = r1 /\ t.refer[2] = r2
    BY DEF HalTask
  <1> HIDE DEF t
  <1>4. ASSUME NEW c
        PROVE  c \in Calls' <=>
                 \/ Valid(ref0) /\ c = <<"clr", ref0.slot, "CODEC_USE">>
                 \/ Valid(ref1) /\ c = <<"clr", ref1.slot, "CODEC_USE">>
                 \/ task.waitInfo /\ c = <<"reset", task.out, 0>>
                 \/ task.parsed /\ c = <<"clr", task.out, "HAL_OUTPUT">>
                 \/ task.parsed /\ r1 # NoSlot /\ c = <<"clr", r1, "HAL_INPUT">>
                 \/ task.parsed /\ r2 # NoSlot /\ c = <<"clr", r2, "HAL_INPUT">>
    <2>1. c \in DoneSet(task) <=>
                 \/ c = <<"clr", task.out, "HAL_OUTPUT">>
                 \/ r1 # NoSlot /\ c = <<"clr", r1, "HAL_INPUT">>
                 \/ r2 # NoSlot /\ c = <<"clr", r2, "HAL_INPUT">>
      BY DEF DoneSet, ClrInSet
    <2>2. /\ c \in UnrefSet(ref0) <=> Valid(ref0) /\ c = <<"clr", ref0.slot, "CODEC_USE">>
          /\ c \in UnrefSet(ref1) <=> Valid(ref1) /\ c = <<"clr", ref1.slot, "CODEC_USE">>
      BY DEF UnrefSet
    <2>3. c \in ResetSet <=>
                 \/ c \in UnrefSet(ref0) \/ c \in UnrefSet(ref1)
                 \/ task.waitInfo /\ c = <<"reset", task.out, 0>>
                 \/ task.parsed /\ c \in DoneSet(task)
      BY <1>1 DEF ResetSet
    <2> QED  BY <1>1, <2>1, <2>2, <2>3, Zenon
  <1>5. ASSUME NEW j \in Slots
        PROVE  /\ ~SetOut(j) /\ ~SetIn(j) /\ ~SetRef(j) /\ ~SetShow(j) /\ ~Show(j) /\ ~ClrOut(j)
               /\ ~ClrIn(j) /\ ~ClrRef(j) /\ ~ClrShow(j) /\ ~Forget(j)
    BY <1>1 DEF SetOut, SetIn, SetRef, SetShow, Show, ClrOut, ClrIn, ClrRef, ClrShow, Forget
  <1>6. ASSUME NEW j \in Slots
        PROVE  /\ ~SetOut(j)' /\ ~SetIn(j)' /\ ~SetRef(j)' /\ ~SetShow(j)' /\ ~Show(j)' /\ ~ClrShow(j)'
               /\ ClrOut(j)' <=> task.parsed /\ j = task.out
               /\ ClrIn(j)' <=> task.parsed /\ (j = r1 \/ j = r2)
               /\ ClrRef(j)' <=> IsRef(j)
               /\ Forget(j)' <=> task.waitInfo /\ j = task.out
    <2>0. j # NoSlot
      BY DEF NoSlot, Slots
    <2>1. ~SetOut(j)' /\ ~SetIn(j)' /\ ~SetRef(j)' /\ ~SetShow(j)' /\ ~Show(j)' /\ ~ClrShow(j)'
      BY <1>4 DEF SetOut, SetIn, SetRef, SetShow, Show, ClrShow
    <2>2. ClrOut(j)' <=> task.parsed /\ j = task.out
      BY <1>4 DEF ClrOut
    <2>3. ClrIn(j)' <=> task.parsed /\ (j = r1 \/ j = r2)
      BY <1>4, <2>0 DEF ClrIn
    <2>4. ClrRef(j)' <=> IsRef(j)
      BY <1>4, <2>0 DEF ClrRef, IsRef, Valid
    <2>5. Forget(j)' <=> task.waitInfo /\ j = task.out
      BY <1>4 DEF Forget
    <2> QED  BY <2>1, <2>2, <2>3, <2>4, <2>5
  <1>7. ASSUME NEW j \in Slots
        PROVE  /\ Writing(j) <=> task.parsed /\ j = task.out
               /\ ~Writing(j)'
               /\ Reads(j)' = 0
               /\ Reads(j) = IF task.parsed THEN N(r1 = j) + N(r2 = j) ELSE 0
    <2>1. (Writing(j) <=> task.parsed /\ j = task.out) /\ ~Writing(j)'
      BY <1>1, <1>3 DEF Writing
    <2>2. Cardinality({}) = 0
      BY FS_EmptySet
    <2>3. Reads(j)' = 0
      <3>1. ReadsOf(j, 1)' = {} /\ ReadsOf(j, 2)' = {}
        BY <1>1 DEF ReadsOf
      <3>2. Reads(j)' = Cardinality(ReadsOf(j, 1)') + Cardinality(ReadsOf(j, 2)')
        BY DEF Reads, Uses, ReadsOf
      <3> QED  BY <2>2, <3>1, <3>2
    <2>4. Reads(j) = IF task.parsed THEN N(r1 = j) + N(r2 = j) ELSE 0
      <3>1. CASE task.parsed
        <4>1. t \in InFlight /\ InFlight' = InFlight \ {t}
          BY <1>1, <3>1
        <4>2. Reads(j)' = Reads(j) - N(t.refer[1] = j) - N(t.refer[2] = j)
          BY <4>1, ReadsRemoved
        <4>3. Reads(j) \in Int
          BY ReadsCount
        <4>4. N(r1 = j) \in Int /\ N(r2 = j) \in Int
          BY DEF N
        <4> QED  BY <1>3, <2>3, <3>1, <4>2, <4>3, <4>4
      <3>2. CASE ~task.parsed
        <4>1. ReadsOf(j, 1) = {} /\ ReadsOf(j, 2) = {}
          BY <1>1, <3>2 DEF ReadsOf
        <4>2. Reads(j) = Cardinality(ReadsOf(j, 1)) + Cardinality(ReadsOf(j, 2))
          BY ReadsCount
        <4> QED  BY <2>2, <3>2, <4>1, <4>2
      <3> QED  BY <3>1, <3>2
    <2> QED  BY <2>1, <2>3, <2>4
  <1>8. ASSUME NEW j \in Slots
        PROVE  /\ PlaceSame(j) /\ ~IsRef(j)' /\ FieldsSame(j) /\ ~Forgotten(j) /\ ~Forgotten(j)'
               /\ hcur # j /\ hcur' # j /\ EntryOk(j)
    <2>1. hcur # j /\ j # NoSlot
      BY <1>1 DEF NoSlot, Slots
    <2>2. ~IsRef(j)'
      BY <1>1, <2>1 DEF IsRef, NoRef
    <2>3. ~Forgotten(j) /\ ~Forgotten(j)'
      BY <1>1, <1>6 DEF Forgotten
    <2> QED  BY <1>1, <2>1, <2>2, <2>3, EntriesOk, QueueSame DEF PlaceSame, FieldsSame
  <1>9. ASSUME NEW j \in Slots PROVE EntryOk(j)'
    <2>1. StageOf(j)'
      <3>1. Forget(j)' => InQ(j)'
        BY <1>1, <1>6, <1>8 DEF PlaceSame
      <3> QED  BY <1>6, <1>7, <1>8, <3>1 DEF StageOf
    <2>2. InUses(j)'
      <3>1. slot[j].hal_use + N(FALSE) = Reads(j) + N(FALSE)
        BY <1>5, <1>8 DEF EntryOk, FlagsOf, InUses, N
      <3>2. slot[j].hal_use \in Int
        <4>1. slot[j] \in SlotEntry
          BY DEF SlotInv, Types, SlotTypes
        <4> QED  BY <4>1 DEF SlotEntry
      <3>3. Reads(j) = N(ClrIn(j)') /\ Reads(j) \in Int
        <4>1. task.parsed => ~(r1 = j /\ r2 = j)
          BY <1>2 DEF NoSlot, Slots
        <4> QED  BY <1>6, <1>7, <4>1 DEF N
      <3>4. slot'[j].hal_use = slot[j].hal_use /\ ~SetIn(j)' /\ Reads(j)' = 0
        BY <1>6, <1>7, <1>8 DEF FieldsSame
      <3>5. slot[j].hal_use = Reads(j)
        BY <3>1, <3>2, <3>3 DEF N
      <3>6. slot'[j].hal_use + 0 = 0 + N(ClrIn(j)')
        BY <3>2, <3>3, <3>4, <3>5
      <3> QED  BY <3>4, <3>6 DEF InUses, N
    <2>3. QueueUses(j)'
      <3>1. slot'[j].queue_use = slot[j].queue_use /\ (InQ(j)' <=> InQ(j))
        BY <1>8 DEF FieldsSame, PlaceSame
      <3>2. slot[j].queue_use + N(SetShow(j)) =
              (IF InQ(j) THEN 2 ELSE 0) + N(hcur = j) + N(ClrShow(j)) + N(Show(j))
        BY <1>8 DEF EntryOk, FlagsOf, QueueUses
      <3> QED  BY <1>5, <1>6, <1>8, <3>1, <3>2 DEF QueueUses, N
    <2>4. CodecUse(j)' /\ Output(j)' /\ NotReady(j)'
      <3>1. CodecUse(j)'
        BY <1>5, <1>6, <1>8 DEF EntryOk, FlagsOf, CodecUse, FieldsSame
      <3>2. Output(j)'
        BY <1>5, <1>6, <1>7, <1>8 DEF EntryOk, FlagsOf, Output, FieldsSame
      <3>3. NotReady(j)'
        BY <1>5, <1>6, <1>7, <1>8 DEF EntryOk, FlagsOf, NotReady, FieldsSame
      <3> QED  BY <3>1, <3>2, <3>3
    <2>5. OnUse(j)'
      <3>1. Staged(j)' <=> Staged(j)
        BY <1>5, <1>6, <1>8 DEF Staged, PlaceSame
      <3>2. Reads(j) > 0 <=> ClrIn(j)'
        BY <1>6, <1>7 DEF N
      <3>3. ~(Reads(j)' > 0)
        BY <1>7
      <3>4. Needed(j)' <=> Needed(j)
        BY <1>5, <1>6, <1>7, <1>8, <3>1, <3>2, <3>3 DEF Needed
      <3> QED  BY <1>8, <3>4 DEF EntryOk, FlagsOf, OnUse, FieldsSame
    <2> QED  BY <1>6, <2>1, <2>2, <2>3, <2>4, <2>5 DEF EntryOk, FlagsOf
  <1>10. (Valid(ref0) /\ ~ref0.enqueued => ~Staged(ref0.slot))'
    BY <1>1 DEF Valid, NoRef
  <1>11. QueuedOnce' /\ UsedCounted' /\ ~slotError'
    BY <1>0, <1>1, QueueSame, CountSame
  <1> QED  BY <1>1, <1>9, <1>10, <1>11, EntriesStep DEF TableOk

\* Whether the last reference, and whether the new picture itself, is displayed now.
ShowsLast(type, eos) == Flushes /\ (type # "B" \/ eos)
ShowsNew(type, eos) == type = "B" \/ eos

\* The calls that the parser thread has to make for a picture, one by one.
LEMMA ParseCallsMade ==
    ASSUME SlotInv, NEW type \in {"I", "P", "B"}, NEW size \in Infos, NEW eos \in BOOLEAN,
           NEW i \in Slots, ParseFacts(type, size, eos, i), NEW c
    PROVE  /\ c \in Calls => c[1] = "clr" /\ c[3] # "CODEC_USE"
           /\ c \in Calls' <=>
                \/ c \in Calls
                \/ c = <<"set", i, "HAL_OUTPUT">> \/ c = <<"frame", i, size>>
                \/ Valid(ref0) /\ c = <<"set", ref0.slot, "HAL_INPUT">>
                \/ Valid(ref1) /\ c = <<"set", ref1.slot, "HAL_INPUT">>
                \/ type # "B" /\ c = <<"set", i, "CODEC_USE">>
                \/ type # "B" /\ Valid(ref1) /\ c = <<"clr", ref1.slot, "CODEC_USE">>
                \/ /\ ShowsLast(type, eos)
                   /\ c = <<"set", ref0.slot, "QUEUE_USE">> \/ c = <<"enqueue", ref0.slot, "DISPLAY">>
                \/ /\ ShowsNew(type, eos)
                   /\ c = <<"set", i, "QUEUE_USE">> \/ c = <<"enqueue", i, "DISPLAY">>
  <1> DEFINE last == ParseLast(type, size, i)
  <1>0. HalCalls /\ ParserRests /\ i # NoSlot
    BY DEF SlotInv, Todo, Control, NoSlot, Slots
  <1>1. /\ ppc = "top" /\ ~task.parsed /\ ~gotEos /\ UNCHANGED htodo
        /\ Lists(ptodo', ParseSet(type, size, eos, i, last))
    BY DEF ParseFacts, halVars
  <1>2. ptodo = << >> /\ ~Flushing
    BY <1>0, <1>1, NotFlushing DEF ParserRests
  <1>3. Calls = CallsIn(htodo) /\ Calls' = Calls \cup ParseSet(type, size, eos, i, last)
    BY <1>1, <1>2, NoCalls DEF Calls, Lists
  <1>4. c \in Calls => c[1] = "clr" /\ c[3] # "CODEC_USE"
    BY <1>0, <1>2, <1>3 DEF HalCalls
  <1>5. /\ type = "B" => last = ref0
        /\ type # "B" => Valid(last) /\ ~last.enqueued /\ last.slot = i
    BY <1>0 DEF ParseLast, Valid
  <1> HIDE DEF last
  <1>6. c \in FlushSet(ref0) <=>
          Flushes /\ (c = <<"set", ref0.slot, "QUEUE_USE">> \/ c = <<"enqueue", ref0.slot, "DISPLAY">>)
    BY DEF FlushSet, ShowSet, Flushes
  <1>7. c \in ShowSet(i) <=> c = <<"set", i, "QUEUE_USE">> \/ c = <<"enqueue", i, "DISPLAY">>
    BY DEF ShowSet
  <1>8. c \in UpdateSet(type, i) <=>
          \/ type = "B" /\ c \in ShowSet(i)
          \/ type # "B" /\ c \in FlushSet(ref0)
          \/ type # "B" /\ c = <<"set", i, "CODEC_USE">>
          \/ type # "B" /\ Valid(ref1) /\ c = <<"clr", ref1.slot, "CODEC_USE">>
    BY Zenon DEF UpdateSet, UnrefSet
  <1>9. c \in FlushSet(last) <=>
          \/ type = "B" /\ c \in FlushSet(ref0)
          \/ type # "B" /\ c \in ShowSet(i)
    BY <1>5 DEF FlushSet
  <1>10. /\ c \in ReferSet(ref0) <=> Valid(ref0) /\ c = <<"set", ref0.slot, "HAL_INPUT">>
         /\ c \in ReferSet(ref1) <=> Valid(ref1) /\ c = <<"set", ref1.slot, "HAL_INPUT">>
    BY DEF ReferSet
  <1>11. c \in ParseSet(type, size, eos, i, last) <=>
           \/ c = <<"set", i, "HAL_OUTPUT">> \/ c = <<"frame", i, size>>
           \/ c \in ReferSet(ref0) \/ c \in ReferSet(ref1) \/ c \in UpdateSet(type, i)
           \/ eos /\ c \in FlushSet(last)
    BY Zenon DEF ParseSet
  <1> QED  BY <1>3, <1>4, <1>6, <1>7, <1>8, <1>9, <1>10, <1>11, Zenon DEF ShowsLast, ShowsNew

\* What a picture that is parsed changes for each entry.
LEMMA ParseMarks ==
    ASSUME SlotInv, NEW type \in {"I", "P", "B"}, NEW size \in Infos, NEW eos \in BOOLEAN,
           NEW i \in Slots, ParseFacts(type, size, eos, i), NEW j \in Slots
    PROVE  /\ ~SetOut(j) /\ ~SetIn(j) /\ ~SetRef(j) /\ ~SetShow(j) /\ ~Show(j) /\ ~ClrRef(j)
           /\ ~Forget(j) /\ ~Forget(j)'
           /\ SetOut(j)' <=> j = i
           /\ SetIn(j)' <=> IsRef(j)
           /\ SetRef(j)' <=> j = i /\ type # "B"
           /\ SetShow(j)' <=> Show(j)'
           /\ Show(j)' <=> (ShowsLast(type, eos) /\ j = ref0.slot) \/ (ShowsNew(type, eos) /\ j = i)
           /\ ClrRef(j)' <=> type # "B" /\ j = ref1.slot
           /\ ClrOut(j)' <=> ClrOut(j)
           /\ ClrIn(j)' <=> ClrIn(j)
           /\ ClrShow(j)' <=> ClrShow(j)
  <1>0. j # NoSlot
    BY DEF NoSlot, Slots
  <1>1. ASSUME NEW c
        PROVE  /\ c \in Calls => c[1] = "clr" /\ c[3] # "CODEC_USE"
               /\ c \in Calls' <=>
                    \/ c \in Calls
                    \/ c = <<"set", i, "HAL_OUTPUT">> \/ c = <<"frame", i, size>>
                    \/ Valid(ref0) /\ c = <<"set", ref0.slot, "HAL_INPUT">>
                    \/ Valid(ref1) /\ c = <<"set", ref1.slot, "HAL_INPUT">>
                    \/ type # "B" /\ c = <<"set", i, "CODEC_USE">>
                    \/ type # "B" /\ Valid(ref1) /\ c = <<"clr", ref1.slot, "CODEC_USE">>
                    \/ /\ ShowsLast(type, eos)
                       /\ c = <<"set", ref0.slot, "QUEUE_USE">> \/ c = <<"enqueue", ref0.slot, "DISPLAY">>
                    \/ /\ ShowsNew(type, eos)
                       /\ c = <<"set", i, "QUEUE_USE">> \/ c = <<"enqueue", i, "DISPLAY">>
    BY ParseCallsMade
  <1>2. /\ ~SetOut(j) /\ ~SetIn(j) /\ ~SetRef(j) /\ ~SetShow(j) /\ ~Show(j) /\ ~ClrRef(j) /\ ~Forget(j)
    BY <1>1 DEF SetOut, SetIn, SetRef, SetShow, Show, ClrRef, Forget
  <1>3. (SetOut(j)' <=> j = i) /\ (SetRef(j)' <=> j = i /\ type # "B") /\ ~Forget(j)'
    BY <1>1, <1>2 DEF SetOut, SetRef, Forget
  <1>4. SetIn(j)' <=> IsRef(j)
    BY <1>0, <1>1, <1>2 DEF SetIn, IsRef, Valid
  <1>5. SetShow(j)' <=> (ShowsLast(type, eos) /\ j = ref0.slot) \/ (ShowsNew(type, eos) /\ j = i)
    BY <1>1, <1>2 DEF SetShow
  <1>6. Show(j)' <=> (ShowsLast(type, eos) /\ j = ref0.slot) \/ (ShowsNew(type, eos) /\ j = i)
    BY <1>1, <1>2 DEF Show
  <1>7. ClrRef(j)' <=> type # "B" /\ j = ref1.slot
    BY <1>0, <1>1, <1>2 DEF ClrRef, Valid
  <1>8. (ClrOut(j)' <=> ClrOut(j)) /\ (ClrIn(j)' <=> ClrIn(j)) /\ (ClrShow(j)' <=> ClrShow(j))
    BY <1>1 DEF ClrOut, ClrIn, ClrShow
  <1> QED  BY <1>2, <1>3, <1>4, <1>5, <1>6, <1>7, <1>8

\* The picture that is parsed takes an entry nobody needs.
LEMMA ParseNewEntry ==
    ASSUME SlotInv, NEW type \in {"I", "P", "B"}, NEW size \in Infos, NEW eos \in BOOLEAN,
           NEW i \in Slots, ParseFacts(type, size, eos, i)
    PROVE  /\ EntryOk(i)'
           /\ i # ref0.slot /\ i # ref1.slot
           /\ ~InQ(i) /\ hcur # i /\ ~ClrShow(i)
  <1>0. /\ ppc' = "check" /\ UNCHANGED hcur /\ GetUnused(i) /\ ~Needed(i) /\ SlotTypes
    BY DEF ParseFacts, halVars, SlotInv, Types
  <1>1. ~slot[i].on_used /\ slot'[i] = [slot[i] EXCEPT !.on_used = TRUE, !.not_ready = TRUE]
        /\ UNCHANGED queue /\ slot[i] \in SlotEntry
    BY <1>0, GetUnusedEffect DEF SlotTypes
  <1>2. /\ slot'[i].on_used = TRUE /\ slot'[i].not_ready = TRUE
        /\ slot'[i].codec_use = slot[i].codec_use /\ slot'[i].hal_output = slot[i].hal_output
        /\ slot'[i].hal_use = slot[i].hal_use /\ slot'[i].queue_use = slot[i].queue_use
    BY <1>1 DEF SlotEntry
  <1>3. /\ ~Writing(i) /\ i # ref0.slot /\ i # ref1.slot /\ ~(Reads(i) > 0) /\ ~ClrOut(i) /\ ~ClrIn(i)
        /\ ~Show(i) /\ ~InQ(i) /\ hcur # i /\ ~ClrShow(i) /\ ~ClrRef(i) /\ ~IsRef(i)
    BY <1>0 DEF Needed, Staged, IsRef
  <1>4. /\ ~SetOut(i) /\ ~SetIn(i) /\ ~SetRef(i) /\ ~SetShow(i) /\ ~Forget(i)'
        /\ SetOut(i)' /\ ~SetIn(i)'
        /\ SetRef(i)' <=> type # "B"
        /\ SetShow(i)' <=> Show(i)'
        /\ ~ClrRef(i)' /\ ~ClrOut(i)' /\ ~ClrIn(i)' /\ ~ClrShow(i)'
    BY <1>3, ParseMarks
  <1>5. NewTask(eos, i) \notin InFlight
    BY <1>3, FlightParse DEF Writing
  <1>6. Writing(i)' /\ Reads(i)' = 0 /\ Reads(i) = 0
    <2>1. Writing(i)'
      BY FlightParse DEF Writing
    <2>2. Reads(i) = 0
      BY <1>3, ReadsCount
    <2>3. Reads(i)' = Reads(i) + N(NewTask(eos, i).refer[1] = i) + N(NewTask(eos, i).refer[2] = i)
      BY <1>5, FlightParse, ReadsAdded
    <2>4. N(NewTask(eos, i).refer[1] = i) = 0 /\ N(NewTask(eos, i).refer[2] = i) = 0
      BY <1>3, FlightParse DEF N
    <2> QED  BY <2>1, <2>2, <2>3, <2>4
  <1>7. EntryOk(i)
    BY EntriesOk
  <1>8. slot[i].hal_use = 0 /\ slot[i].queue_use = 0 /\ slot[i].codec_use = FALSE
        /\ slot[i].hal_output = FALSE
    <2>0. slot[i].hal_use \in Int /\ slot[i].queue_use \in Int
      BY <1>1 DEF SlotEntry
    <2>1. slot[i].hal_use = 0
      BY <1>3, <1>4, <1>6, <1>7, <2>0 DEF EntryOk, FlagsOf, InUses, N
    <2>2. slot[i].queue_use = 0
      BY <1>3, <1>4, <1>7, <2>0 DEF EntryOk, FlagsOf, QueueUses, N
    <2>3. slot[i].codec_use = FALSE /\ slot[i].hal_output = FALSE
      BY <1>3, <1>7 DEF EntryOk, FlagsOf, CodecUse, Output
    <2> QED  BY <2>1, <2>2, <2>3
  <1>9. ~InQ(i)' /\ hcur' # i
    BY <1>0, <1>1, <1>3, QueueSame
  <1>10. type = "B" => ~IsRef(i)'
    <2> SUFFICES ASSUME type = "B" PROVE ~IsRef(i)'
      OBVIOUS
    <2>1. ref1' = ref1 /\ ref0' = (IF eos THEN Flushed(ref0) ELSE ref0) /\ ref0 \in Refs
      BY DEF ParseFacts, ParseLast, SlotInv, Types, ParserTypes
    <2>2. ref0'.slot = ref0.slot
      BY <2>1, FlushedTypes
    <2> QED  BY <1>3, <2>1, <2>2 DEF IsRef
  <1>11. StageOf(i)'
    BY <1>0, <1>4, <1>9 DEF StageOf, Forgotten
  <1>12. InUses(i)' /\ QueueUses(i)'
    <2>1. InUses(i)'
      BY <1>2, <1>4, <1>6, <1>8 DEF InUses, N
    <2>2. QueueUses(i)'
      BY <1>2, <1>4, <1>8, <1>9 DEF QueueUses, N
    <2> QED  BY <2>1, <2>2
  <1>13. CodecUse(i)' /\ Output(i)' /\ NotReady(i)'
    <2>1. CodecUse(i)'
      BY <1>2, <1>4, <1>8, <1>10 DEF CodecUse
    <2>2. Output(i)' /\ NotReady(i)'
      BY <1>2, <1>4, <1>6, <1>8 DEF Output, NotReady
    <2> QED  BY <2>1, <2>2
  <1>14. OnUse(i)'
    BY <1>0, <1>2, <1>6 DEF OnUse, Needed, Forgotten
  <1> QED  BY <1>3, <1>4, <1>11, <1>12, <1>13, <1>14 DEF EntryOk, FlagsOf

\* The other entries: two are read once more, and the last reference may be displayed.
LEMMA ParseOtherEntry ==
    ASSUME SlotInv, NEW type \in {"I", "P", "B"}, NEW size \in Infos, NEW eos \in BOOLEAN,
           NEW i \in Slots, ParseFacts(type, size, eos, i), NEW j \in Slots, j # i
    PROVE  EntryOk(j)'
  <1>0. /\ ppc' = "check" /\ ppc = "top" /\ UNCHANGED hcur /\ GetUnused(i) /\ ~Needed(i) /\ SlotTypes
        /\ ref0 \in Refs /\ RefsDiffer /\ Displays
    BY DEF ParseFacts, halVars, SlotInv, Types, ParserTypes, OnTheWay, Stages
  <1>1. slot'[j] = slot[j] /\ UNCHANGED queue /\ slot[j] \in SlotEntry /\ j # NoSlot
    <2>1. OnlyEntry(i) /\ UNCHANGED queue
      BY <1>0, GetUnusedEffect
    <2>2. slot[j] \in SlotEntry /\ j # NoSlot
      BY <1>0 DEF SlotTypes, NoSlot, Slots
    <2> QED  BY <2>1, <2>2 DEF OnlyEntry
  <1>2. FieldsSame(j) /\ PlaceSame(j) /\ ~Forgotten(j) /\ ~Forgotten(j)' /\ EntryOk(j)
    BY <1>0, <1>1, QueueSame, EntriesOk DEF FieldsSame, PlaceSame, Forgotten
  <1>3. /\ ~SetOut(j) /\ ~SetIn(j) /\ ~SetRef(j) /\ ~SetShow(j) /\ ~Show(j) /\ ~ClrRef(j)
        /\ ~Forget(j) /\ ~Forget(j)'
        /\ ~SetOut(j)' /\ ~SetRef(j)'
        /\ SetIn(j)' <=> IsRef(j)
        /\ SetShow(j)' <=> Show(j)'
        /\ Show(j)' <=> (ShowsLast(type, eos) /\ j = ref0.slot)
        /\ ClrRef(j)' <=> type # "B" /\ j = ref1.slot
        /\ ClrOut(j)' <=> ClrOut(j)
        /\ ClrIn(j)' <=> ClrIn(j)
        /\ ClrShow(j)' <=> ClrShow(j)
    BY ParseMarks
  <1>4. NewTask(eos, i) \notin InFlight
    BY <1>0, FlightParse DEF Needed, Writing
  <1>5. /\ Writing(j)' <=> Writing(j)
        /\ Reads(j)' = Reads(j) + N(IsRef(j)) /\ Reads(j) \in Nat
    <2>1. Writing(j)' <=> Writing(j)
      BY FlightParse DEF Writing
    <2>2. Reads(j)' = Reads(j) + N(NewTask(eos, i).refer[1] = j) + N(NewTask(eos, i).refer[2] = j)
      BY <1>4, FlightParse, ReadsAdded
    <2>3. N(NewTask(eos, i).refer[1] = j) + N(NewTask(eos, i).refer[2] = j) = N(IsRef(j))
      BY <1>0, <1>1, FlightParse DEF N, IsRef, RefsDiffer, Valid
    <2>4. Reads(j) \in Nat
      BY ReadsCount
    <2>5. N(NewTask(eos, i).refer[1] = j) \in Int /\ N(NewTask(eos, i).refer[2] = j) \in Int
      BY DEF N
    <2> QED  BY <2>1, <2>2, <2>3, <2>4, <2>5
  <1>6. /\ type = "B" => (IsRef(j)' <=> IsRef(j))
        /\ type # "B" => (IsRef(j)' <=> j = ref0.slot)
    <2>1. /\ ref1' = IF type = "B" THEN ref1 ELSE ref0
          /\ ref0' = IF eos THEN Flushed(ParseLast(type, size, i)) ELSE ParseLast(type, size, i)
          /\ ParseLast(type, size, i) \in Refs
      BY DEF ParseFacts
    <2>2. ParseLast(type, size, i).slot = IF type = "B" THEN ref0.slot ELSE i
      BY DEF ParseLast
    <2>3. ref0'.slot = IF type = "B" THEN ref0.slot ELSE i
      BY <2>1, <2>2, FlushedTypes
    <2> QED  BY <2>1, <2>3 DEF IsRef
  <1>7. Show(j)' => ~Staged(j) /\ IsRef(j)
    BY <1>0, <1>3 DEF ShowsLast, Flushes, Displays, IsRef
  <1>8. StageOf(j)'
    BY <1>2, <1>3, <1>5, <1>7 DEF EntryOk, StageOf, Staged, PlaceSame
  <1>9. InUses(j)'
    <2>1. slot[j].hal_use + N(FALSE) = Reads(j) + N(ClrIn(j))
      <3>1. slot[j].hal_use + N(SetIn(j)) = Reads(j) + N(ClrIn(j))
        BY <1>2 DEF EntryOk, FlagsOf, InUses
      <3> QED  BY <1>3, <3>1 DEF N
    <2>2. slot[j].hal_use \in Int /\ N(ClrIn(j)) \in Int /\ N(IsRef(j)) \in Int
      BY <1>1 DEF SlotEntry, N
    <2>3. slot'[j].hal_use + N(IsRef(j)) = Reads(j)' + N(ClrIn(j))
      BY <1>1, <1>5, <2>1, <2>2 DEF N
    <2> QED  BY <1>3, <2>3 DEF InUses, N
  <1>10. QueueUses(j)'
    <2>1. slot[j].queue_use + N(FALSE) =
            (IF InQ(j) THEN 2 ELSE 0) + N(hcur = j) + N(ClrShow(j)) + N(FALSE)
      BY <1>2, <1>3 DEF EntryOk, FlagsOf, QueueUses, N
    <2>2. slot[j].queue_use \in Int /\ N(Show(j)') \in Int
      BY <1>1 DEF SlotEntry, N
    <2>3. slot'[j].queue_use = slot[j].queue_use /\ (InQ(j)' <=> InQ(j)) /\ (hcur' = j <=> hcur = j)
      BY <1>2 DEF FieldsSame, PlaceSame
    <2> QED  BY <1>3, <2>1, <2>2, <2>3 DEF QueueUses, N
  <1>11. CodecUse(j)' /\ Output(j)' /\ NotReady(j)'
    <2>1. CodecUse(j)'
      BY <1>2, <1>3, <1>6 DEF EntryOk, FlagsOf, CodecUse, FieldsSame, IsRef
    <2>2. Output(j)' /\ NotReady(j)'
      BY <1>2, <1>3, <1>5 DEF EntryOk, FlagsOf, Output, NotReady, FieldsSame
    <2> QED  BY <2>1, <2>2
  <1>12. OnUse(j)'
    <2>1. Reads(j)' > 0 <=> Reads(j) > 0 \/ IsRef(j)
      BY <1>5 DEF N
    <2>2. Staged(j)' <=> Staged(j) \/ Show(j)'
      BY <1>2, <1>3 DEF Staged, PlaceSame
    <2>3. Needed(j)' <=> Needed(j)
      BY <1>3, <1>5, <1>6, <1>7, <2>1, <2>2 DEF Needed, IsRef
    <2> QED  BY <1>2, <2>3 DEF EntryOk, FlagsOf, OnUse, FieldsSame
  <1>13. (SetIn(j) => IsRef(j) \/ ClrRef(j))'
    BY <1>3, <1>6 DEF IsRef
  <1> QED  BY <1>8, <1>9, <1>10, <1>11, <1>12, <1>13 DEF EntryOk, FlagsOf

\* The count of a new entry: the gate before parsing leaves one to count.
LEMMA CountTaken ==
    ASSUME UsedCounted, SlotTypes, NEW i \in Slots, OnlyEntry(i), ~slot[i].on_used, slot'[i].on_used,
           usedCount' = usedCount + 1, UnusedCount # 0
    PROVE  UsedCounted'
  <1>1. UsedEntries' = UsedEntries \cup {i} /\ i \notin UsedEntries
    BY DEF UsedEntries, OnlyEntry
  <1>2. IsFiniteSet(UsedEntries)
    <2>1. IsFiniteSet(Slots)
      BY SlotsAssumption, FS_Interval DEF Slots
    <2> QED  BY <2>1, FS_Subset DEF UsedEntries
  <1>3. Cardinality(UsedEntries') = Cardinality(UsedEntries) + 1 /\ Cardinality(UsedEntries) \in Nat
    BY <1>1, <1>2, FS_AddElement, FS_CardinalityType
  <1>4. usedCount \in Int /\ SlotCount \in Nat
    BY SlotsAssumption DEF SlotTypes
  <1> QED  BY <1>3, <1>4 DEF UsedCounted, UnusedCount

\* A picture is parsed.
LEMMA ParseTable ==
    ASSUME SlotInv, NEW type \in {"I", "P", "B"}, NEW size \in Infos, NEW eos \in BOOLEAN,
           Parse(type, size, eos)
    PROVE  TableOk'
  <1>1. PICK i \in Slots : ParseAs(type, size, eos, i)
    BY DEF Parse
  <1>2. ParseFacts(type, size, eos, i)
    BY <1>1, ParseEffect
  <1> DEFINE last == ParseLast(type, size, i)
  <1>3. /\ QueuedOnce /\ Displays /\ UsedCounted /\ ~slotError /\ SlotTypes /\ ref0 \in Refs
    BY DEF SlotInv, Stages, Types, ParserTypes
  <1>4. /\ GetUnused(i) /\ UNCHANGED hcur /\ task'.out = i /\ UnusedCount # 0 /\ last \in Refs
        /\ ref0' = IF eos THEN Flushed(last) ELSE last
    BY <1>2 DEF ParseFacts, ParseGate, halVars
  <1>5. /\ type = "B" => last = ref0
        /\ type # "B" => last.slot = i /\ last.enqueued = FALSE
    BY DEF ParseLast
  <1> HIDE DEF last
  <1>6. /\ OnlyEntry(i) /\ ~slot[i].on_used /\ usedCount' = usedCount + 1
        /\ UNCHANGED <<queue, slotError>>
        /\ slot'[i] = [slot[i] EXCEPT !.on_used = TRUE, !.not_ready = TRUE]
    BY <1>3, <1>4, GetUnusedEffect
  <1>7. /\ EntryOk(i)' /\ i # ref0.slot /\ i # ref1.slot
        /\ ~InQ(i) /\ hcur # i /\ ~ClrShow(i)
    BY <1>2, ParseNewEntry
  <1>8. \A j \in Slots : EntryOk(j)'
    BY <1>2, <1>7, ParseOtherEntry
  <1>9. QueuedOnce' /\ (\A j : InQ(j)' <=> InQ(j))
    BY <1>3, <1>6, QueueSame
  <1>10. UsedCounted'
    <2>1. slot[i] \in SlotEntry
      BY <1>3 DEF SlotTypes
    <2>2. slot'[i].on_used
      BY <1>6, <2>1 DEF SlotEntry
    <2> QED  BY <1>3, <1>4, <1>6, <2>2, CountTaken
  <1>11. (Valid(ref0) /\ ~ref0.enqueued => ~Staged(ref0.slot))'
    <2> SUFFICES ASSUME Valid(ref0'), ~ref0'.enqueued PROVE ~Staged(ref0.slot)'
      BY DEF Valid
    <2>1. ~eos /\ ref0' = last
      BY <1>4, FlushedTypes DEF Valid
    <2>2. PICK j \in Slots : j = ref0'.slot
      BY <1>4, <2>1 DEF Valid, Refs, Entries
    <2>3. ~Show(j)' /\ (ClrShow(j)' <=> ClrShow(j))
      <3>1. CASE type = "B"
        BY <1>2, <1>5, <1>7, <2>1, <2>2, <3>1, ParseMarks DEF ShowsLast, ShowsNew
      <3>2. CASE type # "B"
        BY <1>2, <1>5, <1>7, <2>1, <2>2, <3>2, ParseMarks DEF ShowsLast, ShowsNew
      <3> QED  BY <3>1, <3>2
    <2>4. ~InQ(j) /\ hcur # j /\ ~ClrShow(j)
      <3>1. CASE type = "B"
        BY <1>3, <1>5, <2>1, <2>2, <3>1 DEF Displays, Staged, Valid
      <3>2. CASE type # "B"
        BY <1>5, <1>7, <2>1, <2>2, <3>2
      <3> QED  BY <3>1, <3>2
    <2>5. ~Show(j)' /\ ~InQ(j)' /\ hcur' # j /\ ~ClrShow(j)'
      BY <1>4, <1>9, <2>3, <2>4
    <2> QED  BY <2>2, <2>5 DEF Staged, Show, InQ, ClrShow
  <1>12. (task.parsed /\ ppc # "drain" =>
            (task.out = ref0.slot /\ ~ref0.enqueued) \/ Show(task.out) \/ InQ(task.out))'
    <2>1. CASE type = "B" \/ eos
      <3>1. Show(i)'
        BY <1>2, <2>1, ParseMarks DEF ShowsNew
      <3>2. Show(task.out)'
        BY <1>4, <3>1 DEF Show
      <3> QED  BY <3>2
    <2>2. CASE type # "B" /\ ~eos
      BY <1>4, <1>5, <2>2
    <2> QED  BY <2>1, <2>2
  <1>13. ~slotError'
    BY <1>3, <1>6
  <1> QED  BY <1>8, <1>9, <1>10, <1>11, <1>12, <1>13, EntriesStep DEF TableOk

-----------------------------------------------------------------------------
(* The invariant of the slots and the threads *)

\* Every step keeps the table of slots.
LEMMA StepTable == ASSUME SlotInv, [Next]_vars PROVE TableOk'
  <1>1. CASE Next
    <2>1. \/ QuietStep \/ HalTake \/ HalReset \/ PrepareEos \/ ParserCall \/ HalCall
          \/ (\E i \in Slots : HalDequeue(i)) \/ (\E i \in Slots : ResetDrain(i))
          \/ HalPut \/ ResetDone \/ HwDone \/ ResetParser
          \/ \E type \in {"I", "P", "B"}, size \in Infos, eos \in BOOLEAN : Parse(type, size, eos)
      BY <1>1, NextSteps DEF OtherStep, QuietStep
    <2> QED
      BY <2>1, QuietTable, FlushTable, CallTable, TakenTable, DrainTable, PutTable, ResetDoneTable,
         DoneTable, ResetParserTable, ParseTable
  <1>2. CASE UNCHANGED vars
    <2>1. UNCHANGED <<slot, queue, usedCount, slotError, ref0, ref1, hcur, ptodo, htodo, procQ, task, ppc>>
      BY <1>2 DEF vars, slotVars, parserVars, halVars
    <2>2. Calls' = Calls /\ InFlight' = InFlight
      BY <2>1 DEF Calls, InFlight, Sent, Waiting
    <2>3. \A i \in Slots : FieldsSame(i)
      BY <2>1 DEF FieldsSame
    <2> QED  BY <2>1, <2>2, <2>3, QuietSame
  <1> QED  BY <1>1, <1>2

\* Every step keeps the lists of the threads.
LEMMA StepTodo == ASSUME SlotInv, [Next]_vars PROVE Todo'
  <1>1. ReadsHeld'
    BY StepTable DEF TableOk
  <1>2. CASE Next
    BY <1>1, <1>2, ParserTodoStep, HalTodoStep DEF Todo
  <1>3. CASE UNCHANGED vars
    <2>1. /\ UNCHANGED <<ref0, ref1, ppc, ptodo, task>> /\ UNCHANGED <<hpc, htodo, hal>>
      BY <1>3 DEF vars, parserVars, halVars
    <2>2. InOrder(ptodo) /\ InOrder(htodo) /\ ParserCalls /\ HalCalls
      BY DEF SlotInv, Todo
    <2>3. InOrder(ptodo)' /\ InOrder(htodo)'
      BY <2>1, <2>2
    <2>4. ParserCalls'
      BY <2>1, <2>2 DEF ParserCalls, IsRef
    <2>5. HalCalls'
      BY <2>1, <2>2 DEF HalCalls, Flushing
    <2> QED  BY <1>1, <2>3, <2>4, <2>5 DEF Todo
  <1> QED  BY <1>2, <1>3

\* The invariant is inductive.
LEMMA SlotInvStep == ASSUME SlotInv, [Next]_vars PROVE SlotInv'
  <1>1. Types'
    BY StepTypes
  <1>2. Control' /\ OnTheWay'
    BY <1>1, StepControl, StepOnTheWay
  <1>3. Todo' /\ TableOk'
    BY StepTodo, StepTable
  <1> QED  BY <1>1, <1>2, <1>3 DEF SlotInv, TableOk

\* Nothing is on its way, to be displayed or counted at the start.
LEMMA SlotInvInit == ASSUME Init PROVE SlotInv
  <1>0. /\ slot = [i \in Slots |-> EmptyEntry] /\ queue = [q \in QueueTypes |-> << >>] /\ usedCount = 0
        /\ info = 0 /\ infoSet = 0 /\ infoChanged = FALSE /\ bufRef = [b \in Buffers |-> 0]
        /\ slotError = FALSE
        /\ ref0 = NoRef /\ ref1 = NoRef /\ foundI = FALSE /\ gotEos = FALSE
        /\ ppc = "top" /\ ptodo = << >> /\ task = NoTask /\ procQ = << >> /\ procDone = 0
        /\ hpc = "top" /\ htodo = << >> /\ hal = NoHal /\ hcur = NoSlot
        /\ resetFlag = FALSE /\ halReset = "none" /\ flushDue = FALSE /\ readyCmd = FALSE
        /\ frames = << >> /\ held = {} /\ pic = [i \in Slots |-> 0]
        /\ coded = << >> /\ decoded = {} /\ shown = << >> /\ dropped = {}
        /\ eosSent = 0 /\ resets = 0
    BY DEF Init, SlotsInit
  <1>1. Types
    <2>1. EmptyEntry \in SlotEntry
      BY DEF EmptyEntry, SlotEntry
    <2>2. SlotTypes
      <3>1. slot \in [Slots -> SlotEntry]
        BY <1>0, <2>1
      <3>2. queue \in [QueueTypes -> Seq(Slots)] /\ bufRef \in [Buffers -> Int]
        BY <1>0
      <3>3. usedCount \in Int /\ slotError \in BOOLEAN /\ infoChanged \in BOOLEAN
            /\ info \in Infos \cup {0} /\ infoSet \in Infos \cup {0}
        <4>1. usedCount = 0 /\ slotError = FALSE /\ infoChanged = FALSE /\ info = 0 /\ infoSet = 0
          BY <1>0
        <4>2. usedCount \in Int
          BY <4>1
        <4>3. slotError \in BOOLEAN /\ infoChanged \in BOOLEAN
          BY <4>1
        <4>4. info \in Infos \cup {0} /\ infoSet \in Infos \cup {0}
          BY <4>1, Zenon
        <4> QED  BY <4>2, <4>3, <4>4
      <3> QED  BY <3>1, <3>2, <3>3 DEF SlotTypes
    <2>3. ParserTypes
      <3>1. ptodo \in Seq(SlotCalls)
        BY <1>0, NoCalls
      <3>2. ref0 \in Refs /\ ref1 \in Refs /\ task \in DecTasks
        BY <1>0, ConstantTypes
      <3> QED  BY <1>0, <3>1, <3>2 DEF ParserTypes
    <2>4. HalTypes
      BY <1>0, ConstantTypes DEF HalTypes, Entries
    <2>5. OtherTypes
      <3>1. /\ resetFlag \in BOOLEAN /\ halReset \in {"none", "posted", "done"}
            /\ flushDue \in BOOLEAN /\ readyCmd \in BOOLEAN
        BY <1>0
      <3>2. frames \in Seq(OutFrames) /\ held \subseteq Buffers /\ pic \in [Slots -> Nat]
        BY <1>0
      <3>3. /\ coded \in Seq({"I", "P", "B", "N"}) /\ Len(coded) <= MaxPics
            /\ resets \in 0 .. MaxResets
        BY <1>0, FlowAssumption
      <3>4. decoded \subseteq Nat /\ shown \in Seq(Nat) /\ dropped \subseteq Nat /\ eosSent \in Nat
        BY <1>0
      <3> QED  BY <3>1, <3>2, <3>3, <3>4 DEF OtherTypes
    <2> QED  BY <2>2, <2>3, <2>4, <2>5 DEF Types
  <1>2. Control
    <2>1. NoTask.parsed = FALSE /\ NoTask.infoGen = FALSE /\ NoTask.waitInfo = FALSE /\ NoTask.eos = FALSE
      BY DEF NoTask
    <2>2. NoHal.kind = "none" /\ NoHal.eos = FALSE
      BY DEF NoHal, HalTask
    <2>3. ParserRests /\ HalRests
      BY <1>0, <2>1, <2>2 DEF ParserRests, HalRests
    <2>4. ResetSteps /\ AfterReset /\ EndsParsing
      BY <1>0, <2>1, <2>2 DEF ResetSteps, AfterReset, EndsParsing
    <2>5. InfoOnce
      BY <1>0 DEF InfoOnce, OneInfoTask, OneInfoFrame, InfoTaskRests, InfoFrameRests, HasTask,
         InfoShown
    <2>6. TasksLeft
      BY <1>0, FlowAssumption DEF TasksLeft
    <2> QED  BY <2>3, <2>4, <2>5, <2>6 DEF Control
  <1>3. Calls = {} /\ CallsIn(ptodo) = {} /\ CallsIn(htodo) = {} /\ InOrder(ptodo) /\ InOrder(htodo)
    BY <1>0, NoCalls DEF Calls
  <1>4. InFlight = {}
    BY <1>0 DEF InFlight, Sent, Waiting, NoTask
  <1>5. ASSUME NEW i
        PROVE  /\ ~SetOut(i) /\ ~SetIn(i) /\ ~SetRef(i) /\ ~SetShow(i) /\ ~Show(i) /\ ~ClrOut(i)
               /\ ~ClrIn(i) /\ ~ClrRef(i) /\ ~ClrShow(i) /\ ~Forget(i)
    BY <1>3 DEF SetOut, SetIn, SetRef, SetShow, Show, ClrOut, ClrIn, ClrRef, ClrShow, Forget
  <1>6. Todo
    BY <1>3, <1>5 DEF Todo, ParserCalls, HalCalls, ReadsHeld
  <1>7. OnTheWay
    <2>1. IsFiniteSet(InFlight) /\ Cardinality(InFlight) = 0
      BY <1>4, FS_EmptySet
    <2>2. TasksFew
      BY <1>0, <2>1 DEF TasksFew, NoTask
    <2>3. TasksDiffer /\ TasksRefer /\ RefsDiffer
      BY <1>0, <1>4 DEF TasksDiffer, TasksRefer, RefsDiffer, Valid, NoRef
    <2> QED  BY <2>2, <2>3 DEF OnTheWay
  <1>8. ASSUME NEW i \in Slots
        PROVE  /\ ~InQ(i) /\ hcur # i /\ ~IsRef(i) /\ ~Writing(i) /\ Reads(i) = 0 /\ ~Forgotten(i)
               /\ ~Staged(i)
    <2>1. i # NoSlot
      BY DEF Slots, NoSlot
    <2>2. ~InQ(i) /\ hcur # i /\ ~IsRef(i) /\ ~Writing(i) /\ ~Forgotten(i)
      BY <1>0, <1>4, <2>1 DEF InQ, IsRef, NoRef, Writing, Forgotten, QueueTypes
    <2>3. Reads(i) = 0
      <3>1. ReadsOf(i, 1) = {} /\ ReadsOf(i, 2) = {}
        BY <1>4 DEF ReadsOf
      <3>2. Reads(i) = Cardinality(ReadsOf(i, 1)) + Cardinality(ReadsOf(i, 2))
        BY DEF Reads, Uses, ReadsOf
      <3>3. Cardinality({}) = 0
        BY FS_EmptySet
      <3> QED  BY <3>1, <3>2, <3>3
    <2> QED  BY <1>5, <2>2, <2>3 DEF Staged
  <1>9. Stages
    BY <1>0, <1>5, <1>8 DEF Stages, QueuedOnce, StagesDiffer, Displays, QueueTypes, NoTask,
       Valid, NoRef
  <1>10. FlagsExact
    <2> SUFFICES ASSUME NEW i \in Slots PROVE FlagsOf(i)
      BY DEF FlagsExact
    <2>1. slot[i] = EmptyEntry
      BY <1>0
    <2>2. /\ slot[i].on_used = FALSE /\ slot[i].not_ready = FALSE /\ slot[i].codec_use = FALSE
          /\ slot[i].hal_output = FALSE /\ slot[i].hal_use = 0 /\ slot[i].queue_use = 0
      BY <2>1 DEF EmptyEntry
    <2>3. InUses(i) /\ QueueUses(i)
      BY <1>5, <1>8, <2>2 DEF InUses, QueueUses, N
    <2>4. CodecUse(i) /\ Output(i) /\ NotReady(i)
      BY <1>5, <1>8, <2>2 DEF CodecUse, Output, NotReady
    <2>5. OnUse(i)
      <3>1. ~Needed(i)
        BY <1>5, <1>8 DEF Needed
      <3> QED  BY <2>2, <3>1 DEF OnUse
    <2> QED  BY <2>3, <2>4, <2>5 DEF FlagsOf
  <1>11. UsedCounted
    <2>1. UsedEntries = {}
      BY <1>0 DEF UsedEntries, EmptyEntry
    <2>2. Cardinality(UsedEntries) = 0
      BY <2>1, FS_EmptySet
    <2> QED  BY <1>0, <2>2, SlotsAssumption DEF UsedCounted
  <1> QED  BY <1>0, <1>1, <1>2, <1>6, <1>7, <1>9, <1>10, <1>11 DEF SlotInv

\* The invariant of the slots and the threads holds in every reachable state, for
\* every number of slots, buffers, geometries and pictures: the flags and counters
\* that mpp_dec.cpp's two threads and the parser set and clear are at every moment
\* those of the users an entry has, the calls still in hand included.
THEOREM SlotsFollowUsers == Spec => []SlotInv
  <1>1. Init => SlotInv
    BY SlotInvInit
  <1>2. SlotInv /\ [Next]_vars => SlotInv'
    BY SlotInvStep
  <1> QED  BY <1>1, <1>2, PTL DEF Spec

-----------------------------------------------------------------------------
(* The flush of the hal thread *)

\* One step changes the last reference without moving the parser thread only when
\* the hal thread flushes, and then the parser thread rests.
LEMMA FlushStep ==
    ASSUME SlotInv, [Next]_vars, ref0' # ref0, ppc' = ppc
    PROVE  ptodo = << >> /\ ppc \in {"top", "waithal"}
  <1>0. /\ ParserRests /\ HalRests /\ ResetSteps /\ InfoTaskRests /\ EndsParsing
        /\ procQ \in Seq(HalJobs) /\ ref0 \in Refs
    BY DEF SlotInv, Control, InfoOnce, Types, HalTypes, ParserTypes
  <1>1. Next
    BY DEF vars, parserVars
  <1>2. ~UserNext
    BY UserKeeps DEF parserVars
  <1>3. ~ParserNext
    <2> SUFFICES ASSUME ParserNext PROVE FALSE
      OBVIOUS
    <2>1. \/ (\E type \in {"I", "P", "B"}, size \in Infos, eos \in BOOLEAN : Parse(type, size, eos))
          \/ PrepareEos \/ ResetParser
      BY DEF ParserNext, PrevDone, ParseSkipped, SubmitEos, SendInfoChange, WaitInfoChange,
         NoBuffer,
         GetBuffer, Submit, ProcControl, parserVars, ResetPost, ResetDone, ResetDrain, ParserCall
    <2> QED  BY <2>1 DEF Parse, PrepareEos, ResetParser, TryProc
  <1>4. HalNext
    BY <1>1, <1>2, <1>3 DEF Next
  <1>5. HalTake \/ HwDone \/ HalReset
    BY <1>4 DEF HalNext, HalCall, HalDequeue, HalPut, HalEnd, parserVars
  <1>6. ppc \in {"top", "waithal"}
    <2>1. CASE HalTake
      <3>1. procQ # << >> /\ Head(procQ).kind = "info"
        BY <2>1 DEF HalTake
      <3>2. 1 \in DOMAIN procQ /\ Head(procQ) = procQ[1]
        BY <1>0, <3>1
      <3> QED  BY <1>0, <3>1, <3>2 DEF InfoTaskRests, HasTask
    <2>2. CASE HwDone
      <3>1. hal.eos
        BY <2>2 DEF HwDone, EndsStream
      <3> QED  BY <1>0, <3>1 DEF EndsParsing
    <2>3. CASE HalReset
      BY <1>0, <2>3 DEF HalReset, ResetSteps
    <2> QED  BY <1>5, <2>1, <2>2, <2>3
  <1> QED  BY <1>0, <1>6 DEF ParserRests

\* The hal thread runs the parser's flush (mpp_dec_flush in mpp_dec_push_display and
\* reset_hal_thread) without a lock, and never while the parser thread parses.
THEOREM FlushesRest == Spec => FlushWhileParserRests
  <1>1. SlotInv /\ [Next]_vars =>
          [ref0' # ref0 /\ ppc' = ppc => ptodo = << >> /\ ppc \in {"top", "waithal"}]_vars
    BY FlushStep
  <1> QED  BY <1>1, SlotsFollowUsers, PTL DEF Spec, FlushWhileParserRests
=============================================================================
