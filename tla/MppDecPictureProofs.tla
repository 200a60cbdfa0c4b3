-------------------------- MODULE MppDecPictureProofs --------------------------
(***************************************************************************)
(* More proofs about MppDecFlow, on the invariant of MppDecFlowProofs:     *)
(* every reference on a buffer has an owner, the hardware writes nothing   *)
(* that is read or shown, the table of slots is what the parser's gate     *)
(* takes it for, pictures are shown in the order of the display, and the   *)
(* end of the stream after all of them.                                    *)
(***************************************************************************)
EXTENDS MppDecFlowProofs

-----------------------------------------------------------------------------
(* The buffers *)

\* Entry i still has to be displayed; its picture has been, or was thrown away.
Awaited(i) == Show(i) \/ InQ(i) \/ hcur = i \/ (i = ref0.slot /\ ~ref0.enqueued)
Gone(i) == pic[i] \in dropped \/ \E k \in DOMAIN shown : shown[k] = pic[i]

\* Pictures have numbers of their own, and nobody has counted the next one.
Numbers ==
    /\ \A i \in Slots : pic[i] <= Len(coded)
    /\ \A i, j \in Slots : slot[i].on_used /\ slot[j].on_used /\ pic[i] = pic[j] => i = j
    /\ \A n \in dropped : n <= Len(coded)
    /\ \A k \in DOMAIN shown : shown[k] <= Len(coded)

\* What is on use is shown or thrown away, or on its way to the display, as is
\* everything that is still written.
Coming ==
    \A i \in Slots : /\ slot[i].on_used => (Awaited(i) <=> ~Gone(i))
                     /\ Writing(i) => Awaited(i)

\* An entry and its frame have one buffer, and no other entry has it; only the
\* picture that waits for a buffer has none.
Unbuffered(i) == task.parsed /\ ppc # "submit" /\ i = task.out
Framed == task.parsed /\ ppc # "drain" /\ ~Geometry(task.out)
EntryBuffers ==
    /\ \A i \in Slots :
         /\ slot[i].frameBuf = slot[i].buffer
         /\ ~slot[i].on_used => slot[i].buffer = NoBuf
         /\ slot[i].on_used => (slot[i].buffer = NoBuf <=> Unbuffered(i))
         /\ GiveBack(i) => pic[i] \in dropped /\ slot[i].buffer # NoBuf
    /\ \A i, j \in Slots : slot[i].buffer = slot[j].buffer /\ slot[i].buffer # NoBuf => i = j
    /\ Framed => slot[task.out].frame

\* A buffer leaves with one frame, and its entry's picture has been shown.
FrameBuffers ==
    /\ \A j, k \in DOMAIN frames : frames[j].buf = frames[k].buf /\ frames[j].buf # NoBuf => j = k
    /\ \A k \in DOMAIN frames : frames[k].buf \notin held
    /\ \A i \in Slots, k \in DOMAIN frames :
         slot[i].buffer # NoBuf /\ frames[k].buf = slot[i].buffer => Gone(i)
    /\ \A i \in Slots : slot[i].buffer \in held => Gone(i)

\* The references on a buffer: two of its entry, one of a picture that has not
\* been shown or thrown away, one of the frame sent or held.
Has(b) == \E i \in Slots : slot[i].buffer = b
HasExtra(b) == \E i \in Slots : slot[i].buffer = b /\ (~Gone(i) \/ GiveBack(i))
Sends(b) == \E k \in DOMAIN frames : frames[k].buf = b
RefsOf(b) == (IF Has(b) THEN 2 ELSE 0) + N(HasExtra(b)) + N(Sends(b)) + N(b \in held)
Referred == \A b \in Buffers : bufRef[b] = RefsOf(b)

\* A reset has emptied the display queue before Mpp::reset returns.
Emptied == flushDue /\ ~resetFlag => queue["DISPLAY"] = << >>

BuffersOk == Numbers /\ Coming /\ EntryBuffers /\ FrameBuffers /\ Referred
BufferInv == BuffersOk /\ Emptied

\* What still has to be displayed is on use.
LEMMA AwaitedUsed ==
    ASSUME SlotInv, NEW i \in Slots, Awaited(i)
    PROVE  slot[i].on_used /\ ~Forgotten(i)
  <1>1. EntryOk(i) /\ ResetSteps
    BY EntriesOk DEF SlotInv, Control
  <1>2. Staged(i) \/ IsRef(i)
    BY DEF Awaited, Staged, IsRef
  <1>3. ~Forgotten(i)
    <2> SUFFICES ASSUME Forgotten(i) PROVE FALSE
      OBVIOUS
    <2>1. ~Staged(i)
      BY <1>1 DEF EntryOk, StageOf
    <2>2. ref0 = NoRef /\ ref1 = NoRef
      BY <1>1 DEF Forgotten, ResetSteps
    <2> QED  BY <1>2, <2>1, <2>2 DEF IsRef, NoRef, NoSlot, Slots
  <1>4. Needed(i)
    BY <1>2 DEF Needed
  <1> QED  BY <1>1, <1>3, <1>4 DEF EntryOk, FlagsOf, OnUse

\* What is written is on use and not given up.
LEMMA WrittenUsed ==
    ASSUME SlotInv, NEW i \in Slots, Writing(i)
    PROVE  slot[i].on_used /\ ppc # "drain"
  <1>1. EntryOk(i) /\ ResetSteps
    BY EntriesOk DEF SlotInv, Control
  <1>2. ppc # "drain"
    <2> SUFFICES ASSUME ppc = "drain" PROVE FALSE
      OBVIOUS
    <2>1. procQ = << >>
      BY <1>1 DEF ResetSteps, HalAtRest
    <2>2. InFlight = {}
      BY <2>1 DEF InFlight, Sent, Waiting
    <2> QED  BY <2>2 DEF Writing
  <1> QED  BY <1>1, <1>2 DEF EntryOk, FlagsOf, OnUse, Needed, Forgotten

\* What the buffers of an entry depend on stays as it is.
EntryKept(i) ==
    /\ slot'[i].on_used = slot[i].on_used /\ (slot[i].frame => slot'[i].frame)
    /\ slot'[i].buffer = slot[i].buffer /\ slot'[i].frameBuf = slot[i].frameBuf
EntriesKept ==
    /\ UNCHANGED <<pic, shown, dropped>> /\ Len(coded) <= Len(coded')
    /\ \A i \in Slots : /\ EntryKept(i)
                        /\ Awaited(i)' <=> Awaited(i)
                        /\ GiveBack(i)' => GiveBack(i)
                        /\ Unbuffered(i)' <=> Unbuffered(i)
                        /\ Writing(i)' => Writing(i)
    /\ Framed' => slot'[task'.out].frame \/ (Framed /\ task'.out = task.out)
PutsKept == \A i \in Slots : GiveBack(i)' <=> GiveBack(i)
FramesKept == UNCHANGED <<bufRef, frames, held>>

\* Then the entries have the buffers they had.
LEMMA KeptEntries ==
    ASSUME SlotInv, BuffersOk, EntriesKept, Types'
    PROVE  /\ Numbers' /\ Coming' /\ EntryBuffers'
           /\ \A i : Gone(i)' <=> Gone(i)
           /\ \A b : Has(b)' <=> Has(b)
           /\ PutsKept => \A b : HasExtra(b)' <=> HasExtra(b)
  <1>0. /\ UNCHANGED <<pic, shown, dropped>> /\ Len(coded) <= Len(coded')
        /\ \A i \in Slots : /\ EntryKept(i)
                            /\ Awaited(i)' <=> Awaited(i)
                            /\ GiveBack(i)' => GiveBack(i)
                            /\ Unbuffered(i)' <=> Unbuffered(i)
                            /\ Writing(i)' => Writing(i)
        /\ Framed' => slot'[task'.out].frame \/ (Framed /\ task'.out = task.out)
    BY DEF EntriesKept
  <1>1. Numbers /\ Coming /\ EntryBuffers
    BY DEF BuffersOk
  <1>2. \A i : Gone(i)' <=> Gone(i)
    BY <1>0 DEF Gone
  <1>3. Numbers'
    <2>1. Len(coded) \in Nat /\ Len(coded') \in Nat
      BY DEF SlotInv, Types, OtherTypes
    <2>2. /\ \A i \in Slots : pic[i] \in Nat
          /\ \A k \in DOMAIN shown : shown[k] \in Nat
          /\ \A n \in dropped : n \in Nat
      BY DEF SlotInv, Types, OtherTypes
    <2>3. /\ \A i \in Slots : pic[i] <= Len(coded')
          /\ \A k \in DOMAIN shown : shown[k] <= Len(coded')
          /\ \A n \in dropped : n <= Len(coded')
      BY <1>0, <1>1, <2>1, <2>2 DEF Numbers
    <2>4. \A i, j \in Slots : slot'[i].on_used /\ slot'[j].on_used /\ pic[i] = pic[j] => i = j
      BY <1>0, <1>1 DEF Numbers, EntryKept
    <2> QED  BY <1>0, <2>3, <2>4 DEF Numbers
  <1>4. Coming'
    BY <1>0, <1>1, <1>2 DEF Coming, EntryKept
  <1>5. EntryBuffers'
    <2>1. (Framed => slot[task.out].frame)'
      <3> SUFFICES ASSUME Framed', Framed, task'.out = task.out PROVE slot'[task'.out].frame
        BY <1>0
      <3>1. task.out \in Slots
        BY ParsedTask DEF Framed
      <3> QED  BY <1>0, <1>1, <3>1 DEF EntryBuffers, EntryKept
    <2>2. \A i \in Slots : /\ slot'[i].frameBuf = slot'[i].buffer
                           /\ ~slot'[i].on_used => slot'[i].buffer = NoBuf
                           /\ slot'[i].on_used => (slot'[i].buffer = NoBuf <=> Unbuffered(i)')
                           /\ GiveBack(i)' => pic'[i] \in dropped' /\ slot'[i].buffer # NoBuf
      BY <1>0, <1>1 DEF EntryBuffers, EntryKept
    <2>3. \A i, j \in Slots : slot'[i].buffer = slot'[j].buffer /\ slot'[i].buffer # NoBuf => i = j
      BY <1>0, <1>1 DEF EntryBuffers, EntryKept
    <2> QED  BY <2>1, <2>2, <2>3 DEF EntryBuffers
  <1>6. \A b : Has(b)' <=> Has(b)
    BY <1>0 DEF Has, EntryKept
  <1>7. PutsKept => \A b : HasExtra(b)' <=> HasExtra(b)
    BY <1>0, <1>2 DEF PutsKept, HasExtra, EntryKept
  <1> QED  BY <1>2, <1>3, <1>4, <1>5, <1>6, <1>7

\* And if no frame moves, the references on the buffers are those of their owners.
LEMMA KeptBuffers ==
    ASSUME SlotInv, BuffersOk, EntriesKept, PutsKept, FramesKept, Types'
    PROVE  BuffersOk'
  <1>0. FrameBuffers /\ Referred /\ UNCHANGED <<bufRef, frames, held>>
        /\ \A i \in Slots : EntryKept(i)
    BY DEF BuffersOk, EntriesKept, FramesKept
  <1>1. /\ Numbers' /\ Coming' /\ EntryBuffers'
        /\ \A i : Gone(i)' <=> Gone(i)
        /\ \A b : (Has(b)' <=> Has(b)) /\ (HasExtra(b)' <=> HasExtra(b))
    BY KeptEntries
  <1>2. FrameBuffers'
    BY <1>0, <1>1 DEF FrameBuffers, EntryKept
  <1>3. Referred'
    <2>1. \A b : Sends(b)' <=> Sends(b)
      BY <1>0 DEF Sends
    <2>2. \A b : RefsOf(b)' = RefsOf(b)
      BY <1>0, <1>1, <2>1 DEF RefsOf, N
    <2> QED  BY <1>0, <2>2 DEF Referred
  <1> QED  BY <1>1, <1>2, <1>3 DEF BuffersOk

\* The steps that make no call on the slots and move no frame.
StillStep ==
    \/ PrevDone \/ (\E eos \in BOOLEAN : ParseSkipped(eos)) \/ SubmitEos
    \/ SendInfoChange \/ WaitInfoChange \/ NoBuffer \/ Submit \/ ProcControl \/ ResetPost \/ UserReset

\* They leave the buffers alone.
LEMMA StillBuffers == ASSUME SlotInv, BuffersOk, StillStep, Types' PROVE BuffersOk'
  <1>0. ParserRests /\ task \in DecTasks /\ coded \in Seq({"I", "P", "B", "N"})
    BY DEF SlotInv, Control, Types, ParserTypes, OtherTypes
  <1>1. UNCHANGED <<slot, queue, bufRef, pic, shown, dropped, frames, held, hcur, ref0, ptodo, htodo>>
    BY DEF StillStep, PrevDone, ParseSkipped, SubmitEos, SendInfoChange, WaitInfoChange, NoBuffer,
       Submit, ProcControl, Ready, ResetPost, UserReset, slotVars, parserVars, halVars, outVars, histVars
  <1>2. Len(coded) <= Len(coded')
    <2>1. coded' = coded \/ coded' = Append(coded, "N")
      BY DEF StillStep, PrevDone, ParseSkipped, SubmitEos, SendInfoChange, WaitInfoChange, NoBuffer,
         Submit, ProcControl, ResetPost, UserReset, histVars
    <2> QED  BY <1>0, <2>1
  <1>3. Calls' = Calls
    BY <1>1 DEF Calls
  <1>4. \A i : (Awaited(i)' <=> Awaited(i)) /\ (GiveBack(i)' <=> GiveBack(i)) /\ (Geometry(i)' <=> Geometry(i))
    BY <1>1, <1>3 DEF Awaited, Show, InQ, GiveBack, Geometry
  <1>5. InFlight' = InFlight
    BY FlightSame DEF StillStep, OtherStep, UserNext
  <1>6. \/ task'.parsed = task.parsed /\ task'.out = task.out /\ ppc # "submit" /\ ppc' # "submit"
           /\ (ppc' = "drain" <=> ppc = "drain")
        \/ (~task.parsed \/ ppc = "submit") /\ ~task'.parsed
        \/ UNCHANGED <<task, ppc>>
    <2>1. CASE Submit
      BY <2>1 DEF Submit, NoTask
    <2>2. CASE PrevDone
      BY <1>0, <2>2 DEF PrevDone, DecTasks, TryProc
    <2>3. CASE (\E eos \in BOOLEAN : ParseSkipped(eos)) \/ ProcControl \/ UserReset
      BY <2>3 DEF ParseSkipped, ProcControl, UserReset, parserVars
    <2>4. CASE SubmitEos
      BY <1>0, <2>4 DEF SubmitEos, ParserRests
    <2>5. CASE SendInfoChange \/ WaitInfoChange \/ NoBuffer
      BY <1>0, <2>5 DEF SendInfoChange, WaitInfoChange, NoBuffer, Parsed, TryProc, DecTasks
    <2>6. CASE ResetPost
      BY <2>6 DEF ResetPost
    <2> QED  BY <2>1, <2>2, <2>3, <2>4, <2>5, <2>6 DEF StillStep
  <1>7. \A i : Unbuffered(i)' <=> Unbuffered(i)
    BY <1>6 DEF Unbuffered
  <1>8. Framed' => Framed /\ task'.out = task.out
    BY <1>4, <1>6 DEF Framed, Geometry
  <1>9. \A i : Writing(i)' => Writing(i)
    BY <1>5 DEF Writing
  <1>10. \A i \in Slots : EntryKept(i)
    BY <1>1 DEF EntryKept
  <1>11. EntriesKept /\ PutsKept /\ FramesKept
    BY <1>1, <1>2, <1>4, <1>7, <1>8, <1>9, <1>10 DEF EntriesKept, PutsKept, FramesKept
  <1> QED  BY <1>11, KeptBuffers

\* A flush moves the last reference on its way to the display.
LEMMA FlushAwaits ==
    ASSUME SlotInv, UNCHANGED <<queue, hcur>>, ref0' = Flushed(ref0),
           NEW C, Calls' = Calls \cup C, \A i \in Slots : Show(i)' <=> Show(i) \/ (Flushes /\ i = ref0.slot),
           NEW i \in Slots
    PROVE  Awaited(i)' <=> Awaited(i)
  <1>1. ref0'.slot = ref0.slot /\ (ref0'.enqueued <=> Valid(ref0) \/ ref0.enqueued)
    BY FlushedTypes DEF SlotInv, Types, ParserTypes
  <1>2. InQ(i)' <=> InQ(i)
    BY QueueSame
  <1>3. i # NoSlot
    BY DEF Slots, NoSlot
  <1> QED  BY <1>1, <1>2, <1>3 DEF Awaited, Flushes, Valid

\* What the flush of either thread takes in hand.
LEMMA FlushHand ==
    ASSUME SlotInv, HalTake \/ HalReset \/ PrepareEos
    PROVE  \/ Calls' = Calls \cup FlushSet(ref0) /\ ref0' = Flushed(ref0)
           \/ Calls' = Calls /\ ref0' = ref0
  <1>0. ParserRests /\ HalRests /\ ref0 \in Refs
    BY DEF SlotInv, Control, Types, ParserTypes
  <1>1. CallsIn(FlushCalls(ref0)) = FlushSet(ref0) /\ CallsIn(<< >>) = {}
    BY <1>0, FlushLists, NoCalls DEF Lists
  <1>2. CASE HalTake
    BY <1>0, <1>1, <1>2 DEF HalTake, HalRests, Calls
  <1>3. CASE HalReset
    BY <1>0, <1>1, <1>3 DEF HalReset, HalIdle, HalRests, Calls
  <1>4. CASE PrepareEos
    BY <1>0, <1>1, <1>4 DEF PrepareEos, TryProc, ParserRests, Calls, halVars
  <1> QED  BY <1>2, <1>3, <1>4

\* The flushes leave the buffers alone too.
LEMMA FlushBuffers ==
    ASSUME SlotInv, BuffersOk, HalTake \/ HalReset \/ PrepareEos, Types'
    PROVE  BuffersOk'
  <1>0. ParserRests /\ HalRests
    BY DEF SlotInv, Control
  <1>1. UNCHANGED <<slot, queue, bufRef, pic, shown, dropped, frames, held, hcur, task, coded>>
    BY DEF HalTake, HalReset, PrepareEos, slotVars, halVars, outVars, histVars
  <1>2. (Calls' = Calls \cup FlushSet(ref0) /\ ref0' = Flushed(ref0)) \/ (Calls' = Calls /\ ref0' = ref0)
    BY FlushHand
  <1>3. ASSUME NEW i \in Slots
        PROVE  (Awaited(i)' <=> Awaited(i)) /\ (GiveBack(i)' <=> GiveBack(i))
    <2>1. CASE Calls' = Calls \cup FlushSet(ref0) /\ ref0' = Flushed(ref0)
      <3>1. Awaited(i)' <=> Awaited(i)
        BY <1>1, <2>1, FlushAdds, FlushAwaits
      <3>2. GiveBack(i)' <=> GiveBack(i)
        BY <2>1 DEF GiveBack, FlushSet, ShowSet
      <3> QED  BY <3>1, <3>2
    <2>2. CASE Calls' = Calls /\ ref0' = ref0
      BY <1>1, <2>2 DEF Awaited, Show, InQ, GiveBack
    <2> QED  BY <1>2, <2>1, <2>2
  <1>4. Geometry(task.out)' <=> Geometry(task.out)
    BY <1>1, <1>2 DEF Geometry, FlushSet, ShowSet
  <1>5. ppc' = ppc \/ (ppc = "top" /\ ppc' = "eos")
    BY DEF HalTake, HalReset, PrepareEos, TryProc
  <1>6. InFlight' = InFlight
    BY FlightSame DEF OtherStep
  <1>7. /\ \A i \in Slots : EntryKept(i)
        /\ \A i : Unbuffered(i)' <=> Unbuffered(i)
        /\ Framed' => Framed /\ task'.out = task.out
        /\ \A i : Writing(i)' => Writing(i)
    BY <1>1, <1>4, <1>5, <1>6 DEF EntryKept, Unbuffered, Framed, Writing
  <1>8. Len(coded) <= Len(coded')
    BY <1>1 DEF SlotInv, Types, OtherTypes
  <1> QED  BY <1>1, <1>3, <1>7, <1>8, KeptBuffers DEF EntriesKept, PutsKept, FramesKept

\* The end of the hardware's work, and the parser's own reset.
LEMMA DoneBuffers == ASSUME SlotInv, BuffersOk, HwDone, Types' PROVE BuffersOk'
  <1>1. /\ Calls' = Calls \cup DoneSet(hal) \cup (IF EndsStream(hal) THEN FlushSet(ref0) ELSE {})
        /\ ref0' = (IF EndsStream(hal) THEN Flushed(ref0) ELSE ref0)
        /\ UNCHANGED <<slot, queue, hcur, usedCount, slotError, ref1, task, ppc>>
        /\ InFlight' = InFlight \ {hal}
    BY DoneFacts
  <1>2. UNCHANGED <<bufRef, pic, shown, dropped, frames, held, coded>>
    BY DEF HwDone, slotVars, outVars
  <1>3. \A c : c \in DoneSet(hal) => c[1] = "clr"
    BY DEF DoneSet, ClrInSet
  <1>4. ASSUME NEW i
        PROVE  /\ GiveBack(i)' <=> GiveBack(i)
               /\ Geometry(i)' <=> Geometry(i)
               /\ Show(i)' <=> Show(i) \/ (EndsStream(hal) /\ Flushes /\ i = ref0.slot)
    <2>1. GiveBack(i)' <=> GiveBack(i)
      BY <1>1, <1>3 DEF GiveBack, FlushSet, ShowSet
    <2>2. Geometry(i)' <=> Geometry(i)
      BY <1>1, <1>3 DEF Geometry, FlushSet, ShowSet
    <2>3. Show(i)' <=> Show(i) \/ (EndsStream(hal) /\ Flushes /\ i = ref0.slot)
      <3> DEFINE c == <<"enqueue", i, "DISPLAY">>
      <3>1. c \notin DoneSet(hal)
        BY <1>3
      <3>2. c \in FlushSet(ref0) <=> Flushes /\ i = ref0.slot
        BY DEF FlushSet, ShowSet, Flushes
      <3> QED  BY <1>1, <3>1, <3>2 DEF Show
    <2> QED  BY <2>1, <2>2, <2>3
  <1>5. ASSUME NEW i \in Slots PROVE Awaited(i)' <=> Awaited(i)
    <2>1. CASE EndsStream(hal)
      <3>1. ref0'.slot = ref0.slot /\ (ref0'.enqueued <=> Valid(ref0) \/ ref0.enqueued)
        BY <1>1, <2>1, FlushedTypes DEF SlotInv, Types, ParserTypes
      <3>2. InQ(i)' <=> InQ(i)
        BY <1>1, QueueSame
      <3>3. i # NoSlot
        BY DEF Slots, NoSlot
      <3> QED  BY <1>1, <1>4, <2>1, <3>1, <3>2, <3>3 DEF Awaited, Flushes, Valid
    <2>2. CASE ~EndsStream(hal)
      BY <1>1, <1>4, <2>2 DEF Awaited, InQ
    <2> QED  BY <2>1, <2>2
  <1>6. /\ \A i \in Slots : EntryKept(i)
        /\ \A i : Unbuffered(i)' <=> Unbuffered(i)
        /\ Framed' => Framed /\ task'.out = task.out
        /\ \A i : Writing(i)' => Writing(i)
    BY <1>1, <1>4 DEF EntryKept, Unbuffered, Framed, Geometry, Writing
  <1>7. Len(coded) <= Len(coded')
    BY <1>2 DEF SlotInv, Types, OtherTypes
  <1> QED  BY <1>2, <1>4, <1>5, <1>6, <1>7, KeptBuffers DEF EntriesKept, PutsKept, FramesKept

\* The parser's reset, and its list of calls, keep the buffers exact.
LEMMA ResetParserBuffers == ASSUME SlotInv, BuffersOk, ResetParser, Types' PROVE BuffersOk'
  <1>1. /\ Calls = {} /\ Calls' = ResetSet /\ hcur = NoSlot /\ FlushSet(ref0) = {}
        /\ ppc = "waithal" /\ ppc' = "drain" /\ ref0' = NoRef
        /\ InFlight' = {}
        /\ UNCHANGED <<slot, queue, hcur, usedCount, slotError, task>>
    BY ResetFacts
  <1>2. UNCHANGED <<bufRef, pic, shown, dropped, frames, held, coded>>
    BY DEF ResetParser, slotVars, outVars, histVars
  <1>3. ~Flushes
    <2>1. Flushes => FlushSet(ref0) = ShowSet(ref0.slot)
      BY DEF FlushSet, Flushes
    <2>2. ShowSet(ref0.slot) # {}
      BY DEF ShowSet
    <2> QED  BY <1>1, <2>1, <2>2
  <1>4. \A c \in ResetSet : c[1] \in {"clr", "reset"}
    BY <1>1, <1>3 DEF ResetSet, FlushSet, Flushes, UnrefSet, DoneSet, ClrInSet
  <1>5. ASSUME NEW i \in Slots
        PROVE  /\ Awaited(i)' <=> Awaited(i)
               /\ ~GiveBack(i) /\ ~GiveBack(i)'
    <2>1. ~Show(i) /\ ~Show(i)' /\ ~GiveBack(i) /\ ~GiveBack(i)'
      BY <1>1, <1>4 DEF Show, GiveBack
    <2>2. i # NoSlot
      BY DEF Slots, NoSlot
    <2>3. ~(i = ref0.slot /\ ~ref0.enqueued) /\ ~(i = ref0'.slot /\ ~ref0'.enqueued)
      BY <1>1, <1>3, <2>2 DEF Flushes, Valid, NoRef
    <2>4. InQ(i)' <=> InQ(i)
      BY <1>1, QueueSame
    <2> QED  BY <1>1, <2>1, <2>3, <2>4 DEF Awaited
  <1>6. /\ \A i \in Slots : EntryKept(i)
        /\ \A i : Unbuffered(i)' <=> Unbuffered(i)
        /\ ~Framed'
        /\ \A i : ~Writing(i)'
    BY <1>1 DEF EntryKept, Unbuffered, Framed, Writing
  <1>7. Len(coded) <= Len(coded')
    BY <1>2 DEF SlotInv, Types, OtherTypes
  <1> QED  BY <1>2, <1>5, <1>6, <1>7, KeptBuffers DEF EntriesKept, PutsKept, FramesKept

\* The hal thread takes a picture out of the display queue.
LEMMA TakenBuffers ==
    ASSUME SlotInv, BuffersOk, NEW i \in Slots, HalDequeue(i), Types'
    PROVE  BuffersOk'
  <1>0. /\ HalRests /\ SlotTypes /\ slot[i] \in SlotEntry
    BY DEF SlotInv, Control, Types, SlotTypes
  <1>1. /\ hpc = "push" /\ hcur' = i /\ Dequeue(i, "DISPLAY")
        /\ UNCHANGED <<ref0, ref1, ppc, task, ptodo, htodo, procQ>>
        /\ UNCHANGED <<pic, shown, dropped, frames, held, coded>>
    BY DEF HalDequeue, parserVars, outVars, histVars
  <1>2. InFlight' = InFlight
    BY FlightSame DEF OtherStep
  <1>3. Calls' = Calls /\ hcur = NoSlot
    BY <1>0, <1>1 DEF Calls, HalRests
  <1>4. OnlyEntry(i) /\ InQ(i) /\ ~InQ(i)' /\ (\A y : y # i => (InQ(y)' <=> InQ(y)))
    BY <1>1, DequeueFacts
  <1>5. /\ UNCHANGED bufRef
        /\ slot'[i] = [slot[i] EXCEPT !.queue_use = IF slot[i].queue_use > 0
                                                   THEN slot[i].queue_use - 1 ELSE slot[i].queue_use]
    BY <1>0, <1>1, DequeueEffect
  <1>6. ASSUME NEW j \in Slots PROVE EntryKept(j)
    <2>1. CASE j = i
      BY <1>0, <1>5, <2>1 DEF EntryKept, SlotEntry
    <2>2. CASE j # i
      BY <1>4, <2>2 DEF EntryKept, OnlyEntry
    <2> QED  BY <2>1, <2>2
  <1>7. ASSUME NEW j \in Slots
        PROVE  /\ Awaited(j)' <=> Awaited(j)
               /\ GiveBack(j)' <=> GiveBack(j)
               /\ Writing(j)' => Writing(j)
               /\ Unbuffered(j)' <=> Unbuffered(j)
    <2>1. j # NoSlot
      BY DEF Slots, NoSlot
    <2>2. (Show(j)' <=> Show(j)) /\ (GiveBack(j)' <=> GiveBack(j))
      BY <1>3 DEF Show, GiveBack
    <2>3. Awaited(j)' <=> Awaited(j)
      BY <1>1, <1>3, <1>4, <2>1, <2>2 DEF Awaited
    <2> QED  BY <1>1, <1>2, <2>2, <2>3 DEF Writing, Unbuffered
  <1>8. Framed' => Framed /\ task'.out = task.out
    BY <1>1, <1>3 DEF Framed, Geometry
  <1>9. Len(coded) <= Len(coded')
    BY <1>1 DEF SlotInv, Types, OtherTypes
  <1> QED  BY <1>1, <1>5, <1>6, <1>7, <1>8, <1>9, KeptBuffers DEF EntriesKept, PutsKept, FramesKept

\* An entry without its buffer leaves the others as they are.
LEMMA LeftBuffers ==
    ASSUME SlotInv, BuffersOk, NEW i \in Slots, OnlyEntry(i),
           UNCHANGED <<pic, shown, dropped, coded, frames, held, task, ppc>>,
           ~slot'[i].on_used, slot'[i].buffer = NoBuf, slot'[i].frameBuf = NoBuf,
           ~GiveBack(i), \A j : GiveBack(j)' <=> GiveBack(j), ~Writing(i)',
           \A j \in Slots : j # i => (Awaited(j)' <=> Awaited(j)),
           \A j \in Slots : Writing(j)' => Writing(j),
           task.parsed /\ ppc # "drain" => task.out # i,
           Geometry(task.out)' <=> Geometry(task.out),
           Gone(i) \/ slot[i].buffer = NoBuf,
           \A b \in Buffers : bufRef'[b] = bufRef[b] - (IF slot[i].buffer = b THEN 2 ELSE 0)
    PROVE  BuffersOk'
  <1>0. Numbers /\ Coming /\ EntryBuffers /\ FrameBuffers /\ Referred /\ NoBuf \notin Buffers
    BY SlotsAssumption DEF BuffersOk
  <1>1. \A j \in Slots : j # i => slot'[j] = slot[j]
    BY DEF OnlyEntry
  <1>2. \A j : Gone(j)' <=> Gone(j)
    BY DEF Gone
  <1>3. Numbers'
    BY <1>0, <1>1 DEF Numbers
  <1>4. Coming'
    BY <1>0, <1>1, <1>2 DEF Coming
  <1>5. EntryBuffers'
    <2>1. ASSUME Framed' PROVE slot'[task'.out].frame
      <3>1. Framed /\ task.out # i /\ task.out \in Slots
        BY <2>1, ParsedTask DEF Framed, Geometry
      <3> QED  BY <1>0, <1>1, <3>1 DEF EntryBuffers
    <2>2. \A j : Unbuffered(j)' <=> Unbuffered(j)
      BY DEF Unbuffered
    <2>3. ASSUME NEW j \in Slots
          PROVE  /\ slot'[j].frameBuf = slot'[j].buffer
                 /\ ~slot'[j].on_used => slot'[j].buffer = NoBuf
                 /\ slot'[j].on_used => (slot'[j].buffer = NoBuf <=> Unbuffered(j)')
                 /\ GiveBack(j)' => pic'[j] \in dropped' /\ slot'[j].buffer # NoBuf
      <3>1. CASE j = i
        BY <3>1
      <3>2. CASE j # i
        BY <1>0, <1>1, <2>2, <3>2 DEF EntryBuffers
      <3> QED  BY <3>1, <3>2
    <2>4. \A j, k \in Slots : slot'[j].buffer = slot'[k].buffer /\ slot'[j].buffer # NoBuf => j = k
      BY <1>0, <1>1 DEF EntryBuffers
    <2> QED  BY <2>1, <2>3, <2>4 DEF EntryBuffers
  <1>6. FrameBuffers'
    <2>1. \A j \in Slots : slot'[j].buffer = NoBuf \/ slot'[j].buffer = slot[j].buffer
      BY <1>1
    <2>2. NoBuf \notin held
      BY <1>0 DEF SlotInv, Types, OtherTypes
    <2> QED  BY <1>0, <1>2, <2>1, <2>2 DEF FrameBuffers
  <1>7. Referred'
    <2> SUFFICES ASSUME NEW b \in Buffers PROVE bufRef'[b] = RefsOf(b)'
      BY DEF Referred
    <2>0. bufRef[b] = RefsOf(b) /\ b # NoBuf
      BY <1>0 DEF Referred
    <2>1. Sends(b)' <=> Sends(b)
      BY DEF Sends
    <2>2. CASE slot[i].buffer = b
      <3>1. Has(b) /\ \A j \in Slots : slot[j].buffer = b => j = i
        BY <1>0, <2>0, <2>2 DEF Has, EntryBuffers
      <3>2. ~Has(b)' /\ ~HasExtra(b)'
        BY <1>1, <2>0, <3>1 DEF Has, HasExtra
      <3>3. ~HasExtra(b)
        BY <2>0, <2>2, <3>1 DEF HasExtra
      <3>4. RefsOf(b) = 2 + N(Sends(b)) + N(b \in held)
        BY <3>1, <3>3 DEF RefsOf, N
      <3>5. RefsOf(b)' = N(Sends(b)) + N(b \in held)
        BY <2>1, <3>2 DEF RefsOf, N
      <3>6. bufRef'[b] = bufRef[b] - 2
        BY <2>2
      <3> QED  BY <2>0, <3>4, <3>5, <3>6 DEF N
    <2>3. CASE slot[i].buffer # b
      <3>1. (Has(b)' <=> Has(b)) /\ (HasExtra(b)' <=> HasExtra(b))
        BY <1>1, <1>2, <2>0, <2>3 DEF Has, HasExtra
      <3>2. RefsOf(b)' = RefsOf(b)
        BY <2>1, <3>1 DEF RefsOf, N
      <3>3. bufRef'[b] = bufRef[b] /\ RefsOf(b) \in Int
        BY <2>0, <2>3 DEF RefsOf, N, SlotInv, Types, SlotTypes
      <3> QED  BY <2>0, <3>2, <3>3
    <2> QED  BY <2>2, <2>3
  <1> QED  BY <1>3, <1>4, <1>5, <1>6, <1>7 DEF BuffersOk

\* What a call leaves as it is.
LEMMA CallLeaves ==
    ASSUME SlotInv, NEW c, MadeCall(c)
    PROVE  /\ c \in SlotCalls /\ c[2] \in Slots /\ Call(c) /\ SlotTypes
           /\ UNCHANGED <<pic, shown, dropped, coded, frames, held, task, ppc, ref0, hcur>>
           /\ Len(coded) <= Len(coded')
           /\ \A j : GiveBack(j)' <=> GiveBack(j) /\ ~(c[1] = "put" /\ c[2] = j)
           /\ \A j : c[1] # "frame" => (Geometry(j)' <=> Geometry(j))
           /\ \A j : Geometry(j)' => Geometry(j)
           /\ \A j : Show(j)' <=> Show(j) /\ ~(c[1] = "enqueue" /\ c[2] = j)
           /\ \A j : Unbuffered(j)' <=> Unbuffered(j)
  <1>1. /\ c \in SlotCalls /\ Call(c) /\ Calls' = Calls \ {c}
        /\ UNCHANGED <<pic, shown, dropped, coded, frames, held, task, ppc, ref0, hcur>>
    BY DEF MadeCall
  <1>2. c[2] \in Slots
    BY <1>1, CallKinds
  <1>3. Len(coded) <= Len(coded') /\ SlotTypes
    BY <1>1 DEF SlotInv, Types, OtherTypes
  <1>4. ASSUME NEW j PROVE GiveBack(j)' <=> GiveBack(j) /\ ~(c[1] = "put" /\ c[2] = j)
    <2>1. c = <<"put", j, 0>> <=> c[1] = "put" /\ c[2] = j
      BY <1>1, CallKinds
    <2> QED  BY <1>1, <2>1 DEF GiveBack
  <1>5. ASSUME NEW j
        PROVE  /\ c[1] # "frame" => (Geometry(j)' <=> Geometry(j))
               /\ Geometry(j)' => Geometry(j)
    <2>1. ASSUME c[1] # "frame", NEW z PROVE <<"frame", j, z>> \in Calls' <=> <<"frame", j, z>> \in Calls
      <3>1. <<"frame", j, z>> # c
        BY <2>1
      <3> QED  BY <1>1, <3>1
    <2>2. \A d : d \in Calls' => d \in Calls
      BY <1>1
    <2> QED  BY <2>1, <2>2 DEF Geometry
  <1>6. \A j : Show(j)' <=> Show(j) /\ ~(c[1] = "enqueue" /\ c[2] = j)
    BY <1>1, CallRemoves
  <1>7. \A j : Unbuffered(j)' <=> Unbuffered(j)
    BY <1>1 DEF Unbuffered
  <1> QED  BY <1>1, <1>2, <1>3, <1>4, <1>5, <1>6, <1>7

\* A call that moves no entry between the queue and its list leaves what is awaited.
LEMMA CallAwaits ==
    ASSUME SlotInv, NEW c, MadeCall(c), UNCHANGED queue, c[1] # "enqueue"
    PROVE  \A j \in Slots : Awaited(j)' <=> Awaited(j)
  <1>1. \A j : (Show(j)' <=> Show(j)) /\ UNCHANGED <<ref0, hcur>>
    BY CallLeaves
  <1>2. \A j : InQ(j)' <=> InQ(j)
    BY QueueSame
  <1> QED  BY <1>1, <1>2 DEF Awaited

\* The calls that set a use, put an entry into the queue or copy a frame.
LEMMA SetBuffers ==
    ASSUME SlotInv, BuffersOk, NEW c, MadeCall(c), InFlight' = InFlight, Types',
           c[1] \in {"set", "enqueue", "frame"}
    PROVE  BuffersOk'
  <1> DEFINE i == c[2]
  <1>0. /\ c \in SlotCalls /\ i \in Slots /\ Call(c) /\ SlotTypes /\ slot[i] \in SlotEntry
        /\ UNCHANGED <<pic, shown, dropped, coded, frames, held, task, ppc, ref0, hcur>>
        /\ Len(coded) <= Len(coded') /\ CallIs(c)
        /\ \A j : GiveBack(j)' <=> GiveBack(j)
        /\ \A j : c[1] # "frame" => (Geometry(j)' <=> Geometry(j))
        /\ \A j : Geometry(j)' => Geometry(j)
        /\ \A j : Show(j)' <=> Show(j) /\ ~(c[1] = "enqueue" /\ c[2] = j)
        /\ \A j : Unbuffered(j)' <=> Unbuffered(j)
    BY CallLeaves, CallEntry
  <1>1. \A j : Writing(j)' <=> Writing(j)
    BY DEF Writing
  <1>2. \/ c[1] = "set" /\ c[3] \in Flags /\ SetFlag(i, c[3])
        \/ c[1] = "enqueue" /\ Enqueue(i, "DISPLAY")
        \/ c[1] = "frame" /\ c[3] \in Infos /\ SetFrame(i, c[3])
    BY <1>0, CallEffect
  <1>s. CASE c[1] = "set" /\ c[3] \in Flags /\ SetFlag(i, c[3])
    <2>1. OnlyEntry(i) /\ slot'[i] = SetOp(slot[i], c[3]) /\ UNCHANGED <<queue, bufRef>>
      BY <1>0, <1>s, SetFlagEffect
    <2>2. \A j \in Slots : EntryKept(j)
      <3> TAKE j \in Slots
      <3>1. CASE j = i
        <4>1. /\ slot'[i].on_used = slot[i].on_used /\ slot'[i].frame = slot[i].frame
              /\ slot'[i].buffer = slot[i].buffer /\ slot'[i].frameBuf = slot[i].frameBuf
          BY <1>0, <2>1 DEF SetOp, SlotEntry
        <4> QED  BY <3>1, <4>1 DEF EntryKept
      <3>2. CASE j # i
        BY <2>1, <3>2 DEF EntryKept, OnlyEntry
      <3> QED  BY <3>1, <3>2
    <2>3. \A j \in Slots : Awaited(j)' <=> Awaited(j)
      BY <1>s, <2>1, CallAwaits
    <2>4. Framed' => Framed /\ task'.out = task.out
      BY <1>0, <1>s DEF Framed, Geometry
    <2> HIDE DEF i
    <2> QED  BY <1>0, <1>1, <2>1, <2>2, <2>3, <2>4, KeptBuffers DEF EntriesKept, PutsKept,
                FramesKept
  <1>e. CASE c[1] = "enqueue" /\ Enqueue(i, "DISPLAY")
    <2>1. /\ OnlyEntry(i) /\ UNCHANGED bufRef
          /\ slot'[i] = [slot[i] EXCEPT !.queue_use = (slot[i].queue_use + 1) % 32]
          /\ queue'["DISPLAY"] = Append(Without(queue["DISPLAY"], i), i)
      BY <1>0, <1>e, EnqueueEffect
    <2>2. \A j \in Slots : EntryKept(j)
      <3> TAKE j \in Slots
      <3>1. CASE j = i
        <4>1. /\ slot'[i].on_used = slot[i].on_used /\ slot'[i].frame = slot[i].frame
              /\ slot'[i].buffer = slot[i].buffer /\ slot'[i].frameBuf = slot[i].frameBuf
          BY <1>0, <2>1 DEF SlotEntry
        <4> QED  BY <3>1, <4>1 DEF EntryKept
      <3>2. CASE j # i
        BY <2>1, <3>2 DEF EntryKept, OnlyEntry
      <3> QED  BY <3>1, <3>2
    <2>3. InQ(i)' /\ \A y : y # i => (InQ(y)' <=> InQ(y))
      BY <1>0, <2>1, QueueJoined, CallEntry
    <2>4. Show(i)
      <3>1. c = <<"enqueue", i, "DISPLAY">>
        BY <1>0, <1>e, CallKinds
      <3> QED  BY <3>1 DEF Show, MadeCall
    <2>5. \A j \in Slots : Awaited(j)' <=> Awaited(j)
      <3> TAKE j \in Slots
      <3>1. CASE j = i
        BY <2>3, <2>4, <3>1 DEF Awaited
      <3>2. CASE j # i
        <4>1. (Show(j)' <=> Show(j)) /\ (InQ(j)' <=> InQ(j))
          BY <1>0, <2>3, <3>2
        <4> QED  BY <1>0, <4>1 DEF Awaited
      <3> QED  BY <3>1, <3>2
    <2>6. Framed' => Framed /\ task'.out = task.out
      BY <1>0, <1>e DEF Framed, Geometry
    <2> HIDE DEF i
    <2> QED  BY <1>0, <1>1, <1>e, <2>1, <2>2, <2>5, <2>6, KeptBuffers DEF EntriesKept, PutsKept,
                FramesKept
  <1>f. CASE c[1] = "frame" /\ c[3] \in Infos /\ SetFrame(i, c[3])
    <2>1. /\ OnlyEntry(i) /\ UNCHANGED <<queue, bufRef>>
          /\ slot'[i] = [slot[i] EXCEPT !.frame = TRUE, !.frameBuf = NoBuf]
      BY <1>0, <1>f, SetFrameEffect
    <2>2. i = task.out /\ ppc = "check" /\ task.parsed
      BY <1>0, <1>f DEF CallIs, SlotInv, Control, ParserRests
    <2>3. slot[i].frameBuf = NoBuf
      <3>1. Unbuffered(i)
        BY <2>2 DEF Unbuffered
      <3> QED  BY <1>0, <3>1 DEF BuffersOk, EntryBuffers
    <2>4. /\ slot'[i].on_used = slot[i].on_used /\ slot'[i].frame
          /\ slot'[i].buffer = slot[i].buffer /\ slot'[i].frameBuf = slot[i].frameBuf
      BY <1>0, <2>1, <2>3 DEF SlotEntry
    <2>5. \A j \in Slots : EntryKept(j)
      BY <2>1, <2>4 DEF EntryKept, OnlyEntry
    <2>6. \A j \in Slots : Awaited(j)' <=> Awaited(j)
      BY <1>f, <2>1, CallAwaits
    <2>7. slot'[task'.out].frame
      BY <1>0, <2>2, <2>4
    <2> HIDE DEF i
    <2> QED  BY <1>0, <1>1, <1>f, <2>1, <2>5, <2>6, <2>7, KeptBuffers DEF EntriesKept, PutsKept,
                FramesKept
  <1> QED  BY <1>2, <1>s, <1>e, <1>f

\* After a step too, what still has to be displayed is on use.
LEMMA AwaitedStays ==
    ASSUME SlotInv', NEW i \in Slots, Awaited(i)'
    PROVE  slot'[i].on_used
  <1>1. /\ Forgotten(i)' => ~Staged(i)'
        /\ slot'[i].on_used = (Needed(i)' /\ ~Forgotten(i)')
        /\ ppc' = "drain" => ref0' = NoRef
    BY DEF SlotInv, Stages, Displays, FlagsExact, FlagsOf, OnUse, Control, ResetSteps
  <1>2. Staged(i)' \/ i = ref0'.slot
    BY DEF Awaited, Staged
  <1>3. Needed(i)'
    BY <1>2 DEF Needed, IsRef
  <1>4. ~Forgotten(i)'
    BY <1>1, <1>2 DEF Forgotten, NoRef, NoSlot, Slots
  <1> QED  BY <1>1, <1>3, <1>4

\* The two references of an entry that is released.
LEMMA ReleasedTwice ==
    ASSUME SlotTypes, NEW s \in SlotEntry, s.frameBuf = s.buffer, NEW b \in Buffers
    PROVE  ReleasedRefs(s)[b] = bufRef[b] - (IF s.buffer = b THEN 2 ELSE 0)
  <1> DEFINE r == RefAdd(bufRef, s.frameBuf, -1)
  <1>1. r \in [Buffers -> Int] /\ r[b] = bufRef[b] + (IF b = s.buffer THEN -1 ELSE 0)
    BY RefAddType DEF SlotTypes
  <1> HIDE DEF r
  <1>2. RefAdd(r, s.buffer, -1)[b] = r[b] + (IF b = s.buffer THEN -1 ELSE 0)
    BY <1>1, RefAddType
  <1>3. bufRef[b] \in Int
    BY DEF SlotTypes
  <1> QED  BY <1>1, <1>2, <1>3 DEF ReleasedRefs, r

\* A use is taken away: the entry keeps its buffer, or its picture is gone.
LEMMA ClrBuffers ==
    ASSUME SlotInv, BuffersOk, NEW c, MadeCall(c), InFlight' = InFlight, SlotInv', c[1] = "clr"
    PROVE  BuffersOk'
  <1> DEFINE i == c[2]
             s == ClrOp(slot[i], c[3])
  <1>0. /\ c \in SlotCalls /\ i \in Slots /\ Call(c) /\ SlotTypes /\ slot[i] \in SlotEntry
        /\ UNCHANGED <<pic, shown, dropped, coded, frames, held, task, ppc, ref0, hcur>>
        /\ Len(coded) <= Len(coded') /\ ~GiveBack(i)
        /\ \A j : GiveBack(j)' <=> GiveBack(j)
        /\ \A j : Geometry(j)' <=> Geometry(j)
        /\ \A j : Unbuffered(j)' <=> Unbuffered(j)
    BY CallLeaves, CallEntry DEF MadeCall
  <1>1. \A j : Writing(j)' <=> Writing(j)
    BY DEF Writing
  <1>2. c[3] \in Flags /\ ClrFlag(i, c[3])
    BY <1>0, CallEffect
  <1>3. /\ OnlyEntry(i) /\ UNCHANGED queue /\ s \in SlotEntry /\ CheckEntryUnused(i, s)
    BY <1>0, <1>2, ClrFlagEffect
  <1>4. /\ s.on_used = slot[i].on_used /\ s.frame = slot[i].frame
        /\ s.buffer = slot[i].buffer /\ s.frameBuf = slot[i].frameBuf
    BY <1>0 DEF ClrOp, SlotEntry
  <1>5. \A j \in Slots : Awaited(j)' <=> Awaited(j)
    BY <1>3, CallAwaits
  <1>t. Types'
    BY DEF SlotInv
  <1> HIDE DEF i, s
  <1>6. CASE Unused(s)
    <2>0. s.on_used
      BY <1>6 DEF Unused
    <2>1. /\ ~slot'[i].on_used /\ slot'[i].buffer = NoBuf /\ slot'[i].frameBuf = NoBuf
          /\ bufRef' = ReleasedRefs(s) /\ slot[i].on_used
      <3>1. /\ slot'[i].on_used = (s.on_used /\ ~Unused(s))
            /\ slot'[i].buffer = NoBuf /\ slot'[i].frameBuf = NoBuf /\ bufRef' = ReleasedRefs(s)
        BY <1>0, <1>3, <1>6, ReleaseEffect
      <3> QED  BY <1>4, <1>6, <2>0, <3>1
    <2>2. ~Awaited(i)
      BY <1>0, <1>5, <2>1, AwaitedStays
    <2>3. ~Writing(i)' /\ Gone(i)
      BY <1>0, <1>1, <2>1, <2>2 DEF BuffersOk, Coming
    <2>4. \A b \in Buffers : bufRef'[b] = bufRef[b] - (IF slot[i].buffer = b THEN 2 ELSE 0)
      <3>1. s.frameBuf = s.buffer
        BY <1>0, <1>4 DEF BuffersOk, EntryBuffers
      <3> QED  BY <1>0, <1>3, <1>4, <2>1, <3>1, ReleasedTwice
    <2>5. task.parsed /\ ppc # "drain" => task.out # i
      <3>1. task.parsed /\ ppc # "drain" => Writing(task.out)
        BY ParsedTask DEF Writing, HalTask
      <3> QED  BY <1>1, <2>3, <3>1
    <2> QED  BY <1>0, <1>1, <1>3, <1>5, <1>t, <2>1, <2>3, <2>4, <2>5, LeftBuffers
  <1>7. CASE ~Unused(s)
    <2>1. slot'[i] = s /\ bufRef' = bufRef
      BY <1>0, <1>3, <1>7, ReleaseEffect
    <2>2. \A j \in Slots : EntryKept(j)
      BY <1>3, <1>4, <2>1 DEF EntryKept, OnlyEntry
    <2>3. Framed' => Framed /\ task'.out = task.out
      BY <1>0 DEF Framed, Geometry
    <2> QED  BY <1>0, <1>1, <1>5, <1>t, <2>1, <2>2, <2>3, KeptBuffers DEF EntriesKept, PutsKept,
                FramesKept
  <1> QED  BY <1>6, <1>7

\* The reset forgets the picture that has no buffer.
LEMMA ForgetBuffers ==
    ASSUME SlotInv, BuffersOk, NEW c, MadeCall(c), InFlight' = InFlight, SlotInv', c[1] = "reset"
    PROVE  BuffersOk'
  <1> DEFINE i == c[2]
  <1>0. /\ c \in SlotCalls /\ i \in Slots /\ Call(c) /\ SlotTypes /\ slot[i] \in SlotEntry
        /\ UNCHANGED <<pic, shown, dropped, coded, frames, held, task, ppc, ref0, hcur>>
        /\ \A j : GiveBack(j)' <=> GiveBack(j)
        /\ \A j : Geometry(j)' <=> Geometry(j)
        /\ \A j : Show(j)' <=> Show(j)
        /\ CallIs(c) /\ QueuedOnce
    BY CallLeaves, CallEntry
  <1>1. \A j : Writing(j)' <=> Writing(j)
    BY DEF Writing
  <1>2. SlotReset(i)
    BY <1>0, CallEffect
  <1>3. /\ OnlyEntry(i) /\ queue'["DISPLAY"] = Without(queue["DISPLAY"], i) /\ UNCHANGED bufRef
        /\ slot'[i] = [slot[i] EXCEPT !.on_used = FALSE,
                                      !.queue_use = IF slot[i].queue_use > 1
                                                    THEN slot[i].queue_use - 2 ELSE 0]
    BY <1>0, <1>2, SlotResetEffect
  <1>4. /\ slot'[i].on_used = FALSE
        /\ slot'[i].buffer = slot[i].buffer /\ slot'[i].frameBuf = slot[i].frameBuf
    BY <1>0, <1>3 DEF SlotEntry
  <1>5. i = task.out /\ ppc = "drain" /\ task.parsed
    BY <1>0 DEF CallIs, SlotInv, Control, ParserRests, Types, ParserTypes, DecTasks
  <1>6. slot[i].buffer = NoBuf /\ slot[i].frameBuf = NoBuf /\ ~GiveBack(i)
    <2>1. Unbuffered(i)
      BY <1>5 DEF Unbuffered
    <2> QED  BY <1>0, <2>1 DEF BuffersOk, EntryBuffers
  <1>7. \A j \in Slots : j # i => (Awaited(j)' <=> Awaited(j))
    <2>1. \A j : j # i => (InQ(j)' <=> InQ(j))
      BY <1>0, <1>3, QueueLeft
    <2> QED  BY <1>0, <2>1 DEF Awaited
  <1>8. ~Writing(i)'
    BY <1>0, <1>1, <1>5, WrittenUsed
  <1>9. \A b \in Buffers : bufRef'[b] = bufRef[b] - (IF slot[i].buffer = b THEN 2 ELSE 0)
    BY <1>3, <1>6, SlotsAssumption DEF SlotInv, Types, SlotTypes
  <1>t. Types'
    BY DEF SlotInv
  <1> HIDE DEF i
  <1> QED  BY <1>0, <1>1, <1>3, <1>4, <1>5, <1>6, <1>7, <1>8, <1>9, <1>t, LeftBuffers

\* The reset gives back the reference that the display would have taken.
LEMMA PutBuffers ==
    ASSUME SlotInv, BuffersOk, NEW c, MadeCall(c), InFlight' = InFlight, SlotInv', c[1] = "put"
    PROVE  BuffersOk'
  <1> DEFINE i == c[2]
             b == slot[i].buffer
  <1>0. /\ c \in SlotCalls /\ i \in Slots /\ Call(c) /\ SlotTypes /\ slot[i] \in SlotEntry
        /\ UNCHANGED <<pic, shown, dropped, coded, frames, held, task, ppc, ref0, hcur>>
        /\ Len(coded) <= Len(coded')
        /\ \A j : GiveBack(j)' <=> GiveBack(j) /\ j # i
        /\ \A j : Geometry(j)' <=> Geometry(j)
        /\ \A j : Unbuffered(j)' <=> Unbuffered(j)
    BY CallLeaves, CallEntry
  <1>1. \A j : Writing(j)' <=> Writing(j)
    BY DEF Writing
  <1>2. UNCHANGED <<slot, queue>> /\ bufRef' = RefAdd(bufRef, b, -1)
    BY <1>0, CallEffect DEF PutBuffer
  <1>3. GiveBack(i)
    <2>1. c = <<"put", i, 0>>
      BY <1>0, CallKinds
    <2> QED  BY <2>1 DEF GiveBack, MadeCall
  <1>4. \A j \in Slots : Awaited(j)' <=> Awaited(j)
    BY <1>2, CallAwaits
  <1>5. EntriesKept
    <2>1. \A j \in Slots : EntryKept(j)
      BY <1>2 DEF EntryKept
    <2>2. Framed' => Framed /\ task'.out = task.out
      BY <1>0 DEF Framed, Geometry
    <2> HIDE DEF i
    <2> QED  BY <1>0, <1>1, <1>4, <2>1, <2>2 DEF EntriesKept
  <1>6. Types'
    BY DEF SlotInv
  <1>7. /\ Numbers' /\ Coming' /\ EntryBuffers'
        /\ \A j : Gone(j)' <=> Gone(j)
        /\ \A x : Has(x)' <=> Has(x)
    BY <1>5, <1>6, KeptEntries
  <1>8. FrameBuffers'
    BY <1>0, <1>2, <1>7 DEF BuffersOk, FrameBuffers
  <1>9. Gone(i) /\ b # NoBuf /\ b \in Buffers
    BY <1>0, <1>3 DEF BuffersOk, EntryBuffers, Gone, SlotEntry
  <1>10. Referred'
    <2> SUFFICES ASSUME NEW x \in Buffers PROVE bufRef'[x] = RefsOf(x)'
      BY DEF Referred
    <2>0. bufRef[x] = RefsOf(x) /\ bufRef[x] \in Int
      BY <1>0 DEF BuffersOk, Referred, SlotTypes
    <2>1. Sends(x)' <=> Sends(x)
      BY <1>0 DEF Sends
    <2>2. bufRef'[x] = bufRef[x] + (IF x = b THEN -1 ELSE 0)
      BY <1>0, <1>2, RefAddType DEF SlotTypes
    <2>3. CASE x = b
      <3>1. \A j \in Slots : slot[j].buffer = x => j = i
        BY <1>0, <1>9, <2>3 DEF BuffersOk, EntryBuffers
      <3>2. HasExtra(x) /\ ~HasExtra(x)'
        BY <1>0, <1>2, <1>3, <1>7, <1>9, <2>3, <3>1 DEF HasExtra
      <3> HIDE DEF b
      <3>3. RefsOf(x)' = RefsOf(x) - 1
        BY <1>0, <1>7, <2>1, <3>2 DEF RefsOf, N
      <3> QED  BY <2>0, <2>2, <2>3, <3>3
    <2>4. CASE x # b
      <3>1. HasExtra(x)' <=> HasExtra(x)
        BY <1>0, <1>2, <1>7, <2>4 DEF HasExtra
      <3> HIDE DEF b
      <3>2. RefsOf(x)' = RefsOf(x)
        BY <1>0, <1>7, <2>1, <3>1 DEF RefsOf, N
      <3> QED  BY <2>0, <2>2, <2>4, <3>2
    <2> QED  BY <2>3, <2>4
  <1> QED  BY <1>7, <1>8, <1>10 DEF BuffersOk

\* So every call leaves each reference on a buffer with its owner.
LEMMA CallBuffers ==
    ASSUME SlotInv, BuffersOk, ParserCall \/ HalCall, SlotInv'
    PROVE  BuffersOk'
  <1>1. PICK c \in SlotCalls : MadeCall(c)
    BY CallStep
  <1>2. InFlight' = InFlight
    BY FlightSame DEF OtherStep
  <1>3. c[1] \in {"set", "clr", "enqueue", "frame", "reset", "put"}
    BY CallKinds
  <1>4. Types'
    BY DEF SlotInv
  <1> QED  BY <1>1, <1>2, <1>3, <1>4, SetBuffers, ClrBuffers, ForgetBuffers, PutBuffers

\* A buffer without a reference belongs to nobody.
LEMMA FreeBuffer ==
    ASSUME BuffersOk, NEW b \in Buffers, bufRef[b] = 0
    PROVE  ~Has(b) /\ ~HasExtra(b) /\ ~Sends(b) /\ b \notin held
  <1>1. RefsOf(b) = 0
    BY DEF BuffersOk, Referred
  <1> QED  BY <1>1 DEF RefsOf, N

\* The picture that was parsed gets a buffer.
LEMMA GetBuffers ==
    ASSUME SlotInv, BuffersOk, NEW b \in Buffers, GetBuffer(b), Types'
    PROVE  BuffersOk'
  <1> DEFINE i == task.out
  <1>0. /\ task.parsed /\ ptodo = << >> /\ ppc \in {"top", "check"} /\ ppc' = "submit"
        /\ bufRef[b] = 0 /\ SetBuffer(i, b) /\ task' = [task EXCEPT !.infoGen = FALSE, !.waitInfo = FALSE]
        /\ UNCHANGED <<ref0, ref1, ptodo, htodo, hcur, frames, held, pic, coded, shown, dropped>>
    BY DEF GetBuffer, Parsed, TryProc, FreeBuffers, halVars, outVars, histVars
  <1>1. /\ Numbers /\ Coming /\ EntryBuffers /\ FrameBuffers /\ Referred /\ SlotTypes /\ HalCalls
        /\ NoBuf \notin Buffers /\ task \in DecTasks
    BY SlotsAssumption DEF BuffersOk, SlotInv, Types, Todo, ParserTypes
  <1>2. i \in Slots /\ Writing(i)
    BY <1>0, ParsedTask DEF Writing, HalTask
  <1>3. slot[i].on_used /\ Awaited(i) /\ ~Gone(i) /\ slot[i] \in SlotEntry
    BY <1>1, <1>2, WrittenUsed DEF Coming, SlotTypes
  <1>4. /\ slot[i].buffer = NoBuf /\ slot[i].frameBuf = NoBuf /\ ~GiveBack(i)
    <2>1. Unbuffered(i)
      BY <1>0 DEF Unbuffered
    <2> QED  BY <1>1, <1>2, <1>3, <2>1 DEF EntryBuffers
  <1>5. slot[i].frame
    <2>1. ~Geometry(i)
      <3>1. CallsIn(ptodo) = {}
        BY <1>0, NoCalls
      <3> QED  BY <1>1, <3>1 DEF Geometry, Calls, HalCalls
    <2>2. Framed
      BY <1>0, <2>1 DEF Framed
    <2> QED  BY <1>1, <2>2 DEF EntryBuffers
  <1>6. /\ OnlyEntry(i) /\ UNCHANGED queue
        /\ slot'[i] = [slot[i] EXCEPT !.buffer = b,
                                      !.frameBuf = IF slot[i].frame THEN b ELSE slot[i].frameBuf]
        /\ bufRef' = RefAdd(RefAdd(RefAdd(bufRef, slot[i].buffer, -1),
                                   IF slot[i].frame THEN slot[i].frameBuf ELSE NoBuf, -1),
                            b, IF slot[i].frame THEN 3 ELSE 2)
    BY <1>0, <1>1, <1>2, SetBufferEffect
  <1>7. /\ slot'[i].buffer = b /\ slot'[i].frameBuf = b /\ slot'[i].on_used /\ slot'[i].frame
    BY <1>3, <1>5, <1>6 DEF SlotEntry
  <1>8. \A x \in Buffers : bufRef'[x] = bufRef[x] + (IF x = b THEN 3 ELSE 0)
    <2> DEFINE r == RefAdd(RefAdd(bufRef, NoBuf, -1), NoBuf, -1)
    <2>1. bufRef' = RefAdd(r, b, 3)
      BY <1>4, <1>5, <1>6
    <2>2. RefAdd(bufRef, NoBuf, -1) = bufRef
      BY <1>1 DEF RefAdd, SlotTypes
    <2>3. r = bufRef
      BY <2>2
    <2> HIDE DEF r
    <2> QED  BY <1>1, <2>1, <2>3, RefAddType DEF SlotTypes
  <1>9. task'.parsed = TRUE /\ task'.out = i /\ Calls' = Calls /\ InFlight' = InFlight
    <2>1. InFlight' = InFlight
      BY FlightSame DEF OtherStep
    <2> QED  BY <1>0, <1>1, <2>1 DEF Calls, DecTasks
  <1>10. ~Has(b) /\ ~HasExtra(b) /\ ~Sends(b) /\ b \notin held
    BY <1>0, FreeBuffer
  <1> HIDE DEF i
  <1>11. \A j \in Slots : j # i => slot'[j] = slot[j]
    BY <1>6 DEF OnlyEntry
  <1>12. \A j : /\ (Gone(j)' <=> Gone(j)) /\ (GiveBack(j)' <=> GiveBack(j))
                /\ (Writing(j)' <=> Writing(j)) /\ (Awaited(j)' <=> Awaited(j))
    BY <1>0, <1>6, <1>9 DEF Gone, GiveBack, Writing, Awaited, Show, InQ
  <1>13. Numbers'
    BY <1>0, <1>1, <1>3, <1>7, <1>11 DEF Numbers
  <1>14. Coming'
    BY <1>1, <1>3, <1>7, <1>11, <1>12 DEF Coming
  <1>15. EntryBuffers'
    <2>1. \A j \in Slots : /\ slot'[j].frameBuf = slot'[j].buffer
                           /\ ~slot'[j].on_used => slot'[j].buffer = NoBuf
                           /\ GiveBack(j)' => pic'[j] \in dropped' /\ slot'[j].buffer # NoBuf
      BY <1>0, <1>1, <1>4, <1>7, <1>11, <1>12 DEF EntryBuffers
    <2>2. ASSUME NEW j \in Slots, slot'[j].on_used
          PROVE  slot'[j].buffer = NoBuf <=> Unbuffered(j)'
      <3>1. ~Unbuffered(j)'
        BY <1>0 DEF Unbuffered
      <3>2. slot'[j].buffer # NoBuf
        <4>1. CASE j = i
          BY <1>1, <1>7, <4>1
        <4>2. CASE j # i
          BY <1>1, <1>11, <2>2, <4>2 DEF EntryBuffers, Unbuffered, i
        <4> QED  BY <4>1, <4>2
      <3> QED  BY <3>1, <3>2
    <2>3. ASSUME NEW j \in Slots, NEW k \in Slots, slot'[j].buffer = slot'[k].buffer,
                 slot'[j].buffer # NoBuf
          PROVE  j = k
      <3>1. \A x \in Slots : slot[x].buffer # b
        BY <1>10 DEF Has
      <3> QED  BY <1>1, <1>7, <1>11, <2>3, <3>1 DEF EntryBuffers
    <2>4. slot'[task'.out].frame
      BY <1>7, <1>9
    <2> QED  BY <2>1, <2>2, <2>3, <2>4 DEF EntryBuffers
  <1>16. FrameBuffers'
    <2>1. \A k \in DOMAIN frames : frames[k].buf # b
      BY <1>10 DEF Sends
    <2>2. ASSUME NEW j \in Slots
          PROVE  /\ \A k \in DOMAIN frames : slot'[j].buffer # NoBuf /\ frames[k].buf = slot'[j].buffer => Gone(j)
                 /\ slot'[j].buffer \in held => Gone(j)
      <3>1. CASE j = i
        BY <1>7, <1>10, <2>1, <3>1
      <3>2. CASE j # i
        BY <1>1, <1>11, <3>2 DEF FrameBuffers
      <3> QED  BY <3>1, <3>2
    <2> QED  BY <1>0, <1>1, <1>12, <2>2 DEF FrameBuffers
  <1>17. Referred'
    <2> SUFFICES ASSUME NEW x \in Buffers PROVE bufRef'[x] = RefsOf(x)'
      BY DEF Referred
    <2>1. bufRef[x] = RefsOf(x) /\ bufRef[x] \in Int
      BY <1>1 DEF Referred, SlotTypes
    <2>2. (Sends(x)' <=> Sends(x)) /\ UNCHANGED held
      BY <1>0 DEF Sends
    <2>3. CASE x = b
      <3>1. Has(x)' /\ HasExtra(x)'
        BY <1>2, <1>3, <1>7, <1>12, <2>3 DEF Has, HasExtra
      <3>2. RefsOf(x)' = 3
        BY <1>10, <2>2, <2>3, <3>1 DEF RefsOf, N
      <3> QED  BY <1>0, <1>8, <2>3, <3>2
    <2>4. CASE x # b
      <3>1. slot[i].buffer # x /\ slot'[i].buffer # x
        BY <1>1, <1>4, <1>7, <2>4
      <3>2. (Has(x)' <=> Has(x)) /\ (HasExtra(x)' <=> HasExtra(x))
        BY <1>11, <1>12, <3>1 DEF Has, HasExtra
      <3>3. RefsOf(x)' = RefsOf(x)
        BY <2>2, <3>2 DEF RefsOf, N
      <3> QED  BY <1>8, <2>1, <2>4, <3>3
    <2> QED  BY <2>3, <2>4
  <1> QED  BY <1>13, <1>14, <1>15, <1>16, <1>17 DEF BuffersOk

\* A picture is parsed into an entry without a buffer.
LEMMA ParseBuffers ==
    ASSUME SlotInv, BuffersOk, NEW type \in {"I", "P", "B"}, NEW size \in Infos, NEW eos \in BOOLEAN,
           Parse(type, size, eos)
    PROVE  BuffersOk'
  <1>1. PICK i \in Slots : ParseAs(type, size, eos, i)
    BY DEF Parse
  <1>2. ParseFacts(type, size, eos, i)
    BY <1>1, ParseEffect
  <1> DEFINE last == ParseLast(type, size, i)
  <1>3. /\ Numbers /\ Coming /\ EntryBuffers /\ FrameBuffers /\ Referred /\ SlotTypes
        /\ ref0 \in Refs /\ slot[i] \in SlotEntry /\ NoBuf \notin Buffers
    BY SlotsAssumption DEF BuffersOk, SlotInv, Types, ParserTypes, SlotTypes
  <1>4. /\ GetUnused(i) /\ UNCHANGED hcur /\ task'.out = i /\ task'.parsed = TRUE /\ last \in Refs
        /\ ref0' = IF eos THEN Flushed(last) ELSE last
        /\ ~task.parsed /\ ppc' = "check"
        /\ pic' = [pic EXCEPT ![i] = Len(coded) + 1] /\ coded' = Append(coded, type)
        /\ UNCHANGED <<frames, held, shown, dropped>>
    BY <1>2 DEF ParseFacts, halVars, outVars
  <1>5. /\ type = "B" => last = ref0
        /\ type # "B" => last.slot = i /\ last.enqueued = FALSE
    BY DEF ParseLast
  <1> HIDE DEF last
  <1>6. /\ OnlyEntry(i) /\ ~slot[i].on_used /\ UNCHANGED <<queue, bufRef>>
        /\ slot'[i] = [slot[i] EXCEPT !.on_used = TRUE, !.not_ready = TRUE]
    BY <1>3, <1>4, GetUnusedEffect
  <1>7. /\ slot'[i].on_used /\ slot'[i].buffer = slot[i].buffer /\ slot'[i].frameBuf = slot[i].frameBuf
        /\ slot[i].buffer = NoBuf /\ slot[i].frameBuf = NoBuf
    BY <1>3, <1>6 DEF SlotEntry, EntryBuffers
  <1>8. \A j \in Slots : j # i => slot'[j] = slot[j]
    BY <1>6 DEF OnlyEntry
  <1>9. i # ref0.slot /\ i # NoSlot /\ (\A j : InQ(j)' <=> InQ(j))
    BY <1>2, <1>6, ParseNewEntry, QueueSame DEF NoSlot, Slots
  <1>10. /\ Len(coded') = Len(coded) + 1 /\ Len(coded) \in Nat /\ pic \in [Slots -> Nat]
         /\ shown \in Seq(Nat) /\ dropped \subseteq Nat
         /\ pic'[i] = Len(coded) + 1 /\ \A j \in Slots : j # i => pic'[j] = pic[j]
    BY <1>4 DEF SlotInv, Types, OtherTypes
  <1>11. \A j : ~GiveBack(j)'
    <2> TAKE j
    <2> DEFINE c == <<"put", j, 0>>
    <2>1. c[1] = "put"
      OBVIOUS
    <2>2. c \notin Calls /\ (c \in Calls' => c \in Calls)
      <3>1. c \in Calls => c[1] = "clr" /\ c[3] # "CODEC_USE"
        BY <1>2, ParseCallsMade
      <3>2. c \in Calls' => c \in Calls \/ c[1] \in {"set", "frame", "clr", "enqueue"}
        <4>1. c \in Calls' <=>
                \/ c \in Calls
                \/ c = <<"set", i, "HAL_OUTPUT">> \/ c = <<"frame", i, size>>
                \/ Valid(ref0) /\ c = <<"set", ref0.slot, "HAL_INPUT">>
                \/ Valid(ref1) /\ c = <<"set", ref1.slot, "HAL_INPUT">>
                \/ type # "B" /\ c = <<"set", i, "CODEC_USE">>
                \/ type # "B" /\ Valid(ref1) /\ c = <<"clr", ref1.slot, "CODEC_USE">>
                \/ /\ ShowsLast(type, eos)
                   /\ c = <<"set", ref0.slot, "QUEUE_USE">> \/ c = <<"enqueue", ref0.slot, "DISPLAY">>
                \/ /\ ShowsNew(type, eos)
                   /\ c = <<"set", i, "QUEUE_USE">> \/ c = <<"enqueue", i, "DISPLAY">>
          BY <1>2, ParseCallsMade
        <4> QED  BY <4>1
      <3> QED  BY <2>1, <3>1, <3>2
    <2> QED  BY <2>2 DEF GiveBack
  <1>12. \A j \in Slots : ~GiveBack(j)
    <2> TAKE j \in Slots
    <2>1. <<"put", j, 0>> \in Calls => <<"put", j, 0>>[1] = "clr"
      BY <1>2, ParseCallsMade
    <2> QED  BY <2>1 DEF GiveBack
  <1>13. Geometry(i)'
    <2>1. <<"frame", i, size>> \in Calls'
      BY <1>2, ParseCallsMade
    <2> QED  BY <2>1 DEF Geometry
  <1>14. \A j \in Slots : j # i => (Gone(j)' <=> Gone(j))
    BY <1>4, <1>10 DEF Gone
  <1>15. ~Gone(i)'
    BY <1>3, <1>4, <1>10 DEF Gone, Numbers
  <1>16. ASSUME NEW j \in Slots, j # i
         PROVE  /\ Awaited(j)' <=> Awaited(j)
                /\ Writing(j)' => Writing(j)
    <2>0. j # NoSlot
      BY DEF NoSlot, Slots
    <2>1. ~Show(j) /\ (Show(j)' <=> ShowsLast(type, eos) /\ j = ref0.slot)
      BY <1>2, <1>16, ParseMarks
    <2>2. Writing(j)' => Writing(j)
      BY <1>2, <1>16, FlightParse DEF Writing
    <2>3. Awaited(j)' <=> Awaited(j)
      <3>1. CASE type # "B"
        <4>1. ref0'.slot = i
          BY <1>4, <1>5, <3>1, FlushedTypes
        <4> QED  BY <1>4, <1>9, <1>16, <2>0, <2>1, <3>1, <4>1 DEF Awaited, ShowsLast, Flushes, Valid
      <3>2. CASE type = "B" /\ eos
        <4>1. ref0'.slot = ref0.slot /\ (ref0'.enqueued <=> Valid(ref0) \/ ref0.enqueued)
          BY <1>3, <1>4, <1>5, <3>2, FlushedTypes
        <4> QED  BY <1>4, <1>9, <2>0, <2>1, <3>2, <4>1 DEF Awaited, ShowsLast, Flushes, Valid
      <3>3. CASE type = "B" /\ ~eos
        <4>1. ref0' = ref0 /\ ~ShowsLast(type, eos)
          BY <1>4, <1>5, <3>3 DEF ShowsLast
        <4> QED  BY <1>4, <1>9, <2>1, <4>1 DEF Awaited
      <3> QED  BY <3>1, <3>2, <3>3
    <2> QED  BY <2>2, <2>3
  <1>17. Awaited(i)'
    <2>1. CASE type = "B" \/ eos
      <3>1. Show(i)'
        BY <1>2, <2>1, ParseMarks DEF ShowsNew
      <3> QED  BY <3>1 DEF Awaited
    <2>2. CASE type # "B" /\ ~eos
      BY <1>4, <1>5, <2>2 DEF Awaited
    <2> QED  BY <2>1, <2>2
  <1>18. Numbers'
    <2>1. /\ \A j \in Slots : pic'[j] <= Len(coded')
          /\ \A n \in dropped' : n <= Len(coded')
          /\ \A k \in DOMAIN shown' : shown'[k] <= Len(coded')
      <3>1. \A j \in Slots : pic'[j] <= Len(coded')
        BY <1>3, <1>10 DEF Numbers
      <3>2. \A n \in dropped' : n <= Len(coded')
        BY <1>3, <1>4, <1>10 DEF Numbers
      <3>3. \A k \in DOMAIN shown' : shown'[k] <= Len(coded')
        BY <1>3, <1>4, <1>10 DEF Numbers
      <3> QED  BY <3>1, <3>2, <3>3
    <2>2. ASSUME NEW j \in Slots, NEW k \in Slots, slot'[j].on_used, slot'[k].on_used,
                 pic'[j] = pic'[k]
          PROVE  j = k
      <3>1. \A x \in Slots : x # i => pic'[x] # pic'[i]
        BY <1>3, <1>10 DEF Numbers
      <3>2. CASE j # i /\ k # i
        BY <1>3, <1>8, <1>10, <2>2, <3>2 DEF Numbers
      <3> QED  BY <2>2, <3>1, <3>2
    <2> QED  BY <2>1, <2>2 DEF Numbers
  <1>19. Coming'
    <2> SUFFICES ASSUME NEW j \in Slots
                 PROVE  /\ slot'[j].on_used => (Awaited(j)' <=> ~Gone(j)')
                        /\ Writing(j)' => Awaited(j)'
      BY DEF Coming
    <2>1. CASE j = i
      BY <1>15, <1>17, <2>1
    <2>2. CASE j # i
      BY <1>3, <1>8, <1>14, <1>16, <2>2 DEF Coming
    <2> QED  BY <2>1, <2>2
  <1>20. EntryBuffers'
    <2>1. ~Framed'
      BY <1>4, <1>13 DEF Framed, Geometry
    <2>2. \A j : (Unbuffered(j)' <=> j = i) /\ ~Unbuffered(j)
      BY <1>4 DEF Unbuffered
    <2>3. ASSUME NEW j \in Slots
          PROVE  /\ slot'[j].frameBuf = slot'[j].buffer
                 /\ ~slot'[j].on_used => slot'[j].buffer = NoBuf
                 /\ slot'[j].on_used => (slot'[j].buffer = NoBuf <=> Unbuffered(j)')
                 /\ ~GiveBack(j)'
      <3>1. CASE j = i
        BY <1>7, <1>11, <2>2, <3>1
      <3>2. CASE j # i
        BY <1>3, <1>8, <1>11, <2>2, <3>2 DEF EntryBuffers
      <3> QED  BY <3>1, <3>2
    <2>4. \A j, k \in Slots : slot'[j].buffer = slot'[k].buffer /\ slot'[j].buffer # NoBuf => j = k
      BY <1>3, <1>7, <1>8 DEF EntryBuffers
    <2> QED  BY <2>1, <2>3, <2>4 DEF EntryBuffers
  <1>21. \A j \in Slots : slot'[j].buffer = slot[j].buffer
    BY <1>7, <1>8
  <1>22. FrameBuffers'
    <2>1. NoBuf \notin held
      BY <1>3 DEF SlotInv, Types, OtherTypes
    <2> QED  BY <1>3, <1>4, <1>7, <1>14, <1>21, <2>1 DEF FrameBuffers
  <1>23. Referred'
    <2> SUFFICES ASSUME NEW b \in Buffers PROVE bufRef'[b] = RefsOf(b)'
      BY DEF Referred
    <2>1. (Sends(b)' <=> Sends(b)) /\ UNCHANGED held
      BY <1>4 DEF Sends
    <2>2. slot[i].buffer # b
      BY <1>3, <1>7
    <2>3. Has(b)' <=> Has(b)
      BY <1>21 DEF Has
    <2>4. HasExtra(b)' <=> HasExtra(b)
      BY <1>11, <1>12, <1>14, <1>21, <2>2 DEF HasExtra
    <2>5. RefsOf(b)' = RefsOf(b)
      BY <2>1, <2>3, <2>4 DEF RefsOf, N
    <2> QED  BY <1>3, <1>6, <2>5 DEF Referred
  <1> QED  BY <1>18, <1>19, <1>20, <1>22, <1>23 DEF BuffersOk

\* A frame that moves takes its reference along.
LEMMA MovedBuffers ==
    ASSUME SlotInv, BuffersOk, EntriesKept, PutsKept, Types', FrameBuffers',
           \A b \in Buffers : bufRef'[b] - N(Sends(b))' - N(b \in held)'
                                = bufRef[b] - N(Sends(b)) - N(b \in held)
    PROVE  BuffersOk'
  <1>1. /\ Numbers' /\ Coming' /\ EntryBuffers'
        /\ \A b : (Has(b)' <=> Has(b)) /\ (HasExtra(b)' <=> HasExtra(b))
    BY KeptEntries
  <1>2. Referred'
    <2> SUFFICES ASSUME NEW b \in Buffers PROVE bufRef'[b] = RefsOf(b)'
      BY DEF Referred
    <2>1. bufRef[b] = RefsOf(b) /\ bufRef[b] \in Int /\ bufRef'[b] \in Int
      BY DEF BuffersOk, Referred, SlotInv, Types, SlotTypes
    <2>2. (Has(b)' <=> Has(b)) /\ (HasExtra(b)' <=> HasExtra(b))
      BY <1>1
    <2> DEFINE n == N(Sends(b))
               h == N(b \in held)
               o == (IF Has(b) THEN 2 ELSE 0) + N(HasExtra(b))
    <2>3. n \in Int /\ h \in Int /\ n' \in Int /\ h' \in Int /\ o \in Int /\ o' = o
      BY <2>2 DEF N
    <2>4. RefsOf(b) = o + n + h /\ RefsOf(b)' = o' + n' + h'
      BY DEF RefsOf
    <2>5. bufRef'[b] - n' - h' = bufRef[b] - n - h
      OBVIOUS
    <2> HIDE DEF n, h, o
    <2> QED  BY <2>1, <2>3, <2>4, <2>5
  <1> QED  BY <1>1, <1>2 DEF BuffersOk

\* A frame without a picture: a geometry change, or the end of the stream.
LEMMA EndBuffers == ASSUME SlotInv, BuffersOk, HalEnd, Types' PROVE BuffersOk'
  <1>0. /\ frames \in Seq(OutFrames) /\ FrameBuffers /\ NoBuf \notin Buffers /\ held \subseteq Buffers
    BY SlotsAssumption DEF SlotInv, Types, OtherTypes, BuffersOk
  <1>1. UNCHANGED <<slot, queue, bufRef, pic, shown, dropped, coded, held, hcur, ref0, ptodo, htodo, task, ppc>>
    BY DEF HalEnd, slotVars, parserVars
  <1>2. frames' = frames \/ \E f \in OutFrames : f.buf = NoBuf /\ frames' = Append(frames, f)
    <2>1. InfoFrame \in OutFrames /\ EosFrame \in OutFrames /\ InfoFrame.buf = NoBuf /\ EosFrame.buf = NoBuf
      BY DEF InfoFrame, EosFrame, Frame, OutFrames
    <2>2. frames' = frames \/ frames' = Append(frames, InfoFrame) \/ frames' = Append(frames, EosFrame)
      BY DEF HalEnd
    <2> QED  BY <2>1, <2>2
  <1>3. InFlight' = InFlight
    BY FlightSame DEF OtherStep
  <1>4. EntriesKept /\ PutsKept
    <2>1. Calls' = Calls /\ Len(coded) <= Len(coded')
      BY <1>1 DEF Calls, SlotInv, Types, OtherTypes
    <2> QED  BY <1>1, <1>3, <2>1 DEF EntriesKept, PutsKept, EntryKept, Awaited, Show, InQ,
                GiveBack, Unbuffered,
                Writing, Framed, Geometry
  <1>5. /\ \A k \in DOMAIN frames : k \in DOMAIN frames' /\ frames'[k] = frames[k]
        /\ \A k \in DOMAIN frames' : k \in DOMAIN frames \/ frames'[k].buf = NoBuf
    BY <1>0, <1>2
  <1>6. \A i : Gone(i)' <=> Gone(i)
    BY <1>1 DEF Gone
  <1>7. FrameBuffers'
    <2>1. \A j, k \in DOMAIN frames' : frames'[j].buf = frames'[k].buf /\ frames'[j].buf # NoBuf => j = k
      BY <1>0, <1>5 DEF FrameBuffers
    <2>2. \A k \in DOMAIN frames' : frames'[k].buf \notin held'
      BY <1>0, <1>1, <1>5 DEF FrameBuffers
    <2>3. \A i \in Slots, k \in DOMAIN frames' :
              slot'[i].buffer # NoBuf /\ frames'[k].buf = slot'[i].buffer => Gone(i)'
      BY <1>0, <1>1, <1>5, <1>6 DEF FrameBuffers
    <2>4. \A i \in Slots : slot'[i].buffer \in held' => Gone(i)'
      BY <1>0, <1>1, <1>6 DEF FrameBuffers
    <2> QED  BY <2>1, <2>2, <2>3, <2>4 DEF FrameBuffers
  <1>8. ASSUME NEW b \in Buffers
        PROVE  bufRef'[b] - N(Sends(b))' - N(b \in held)' = bufRef[b] - N(Sends(b)) - N(b \in held)
    <2>1. Sends(b)' <=> Sends(b)
      BY <1>0, <1>5 DEF Sends
    <2> QED  BY <1>1, <2>1 DEF N
  <1> QED  BY <1>4, <1>7, <1>8, MovedBuffers

\* What the application does changes no entry.
LEMMA UserEntries ==
    ASSUME SlotInv, BuffersOk, TakeFrame \/ \E b \in Buffers : ReleaseFrame(b), Types'
    PROVE  /\ EntriesKept /\ PutsKept /\ (\A i : Gone(i)' <=> Gone(i))
           /\ UNCHANGED <<slot, queue>>
  <1>1. UNCHANGED <<slot, queue, pic, shown, dropped, coded, hcur, ref0, ptodo, htodo, task, ppc>>
    BY DEF TakeFrame, ReleaseFrame, slotVars, parserVars, halVars, histVars
  <1>2. InFlight' = InFlight
    BY FlightSame DEF OtherStep, UserNext
  <1>3. Calls' = Calls /\ Len(coded) <= Len(coded')
    BY <1>1 DEF Calls, SlotInv, Types, OtherTypes
  <1> QED  BY <1>1, <1>2, <1>3 DEF EntriesKept, PutsKept, EntryKept, Awaited, Show, InQ,
              GiveBack, Unbuffered,
              Writing, Framed, Geometry, Gone

\* The application takes a frame.
LEMMA TakeBuffers == ASSUME SlotInv, BuffersOk, TakeFrame, Types' PROVE BuffersOk'
  <1> DEFINE b == Head(frames).buf
  <1>0. /\ frames \in Seq(OutFrames) /\ FrameBuffers /\ NoBuf \notin Buffers /\ held \subseteq Buffers
    BY SlotsAssumption DEF SlotInv, Types, OtherTypes, BuffersOk
  <1>1. /\ frames # << >> /\ frames' = Tail(frames) /\ UNCHANGED bufRef
        /\ held' = IF b = NoBuf THEN held ELSE held \cup {b}
    BY DEF TakeFrame, slotVars
  <1>2. EntriesKept /\ PutsKept /\ (\A i : Gone(i)' <=> Gone(i)) /\ UNCHANGED <<slot, queue>>
    BY UserEntries
  <1>3. /\ 1 \in DOMAIN frames /\ frames[1].buf = b
        /\ \A k \in DOMAIN frames' : k + 1 \in DOMAIN frames /\ frames'[k] = frames[k + 1] /\ k \in Nat /\ k # 0
        /\ \A k \in DOMAIN frames : k \in Nat /\ (k # 1 => k - 1 \in DOMAIN frames' /\ frames'[k - 1] = frames[k])
    BY <1>0, <1>1
  <1> HIDE DEF b
  <1>4. \A k \in DOMAIN frames' : b # NoBuf => frames'[k].buf # b
    BY <1>0, <1>3 DEF FrameBuffers
  <1>5. FrameBuffers'
    <2>1. ASSUME NEW j \in DOMAIN frames', NEW k \in DOMAIN frames', frames'[j].buf = frames'[k].buf,
                 frames'[j].buf # NoBuf
          PROVE  j = k
      <3>1. j + 1 = k + 1
        BY <1>0, <1>3, <2>1 DEF FrameBuffers
      <3> QED  BY <1>3, <3>1
    <2>2. \A k \in DOMAIN frames' : frames'[k].buf \notin held'
      BY <1>0, <1>1, <1>3, <1>4 DEF FrameBuffers
    <2>3. \A i \in Slots, k \in DOMAIN frames' :
              slot'[i].buffer # NoBuf /\ frames'[k].buf = slot'[i].buffer => Gone(i)'
      BY <1>0, <1>2, <1>3 DEF FrameBuffers
    <2>4. \A i \in Slots : slot'[i].buffer \in held' => Gone(i)'
      BY <1>0, <1>1, <1>2, <1>3 DEF FrameBuffers
    <2> QED  BY <2>1, <2>2, <2>3, <2>4 DEF FrameBuffers
  <1>6. ASSUME NEW x \in Buffers
        PROVE  bufRef'[x] - N(Sends(x))' - N(x \in held)' = bufRef[x] - N(Sends(x)) - N(x \in held)
    <2>0. bufRef[x] \in Int /\ x # NoBuf
      BY <1>0 DEF SlotInv, Types, SlotTypes
    <2>1. CASE x = b
      <3>1. Sends(x) /\ ~Sends(x)' /\ x \notin held /\ x \in held'
        BY <1>0, <1>1, <1>3, <1>4, <2>0, <2>1 DEF Sends, FrameBuffers
      <3>2. N(Sends(x)) = 1 /\ N(Sends(x))' = 0 /\ N(x \in held) = 0 /\ N(x \in held)' = 1
        BY <3>1 DEF N
      <3> QED  BY <1>1, <2>0, <3>2
    <2>2. CASE x # b
      <3>0. (Sends(x)' => Sends(x)) /\ (Sends(x) => Sends(x)')
        BY <1>3, <2>2 DEF Sends
      <3>1. (Sends(x)' <=> Sends(x)) /\ (x \in held' <=> x \in held)
        BY <1>1, <2>2, <3>0
      <3> QED  BY <1>1, <3>1 DEF N
    <2> QED  BY <2>1, <2>2
  <1> QED  BY <1>2, <1>5, <1>6, MovedBuffers

\* And gives one back.
LEMMA ReleaseBuffers ==
    ASSUME SlotInv, BuffersOk, NEW b \in Buffers, ReleaseFrame(b), Types'
    PROVE  BuffersOk'
  <1>0. FrameBuffers /\ SlotTypes
    BY DEF SlotInv, Types, BuffersOk
  <1>1. b \in held /\ held' = held \ {b} /\ bufRef' = RefAdd(bufRef, b, -1) /\ UNCHANGED frames
    BY DEF ReleaseFrame
  <1>2. EntriesKept /\ PutsKept /\ (\A i : Gone(i)' <=> Gone(i)) /\ UNCHANGED <<slot, queue>>
    BY UserEntries
  <1>3. FrameBuffers'
    BY <1>0, <1>1, <1>2 DEF FrameBuffers
  <1>4. ASSUME NEW x \in Buffers
        PROVE  bufRef'[x] - N(Sends(x))' - N(x \in held)' = bufRef[x] - N(Sends(x)) - N(x \in held)
    <2>1. bufRef[x] \in Int /\ bufRef'[x] = bufRef[x] + (IF x = b THEN -1 ELSE 0)
      BY <1>0, <1>1, RefAddType DEF SlotTypes
    <2>2. (Sends(x)' <=> Sends(x)) /\ N(Sends(x))' = N(Sends(x)) /\ N(Sends(x)) \in Int
      BY <1>1 DEF Sends, N
    <2>3. N(x \in held) = N(x \in held)' + (IF x = b THEN 1 ELSE 0) /\ N(x \in held)' \in Int
      BY <1>1 DEF N
    <2> QED  BY <2>1, <2>2, <2>3
  <1> QED  BY <1>2, <1>3, <1>4, MovedBuffers

\* What is awaited has not left yet, and no frame has its buffer.
LEMMA GoneOnce ==
    ASSUME SlotInv, BuffersOk, NEW i \in Slots, slot[i].on_used, Awaited(i)
    PROVE  ~Gone(i) /\ ~GiveBack(i) /\ slot[i].buffer \notin held
           /\ \A k \in DOMAIN frames : slot[i].buffer # NoBuf => frames[k].buf # slot[i].buffer
  <1>1. ~Gone(i)
    BY DEF BuffersOk, Coming
  <1>2. ~GiveBack(i)
    BY <1>1 DEF BuffersOk, EntryBuffers, Gone
  <1> QED  BY <1>1, <1>2 DEF BuffersOk, FrameBuffers

\* A reset throws away the picture at the head of the display queue.
LEMMA DrainBuffers ==
    ASSUME SlotInv, BuffersOk, NEW i \in Slots, ResetDrain(i), Types'
    PROVE  BuffersOk'
  <1>0. /\ Numbers /\ Coming /\ EntryBuffers /\ FrameBuffers /\ Referred /\ SlotTypes
        /\ HalRests /\ ResetSteps /\ slot[i] \in SlotEntry
    BY DEF BuffersOk, SlotInv, Types, Control, SlotTypes
  <1>1. /\ ppc = "drain" /\ ptodo = << >> /\ ptodo' = DrainCalls(i) /\ Dequeue(i, "DISPLAY")
        /\ dropped' = dropped \cup {pic[i]}
        /\ UNCHANGED <<ref0, ppc, task, htodo, hcur, frames, held, pic, coded, shown>>
    BY DEF ResetDrain, halVars, outVars
  <1>2. htodo = << >> /\ hcur = NoSlot /\ ref0 = NoRef
    BY <1>0, <1>1 DEF HalRests, ResetSteps, HalAtRest
  <1>3. Calls = {} /\ Calls' = DrainSet(i)
    BY <1>1, <1>2, NoCalls, DrainLists DEF Calls, Lists
  <1>4. /\ OnlyEntry(i) /\ InQ(i) /\ ~Writing(i) /\ UNCHANGED bufRef
        /\ ~InQ(i)' /\ (\A y : y # i => (InQ(y)' <=> InQ(y)))
        /\ slot'[i].on_used = slot[i].on_used
    BY <1>1, DequeueFacts
  <1>5. slot'[i].frameBuf = slot[i].frameBuf /\ slot'[i].buffer = slot[i].buffer
    <2>1. slot'[i] = [slot[i] EXCEPT !.queue_use = IF slot[i].queue_use > 0
                                                   THEN slot[i].queue_use - 1 ELSE slot[i].queue_use]
      BY <1>0, <1>1, DequeueEffect
    <2> QED  BY <1>0, <2>1 DEF SlotEntry
  <1>6. \A j \in Slots : /\ slot'[j].frameBuf = slot[j].frameBuf /\ slot'[j].buffer = slot[j].buffer
                         /\ slot'[j].on_used = slot[j].on_used
    BY <1>4, <1>5 DEF OnlyEntry
  <1>7. InFlight' = InFlight
    BY FlightSame DEF OtherStep
  <1>8. \A j : Writing(j)' <=> Writing(j)
    BY <1>7 DEF Writing
  <1>9. ASSUME NEW j \in Slots
        PROVE  /\ Awaited(j) <=> InQ(j)
               /\ Awaited(j)' <=> InQ(j)'
               /\ ~GiveBack(j) /\ (GiveBack(j)' <=> j = i /\ slot[i].buffer # NoBuf)
    <2>1. j # NoSlot
      BY DEF Slots, NoSlot
    <2>2. j # ref0.slot /\ j # hcur
      BY <1>2, <2>1 DEF NoRef
    <2>3. ~Show(j) /\ ~Show(j)' /\ ~GiveBack(j) /\ (GiveBack(j)' <=> j = i /\ slot[i].buffer # NoBuf)
      BY <1>3 DEF Show, GiveBack, DrainSet
    <2> QED  BY <1>1, <2>2, <2>3 DEF Awaited
  <1>10. Awaited(i) /\ slot[i].on_used /\ ~Gone(i)
    BY <1>0, <1>4, <1>9, AwaitedUsed DEF Coming
  <1>11. /\ Gone(i)' /\ pic[i] \in dropped'
         /\ \A j \in Slots : j # i /\ slot[j].on_used => (Gone(j)' <=> Gone(j))
         /\ \A j \in Slots : Gone(j) => Gone(j)'
    BY <1>0, <1>1, <1>10 DEF Gone, Numbers
  <1>12. Numbers'
    <2>1. \A n \in dropped' : n <= Len(coded')
      BY <1>0, <1>1 DEF Numbers
    <2> QED  BY <1>0, <1>1, <1>6, <2>1 DEF Numbers
  <1>13. Coming'
    <2> SUFFICES ASSUME NEW j \in Slots
                 PROVE  /\ slot'[j].on_used => (Awaited(j)' <=> ~Gone(j)')
                        /\ Writing(j)' => Awaited(j)'
      BY DEF Coming
    <2>1. CASE j = i
      BY <1>4, <1>8, <1>9, <1>11, <2>1
    <2>2. CASE j # i
      BY <1>0, <1>4, <1>6, <1>8, <1>9, <1>11, <2>2 DEF Coming
    <2> QED  BY <2>1, <2>2
  <1>14. EntryBuffers'
    <2>1. ~Framed' /\ \A j : Unbuffered(j)' <=> Unbuffered(j)
      BY <1>1 DEF Framed, Unbuffered
    <2>2. \A j \in Slots : GiveBack(j)' => pic'[j] \in dropped' /\ slot'[j].buffer # NoBuf
      BY <1>1, <1>6, <1>9, <1>11
    <2> QED  BY <1>0, <1>6, <2>1, <2>2 DEF EntryBuffers
  <1>15. FrameBuffers'
    BY <1>0, <1>1, <1>6, <1>11 DEF FrameBuffers
  <1>16. Referred'
    <2> SUFFICES ASSUME NEW b \in Buffers PROVE bufRef'[b] = RefsOf(b)'
      BY DEF Referred
    <2>0. b # NoBuf
      BY SlotsAssumption
    <2>1. (Sends(b)' <=> Sends(b)) /\ (Has(b)' <=> Has(b)) /\ UNCHANGED held
      BY <1>1, <1>6 DEF Sends, Has
    <2>2. HasExtra(b)' <=> HasExtra(b)
      <3>1. ASSUME NEW j \in Slots, slot[j].buffer = b
            PROVE  ~Gone(j)' \/ GiveBack(j)' <=> ~Gone(j) \/ GiveBack(j)
        <4>1. CASE j = i
          BY <1>9, <1>10, <2>0, <3>1, <4>1
        <4>2. CASE j # i
          BY <1>0, <1>9, <1>11, <2>0, <3>1, <4>2 DEF EntryBuffers
        <4> QED  BY <4>1, <4>2
      <3> QED  BY <1>6, <3>1 DEF HasExtra
    <2>3. RefsOf(b)' = RefsOf(b)
      BY <2>1, <2>2 DEF RefsOf, N
    <2> QED  BY <1>0, <1>4, <2>3 DEF Referred
  <1> QED  BY <1>12, <1>13, <1>14, <1>15, <1>16 DEF BuffersOk

\* The hal thread puts the picture it has taken into mFrames.
LEMMA ShownBuffers == ASSUME SlotInv, BuffersOk, HalPut, Types' PROVE BuffersOk'
  <1>0. /\ Numbers /\ Coming /\ EntryBuffers /\ FrameBuffers /\ Referred /\ SlotTypes
        /\ HalRests /\ ResetSteps /\ Displays /\ hcur \in Entries
        /\ frames \in Seq(OutFrames) /\ shown \in Seq(Nat) /\ pic \in [Slots -> Nat]
    BY DEF BuffersOk, SlotInv, Types, Control, Stages, HalTypes, OtherTypes
  <1>1. /\ hpc = "put" /\ hcur' = NoSlot /\ htodo = << >> /\ htodo' = << <<"clr", hcur, "QUEUE_USE">> >>
        /\ frames' = Append(frames, Frame(pic[hcur], slot[hcur].frameBuf, LastOfEos))
        /\ shown' = Append(shown, pic[hcur])
        /\ UNCHANGED <<slot, queue, bufRef, ref0, ppc, task, ptodo, held, pic, coded, dropped>>
    BY <1>0 DEF HalPut, HalRests, slotVars, parserVars
  <1>2. PICK i \in Slots : i = hcur
    BY <1>0, <1>1 DEF HalRests, Entries
  <1> DEFINE b == slot[i].buffer
  <1>3. Calls' = Calls \cup {<<"clr", i, "QUEUE_USE">>}
    <2> DEFINE c == <<"clr", i, "QUEUE_USE">>
    <2>1. c \in SlotCalls
      BY DEF SlotCalls, Flags
    <2> HIDE DEF c
    <2>2. CallsIn(<< c >>) = {c}
      BY <2>1, OneCall
    <2>3. htodo' = << c >>
      BY <1>1, <1>2 DEF c
    <2> QED  BY <1>1, <2>2, <2>3, NoCalls DEF Calls, c
  <1>4. \A j : (Show(j)' <=> Show(j)) /\ (GiveBack(j)' <=> GiveBack(j)) /\ (Geometry(j)' <=> Geometry(j))
    BY <1>3 DEF Show, GiveBack, Geometry
  <1>5. EntryOk(i) /\ i # NoSlot
    BY EntriesOk DEF Slots, NoSlot
  <1>6. Awaited(i) /\ slot[i].on_used /\ ~Writing(i) /\ ~Gone(i) /\ ~GiveBack(i) /\ b \notin held
    BY <1>2, <1>5, AwaitedUsed, GoneOnce DEF Awaited, EntryOk, StageOf
  <1>7. b # NoBuf /\ slot[i].frameBuf = b /\ b \in Buffers
    <2>1. ~Unbuffered(i)
      <3>1. ppc # "drain"
        BY <1>0, <1>1 DEF ResetSteps, HalAtRest
      <3> QED  BY <1>6, <3>1, ParsedTask DEF Unbuffered, Writing, HalTask
    <2> QED  BY <1>0, <1>6, <2>1 DEF EntryBuffers, SlotTypes, SlotEntry
  <1>8. \A k \in DOMAIN frames : frames[k].buf # b
    BY <1>6, <1>7, GoneOnce
  <1>9. ~Awaited(i)'
    <2>1. ~Show(i)' /\ ~InQ(i)'
      BY <1>1, <1>2, <1>4, <1>5, QueueSame DEF EntryOk, StageOf
    <2>2. ~(i = ref0'.slot /\ ~ref0'.enqueued)
      BY <1>0, <1>1, <1>2, <1>5 DEF Displays, Staged, Valid
    <2> QED  BY <1>1, <1>5, <2>1, <2>2 DEF Awaited
  <1>10. \A j \in Slots : j # i => (Awaited(j)' <=> Awaited(j))
    <2> TAKE j \in Slots
    <2>1. j # NoSlot
      BY DEF Slots, NoSlot
    <2> QED  BY <1>1, <1>2, <1>4, <2>1 DEF Awaited, InQ
  <1>11. InFlight' = InFlight
    BY FlightSame DEF OtherStep
  <1>12. \A j : (Writing(j)' <=> Writing(j)) /\ (Unbuffered(j)' <=> Unbuffered(j)) /\ (Framed' <=> Framed)
    BY <1>1, <1>4, <1>11 DEF Writing, Unbuffered, Framed, Geometry
  <1>13. /\ \A k \in DOMAIN frames : k \in DOMAIN frames' /\ frames'[k] = frames[k]
         /\ \E k \in DOMAIN frames' : frames'[k].buf = b
         /\ \A k \in DOMAIN frames' : k \in DOMAIN frames \/ (k = Len(frames) + 1 /\ frames'[k].buf = b)
    <2> DEFINE f == Frame(pic[hcur], slot[hcur].frameBuf, LastOfEos)
    <2>1. f.buf = b
      BY <1>2, <1>7 DEF Frame
    <2> HIDE DEF f, b
    <2>2. frames' = Append(frames, f)
      BY <1>1 DEF f
    <2>3. Len(frames) + 1 \in DOMAIN frames' /\ frames'[Len(frames) + 1] = f
      BY <1>0, <2>2
    <2>4. \A k \in DOMAIN frames' : k \in DOMAIN frames \/ k = Len(frames) + 1
      BY <1>0, <2>2
    <2>5. \A k \in DOMAIN frames : k \in DOMAIN frames' /\ frames'[k] = frames[k]
      BY <1>0, <2>2
    <2> QED  BY <2>1, <2>3, <2>4, <2>5
  <1>14. /\ \A k \in DOMAIN shown : k \in DOMAIN shown' /\ shown'[k] = shown[k]
         /\ \E k \in DOMAIN shown' : shown'[k] = pic[i]
         /\ \A k \in DOMAIN shown' : k \in DOMAIN shown \/ shown'[k] = pic[i]
    <2> DEFINE p == pic[i]
    <2>1. shown' = Append(shown, p) /\ p \in Nat
      BY <1>0, <1>1, <1>2
    <2> HIDE DEF p
    <2>2. Len(shown) + 1 \in DOMAIN shown' /\ shown'[Len(shown) + 1] = p
      BY <1>0, <2>1
    <2>3. \A k \in DOMAIN shown : k \in DOMAIN shown' /\ shown'[k] = shown[k]
      BY <1>0, <2>1
    <2>4. \A k \in DOMAIN shown' : k \in DOMAIN shown \/ k = Len(shown) + 1
      BY <1>0, <2>1
    <2> QED  BY <2>2, <2>3, <2>4 DEF p
  <1>15. /\ Gone(i)'
         /\ \A j \in Slots : j # i /\ slot[j].on_used => (Gone(j)' <=> Gone(j))
         /\ \A j \in Slots : Gone(j) => Gone(j)'
    BY <1>0, <1>1, <1>6, <1>14 DEF Gone, Numbers
  <1> HIDE DEF b
  <1>16. Numbers'
    <2>1. \A k \in DOMAIN shown' : shown'[k] <= Len(coded')
      BY <1>0, <1>1, <1>14 DEF Numbers
    <2> QED  BY <1>0, <1>1, <2>1 DEF Numbers
  <1>17. Coming'
    <2> SUFFICES ASSUME NEW j \in Slots
                 PROVE  /\ slot'[j].on_used => (Awaited(j)' <=> ~Gone(j)')
                        /\ Writing(j)' => Awaited(j)'
      BY DEF Coming
    <2>1. CASE j = i
      BY <1>6, <1>9, <1>12, <1>15, <2>1
    <2>2. CASE j # i
      BY <1>0, <1>1, <1>10, <1>12, <1>15, <2>2 DEF Coming
    <2> QED  BY <2>1, <2>2
  <1>18. EntryBuffers'
    BY <1>0, <1>1, <1>4, <1>12 DEF EntryBuffers
  <1>19. FrameBuffers'
    <2>1. \A j, k \in DOMAIN frames' : frames'[j].buf = frames'[k].buf /\ frames'[j].buf # NoBuf => j = k
      BY <1>0, <1>8, <1>13 DEF FrameBuffers
    <2>2. \A k \in DOMAIN frames' : frames'[k].buf \notin held'
      BY <1>0, <1>1, <1>6, <1>13 DEF FrameBuffers, b
    <2>3. ASSUME NEW j \in Slots, NEW k \in DOMAIN frames', slot'[j].buffer # NoBuf,
                 frames'[k].buf = slot'[j].buffer
          PROVE  Gone(j)'
      <3>1. CASE k \in DOMAIN frames
        BY <1>0, <1>1, <1>13, <1>15, <2>3, <3>1 DEF FrameBuffers
      <3>2. CASE frames'[k].buf = b
        BY <1>0, <1>1, <1>15, <2>3, <3>2 DEF EntryBuffers, b
      <3> QED  BY <1>13, <3>1, <3>2
    <2>4. \A j \in Slots : slot'[j].buffer \in held' => Gone(j)'
      BY <1>0, <1>1, <1>15 DEF FrameBuffers
    <2> QED  BY <2>1, <2>2, <2>3, <2>4 DEF FrameBuffers
  <1>20. Referred'
    <2> SUFFICES ASSUME NEW x \in Buffers PROVE bufRef'[x] = RefsOf(x)'
      BY DEF Referred
    <2>0. bufRef'[x] = RefsOf(x) /\ x # NoBuf
      BY <1>0, <1>1, SlotsAssumption DEF Referred
    <2>1. (Has(x)' <=> Has(x)) /\ UNCHANGED held
      BY <1>1 DEF Has
    <2>2. CASE x = b
      <3>1. Sends(x)' /\ ~Sends(x)
        BY <1>8, <1>13, <2>2 DEF Sends
      <3>2. HasExtra(x)
        BY <1>6, <2>2 DEF HasExtra, b
      <3>3. ~HasExtra(x)'
        <4>1. \A j \in Slots : slot'[j].buffer = x => j = i
          BY <1>0, <1>1, <2>0, <2>2 DEF EntryBuffers, b
        <4> QED  BY <1>4, <1>6, <1>15, <4>1 DEF HasExtra
      <3>4. RefsOf(x)' = RefsOf(x)
        BY <2>1, <3>1, <3>2, <3>3 DEF RefsOf, N
      <3> QED  BY <2>0, <3>4
    <2>3. CASE x # b
      <3>1. Sends(x)' <=> Sends(x)
        BY <1>13, <2>3 DEF Sends
      <3>2. HasExtra(x)' <=> HasExtra(x)
        <4>1. \A j \in Slots : slot[j].buffer = x => slot[j].on_used /\ j # i
          BY <1>0, <2>0, <2>3 DEF EntryBuffers, b
        <4> QED  BY <1>1, <1>4, <1>15, <4>1 DEF HasExtra
      <3>3. RefsOf(x)' = RefsOf(x)
        BY <2>1, <3>1, <3>2 DEF RefsOf, N
      <3> QED  BY <2>0, <3>3
    <2> QED  BY <2>2, <2>3
  <1> QED  BY <1>16, <1>17, <1>18, <1>19, <1>20 DEF BuffersOk

\* With no call, task, reference or queued entry left, no entry is on use.
LEMMA NobodyLeft ==
    ASSUME SlotInv, Calls = {}, InFlight = {}, queue["DISPLAY"] = << >>, hcur = NoSlot,
           ref0 = NoRef, ref1 = NoRef, NEW i \in Slots
    PROVE  ~slot[i].on_used
  <1>1. EntryOk(i) /\ i # NoSlot
    BY EntriesOk DEF Slots, NoSlot
  <1>2. ~Staged(i)
    BY <1>1 DEF Staged, Show, InQ, ClrShow
  <1>3. ~IsRef(i) /\ ~Writing(i) /\ ~ClrOut(i) /\ ~ClrIn(i) /\ ~ClrRef(i)
    BY <1>1 DEF IsRef, NoRef, Writing, ClrOut, ClrIn, ClrRef
  <1>4. ~(Reads(i) > 0)
    <2>1. ReadsOf(i, 1) = {} /\ ReadsOf(i, 2) = {}
      BY DEF ReadsOf
    <2>2. Reads(i) = Cardinality(ReadsOf(i, 1)) + Cardinality(ReadsOf(i, 2))
      BY DEF Reads, Uses, ReadsOf
    <2>3. Cardinality(ReadsOf(i, 1)) = 0 /\ Cardinality(ReadsOf(i, 2)) = 0
      BY <2>1, FS_EmptySet
    <2>4. Reads(i) = 0
      BY <2>2, <2>3
    <2> QED  BY <2>4
  <1>5. ~Needed(i)
    BY <1>2, <1>3, <1>4 DEF Needed
  <1> QED  BY <1>1, <1>5 DEF EntryOk, FlagsOf, OnUse

\* When the drain of the display queue ends, the queue is empty: its head would be ready.
LEMMA DrainEnds ==
    ASSUME SlotInv, ResetDone
    PROVE  /\ Calls = {} /\ Calls' = {} /\ InFlight = {} /\ InFlight' = {} /\ queue["DISPLAY"] = << >>
           /\ hcur = NoSlot /\ ref0 = NoRef /\ ref1 = NoRef /\ ~task'.parsed
           /\ UNCHANGED <<slot, queue, bufRef, pic, shown, dropped, coded, frames, held, hcur, ref0, ref1>>
  <1>0. /\ HalRests /\ ResetSteps /\ queue["DISPLAY"] \in Seq(Slots)
    BY DEF SlotInv, Control, Types, SlotTypes, QueueTypes
  <1>1. /\ ppc = "drain" /\ ptodo = << >> /\ htodo = << >> /\ ref0 = NoRef /\ ref1 = NoRef
        /\ procQ = << >> /\ hcur = NoSlot /\ task' = NoTask /\ ~CanDequeue("DISPLAY")
        /\ UNCHANGED <<slot, queue, bufRef, pic, shown, dropped, coded, frames, held, hcur, ref0, ref1>>
        /\ UNCHANGED <<ptodo, htodo, procQ>>
    BY <1>0 DEF ResetDone, HalRests, ResetSteps, HalAtRest, slotVars, halVars, outVars, histVars
  <1>2. Calls = {} /\ Calls' = {}
    BY <1>1, NoCalls DEF Calls
  <1>3. InFlight = {} /\ InFlight' = {}
    BY <1>1 DEF InFlight, Sent, Waiting, NoTask
  <1>4. queue["DISPLAY"] = << >>
    <2> SUFFICES ASSUME queue["DISPLAY"] # << >> PROVE FALSE
      OBVIOUS
    <2> DEFINE i == Head(queue["DISPLAY"])
    <2>1. i \in Slots /\ slot[i].not_ready
      BY <1>0, <1>1 DEF CanDequeue
    <2> HIDE DEF i
    <2>2. EntryOk(i)
      BY <2>1, EntriesOk
    <2>3. ~Writing(i) /\ ~ClrOut(i)
      BY <1>2, <1>3 DEF Writing, ClrOut
    <2> QED  BY <2>1, <2>2, <2>3 DEF EntryOk, FlagsOf, NotReady
  <1> QED  BY <1>1, <1>2, <1>3, <1>4 DEF NoTask

\* Then no entry has a buffer.
LEMMA NoBuffers ==
    ASSUME SlotInv, BuffersOk, \A i \in Slots : ~slot[i].on_used
    PROVE  /\ \A i \in Slots : slot[i].buffer = NoBuf /\ slot[i].frameBuf = NoBuf
           /\ \A b \in Buffers : bufRef[b] = N(Sends(b)) + N(b \in held)
  <1>1. \A i \in Slots : slot[i].buffer = NoBuf /\ slot[i].frameBuf = NoBuf
    BY DEF BuffersOk, EntryBuffers
  <1>2. ASSUME NEW b \in Buffers PROVE bufRef[b] = N(Sends(b)) + N(b \in held)
    <2>1. ~Has(b) /\ ~HasExtra(b)
      BY <1>1, SlotsAssumption DEF Has, HasExtra
    <2>2. bufRef[b] = RefsOf(b)
      BY DEF BuffersOk, Referred
    <2> QED  BY <2>1, <2>2 DEF RefsOf, N
  <1> QED  BY <1>1, <1>2

\* And the invariant says what it says of the frames alone.
LEMMA NoEntries ==
    ASSUME \A i \in Slots : ~slot'[i].on_used /\ slot'[i].buffer = NoBuf /\ slot'[i].frameBuf = NoBuf,
           Calls' = {}, InFlight' = {}, ~task'.parsed, held' \subseteq Buffers, Numbers',
           \A j, k \in DOMAIN frames' : frames'[j].buf = frames'[k].buf /\ frames'[j].buf # NoBuf => j = k,
           \A k \in DOMAIN frames' : frames'[k].buf \notin held',
           \A b \in Buffers : bufRef'[b] = N(Sends(b))' + N(b \in held)'
    PROVE  BuffersOk'
  <1>0. NoBuf \notin Buffers
    BY SlotsAssumption
  <1>1. Coming'
    BY DEF Coming, Writing
  <1>2. EntryBuffers'
    BY DEF EntryBuffers, GiveBack, Framed
  <1>3. FrameBuffers'
    BY <1>0 DEF FrameBuffers
  <1>4. Referred'
    <2> SUFFICES ASSUME NEW b \in Buffers PROVE bufRef'[b] = RefsOf(b)'
      BY DEF Referred
    <2>1. ~Has(b)' /\ ~HasExtra(b)'
      BY <1>0 DEF Has, HasExtra
    <2>2. RefsOf(b)' = N(Sends(b))' + N(b \in held)'
      BY <2>1 DEF RefsOf, N
    <2> QED  BY <2>2
  <1> QED  BY <1>1, <1>2, <1>3, <1>4 DEF BuffersOk

\* The end of the parser thread's part of a reset.
LEMMA ResetDoneBuffers == ASSUME SlotInv, BuffersOk, ResetDone, Types' PROVE BuffersOk'
  <1>1. /\ Calls = {} /\ Calls' = {} /\ InFlight = {} /\ InFlight' = {} /\ queue["DISPLAY"] = << >>
        /\ hcur = NoSlot /\ ref0 = NoRef /\ ref1 = NoRef /\ ~task'.parsed
        /\ UNCHANGED <<slot, queue, bufRef, pic, shown, dropped, coded, frames, held, hcur, ref0, ref1>>
    BY DrainEnds
  <1>2. \A i \in Slots : ~slot[i].on_used
    BY <1>1, NobodyLeft
  <1>3. /\ \A i \in Slots : slot[i].buffer = NoBuf /\ slot[i].frameBuf = NoBuf
        /\ \A b \in Buffers : bufRef[b] = N(Sends(b)) + N(b \in held)
    BY <1>2, NoBuffers
  <1>4. \A b \in Buffers : bufRef'[b] = N(Sends(b))' + N(b \in held)'
    BY <1>1, <1>3 DEF Sends, N
  <1>5. Numbers' /\ held' \subseteq Buffers
    BY <1>1 DEF BuffersOk, Numbers, Types, OtherTypes
  <1>6. /\ \A j, k \in DOMAIN frames' : frames'[j].buf = frames'[k].buf /\ frames'[j].buf # NoBuf => j = k
        /\ \A k \in DOMAIN frames' : frames'[k].buf \notin held'
    BY <1>1 DEF BuffersOk, FrameBuffers
  <1> QED  BY <1>1, <1>2, <1>3, <1>4, <1>5, <1>6, NoEntries

\* At the end of Mpp::reset all threads rest, and no frame is left but the application's.
LEMMA FlushRests ==
    ASSUME SlotInv, Emptied, UserFlush
    PROVE  /\ Calls = {} /\ Calls' = {} /\ InFlight = {} /\ InFlight' = {} /\ ~task'.parsed
           /\ \A i \in Slots : ~slot[i].on_used
  <1>0. HalRests /\ AfterReset /\ ParserRests /\ flushDue /\ ~resetFlag
    BY DEF SlotInv, Control, UserFlush
  <1>1. /\ ptodo = << >> /\ htodo = << >> /\ ref0 = NoRef /\ ref1 = NoRef /\ procQ = << >> /\ hcur = NoSlot
        /\ task = NoTask /\ queue["DISPLAY"] = << >>
    BY <1>0 DEF HalRests, AfterReset, ParserRests, HalAtRest, Emptied
  <1>2. UNCHANGED <<ptodo, htodo, procQ, task, ppc>>
    BY DEF UserFlush, parserVars, halVars
  <1>3. Calls = {} /\ Calls' = {}
    BY <1>1, <1>2, NoCalls DEF Calls
  <1>4. InFlight = {} /\ InFlight' = {} /\ ~task'.parsed
    BY <1>1, <1>2 DEF InFlight, Sent, Waiting, NoTask
  <1>5. \A i \in Slots : ~slot[i].on_used
    BY <1>1, <1>3, <1>4, NobodyLeft
  <1> QED  BY <1>3, <1>4, <1>5

\* A buffer is in one frame of mFrames at most.
LEMMA SentOnce ==
    ASSUME FrameBuffers, NEW b \in Buffers
    PROVE  Cardinality({k \in DOMAIN frames : frames[k].buf = b}) = N(Sends(b))
  <1> DEFINE K == {k \in DOMAIN frames : frames[k].buf = b}
  <1>0. b # NoBuf
    BY SlotsAssumption
  <1>1. CASE Sends(b)
    <2>1. PICK k \in DOMAIN frames : frames[k].buf = b
      BY <1>1 DEF Sends
    <2>2. K = {k}
      BY <1>0, <2>1 DEF FrameBuffers
    <2>3. Cardinality(K) = 1
      BY <2>2, FS_Singleton
    <2> QED  BY <1>1, <2>3 DEF N
  <1>2. CASE ~Sends(b)
    <2>1. K = {}
      BY <1>2 DEF Sends
    <2>2. Cardinality(K) = 0
      BY <2>1, FS_EmptySet
    <2> QED  BY <1>2, <2>2 DEF N
  <1> QED  BY <1>1, <1>2

\* Mpp::reset gives back the frames that nobody has taken.
LEMMA UserFlushBuffers == ASSUME SlotInv, BuffersOk, Emptied, UserFlush, Types' PROVE BuffersOk'
  <1>1. /\ frames' = << >> /\ bufRef' = FlushedRefs /\ coded' = << >> /\ shown' = << >> /\ dropped' = {}
        /\ pic' = [i \in Slots |-> 0] /\ UNCHANGED <<slot, held>>
    BY DEF UserFlush
  <1>2. /\ Calls = {} /\ Calls' = {} /\ InFlight = {} /\ InFlight' = {} /\ ~task'.parsed
        /\ \A i \in Slots : ~slot[i].on_used
    BY FlushRests
  <1>3. /\ \A i \in Slots : slot[i].buffer = NoBuf /\ slot[i].frameBuf = NoBuf
        /\ \A b \in Buffers : bufRef[b] = N(Sends(b)) + N(b \in held)
    BY <1>2, NoBuffers
  <1>4. ASSUME NEW b \in Buffers PROVE bufRef'[b] = N(Sends(b))' + N(b \in held)'
    <2> DEFINE K == {k \in DOMAIN frames : frames[k].buf = b}
    <2>1. Cardinality(K) = N(Sends(b))
      BY SentOnce DEF BuffersOk
    <2>2. bufRef'[b] = bufRef[b] - Cardinality(K)
      BY <1>1 DEF FlushedRefs
    <2>3. ~Sends(b)'
      BY <1>1 DEF Sends
    <2>4. N(b \in held)' = N(b \in held) /\ N(b \in held) \in Int /\ N(Sends(b)) \in Int /\ N(Sends(b))' = 0
      BY <1>1, <2>3 DEF N
    <2> HIDE DEF K
    <2> QED  BY <1>3, <2>1, <2>2, <2>4
  <1>5. Numbers' /\ held' \subseteq Buffers
    BY <1>1, <1>2 DEF Numbers, Types, OtherTypes
  <1>6. /\ \A j, k \in DOMAIN frames' : frames'[j].buf = frames'[k].buf /\ frames'[j].buf # NoBuf => j = k
        /\ \A k \in DOMAIN frames' : frames'[k].buf \notin held'
    BY <1>1
  <1> QED  BY <1>1, <1>2, <1>3, <1>4, <1>5, <1>6, NoEntries

\* Every step leaves each reference on a buffer with its owner.
LEMMA BuffersStep == ASSUME SlotInv, BufferInv, [Next]_vars PROVE BuffersOk'
  <1>0. SlotInv' /\ Types' /\ BuffersOk /\ Emptied
    BY SlotInvStep DEF SlotInv, BufferInv
  <1>1. CASE Next
    <2>1. \/ StillStep
          \/ HalTake \/ HalReset \/ PrepareEos \/ ParserCall \/ HalCall
          \/ (\E i \in Slots : HalDequeue(i)) \/ (\E i \in Slots : ResetDrain(i))
          \/ (\E b \in Buffers : GetBuffer(b)) \/ (\E b \in Buffers : ReleaseFrame(b))
          \/ HalPut \/ HalEnd \/ HwDone \/ ResetParser \/ ResetDone \/ TakeFrame \/ UserFlush
          \/ \E type \in {"I", "P", "B"}, size \in Infos, eos \in BOOLEAN : Parse(type, size, eos)
      BY <1>1 DEF Next, ParserNext, HalNext, UserNext, StillStep
    <2>2. CASE StillStep
      BY <1>0, <2>2, StillBuffers
    <2>3. CASE HalTake \/ HalReset \/ PrepareEos
      BY <1>0, <2>3, FlushBuffers
    <2>4. CASE ParserCall \/ HalCall
      BY <1>0, <2>4, CallBuffers
    <2>5. CASE \/ (\E i \in Slots : HalDequeue(i)) \/ (\E i \in Slots : ResetDrain(i))
               \/ (\E b \in Buffers : GetBuffer(b)) \/ (\E b \in Buffers : ReleaseFrame(b))
      BY <1>0, <2>5, TakenBuffers, DrainBuffers, GetBuffers, ReleaseBuffers
    <2>6. CASE HalPut \/ HalEnd \/ HwDone \/ ResetParser \/ ResetDone \/ TakeFrame \/ UserFlush
      BY <1>0, <2>6, ShownBuffers, EndBuffers, DoneBuffers, ResetParserBuffers, ResetDoneBuffers,
         TakeBuffers, UserFlushBuffers
    <2>7. CASE \E type \in {"I", "P", "B"}, size \in Infos, eos \in BOOLEAN : Parse(type, size, eos)
      BY <1>0, <2>7, ParseBuffers
    <2> QED  BY <2>1, <2>2, <2>3, <2>4, <2>5, <2>6, <2>7
  <1>2. CASE UNCHANGED vars
    <2>1. UNCHANGED <<slot, queue, bufRef, pic, shown, dropped, coded, frames, held, hcur, ref0, ptodo, htodo,
                      task, ppc, procQ>>
      BY <1>2 DEF vars, slotVars, parserVars, halVars, outVars, histVars
    <2>2. Calls' = Calls /\ InFlight' = InFlight /\ Len(coded) <= Len(coded')
      BY <1>0, <2>1 DEF Calls, InFlight, Sent, Waiting, Types, OtherTypes
    <2>3. EntriesKept /\ PutsKept /\ FramesKept
      BY <2>1, <2>2 DEF EntriesKept, PutsKept, FramesKept, EntryKept, Awaited, Show, InQ,
         GiveBack, Unbuffered,
         Writing, Framed, Geometry
    <2> QED  BY <1>0, <2>3, KeptBuffers
  <1> QED  BY <1>1, <1>2

\* Nothing enters the display queue between the end of a reset and the last flush.
LEMMA EmptiedStep == ASSUME SlotInv, BufferInv, [Next]_vars PROVE Emptied'
  <1> SUFFICES ASSUME flushDue', ~resetFlag' PROVE queue'["DISPLAY"] = << >>
    BY DEF Emptied
  <1>0. Emptied /\ AfterReset /\ ParserRests /\ HalRests
    BY DEF BufferInv, SlotInv, Control
  <1>1. CASE flushDue /\ ~resetFlag
    <2>1. ptodo = << >> /\ htodo = << >> /\ queue["DISPLAY"] = << >>
      BY <1>0, <1>1 DEF AfterReset, ParserRests, HalRests, HalAtRest, Emptied
    <2>2. ~ParserCall /\ ~HalCall /\ (\A i \in Slots : ~HalDequeue(i) /\ ~ResetDrain(i))
      BY <2>1 DEF ParserCall, HalCall, HalDequeue, ResetDrain, Dequeue, CanDequeue
    <2>3. \A type, size, eos : ~Parse(type, size, eos)
      BY <1>1 DEF Parse, PacketReady
    <2>4. CASE Next
      <3>1. UNCHANGED queue
        BY <2>2, <2>3, <2>4 DEF Next, ParserNext, HalNext, UserNext, PrevDone, ParseSkipped,
           PrepareEos,
           SubmitEos, SendInfoChange, WaitInfoChange, NoBuffer, GetBuffer, SetBuffer, Submit, ProcControl,
           Ready, ResetPost, ResetParser, ResetDone, HalTake, HwDone, HalReset, HalPut, HalEnd, TakeFrame,
           UserFlush, UserReset, ReleaseFrame, slotVars
      <3> QED  BY <2>1, <3>1
    <2>5. CASE UNCHANGED vars
      BY <2>1, <2>5 DEF vars, slotVars
    <2> QED  BY <2>4, <2>5
  <1>2. CASE ~(flushDue /\ ~resetFlag)
    <2>0. ~(UNCHANGED <<flushDue, resetFlag>>)
      <3> SUFFICES ASSUME flushDue' = flushDue, resetFlag' = resetFlag PROVE FALSE
        OBVIOUS
      <3>1. flushDue /\ ~resetFlag
        OBVIOUS
      <3> QED  BY <1>2, <3>1
    <2>1. ~UserNext
      <3>1. UserNext => UNCHANGED <<flushDue, resetFlag>> \/ resetFlag' = TRUE \/ flushDue' = FALSE
        BY DEF UserNext, TakeFrame, UserFlush, UserReset, ReleaseFrame, ctrlVars
      <3> QED  BY <2>0, <3>1
    <2>2. ~HalNext
      <3>1. HalNext => UNCHANGED <<flushDue, resetFlag>>
        BY DEF HalNext, HalTake, HwDone, HalReset, HalCall, HalDequeue, HalPut, HalEnd, ctrlVars
      <3> QED  BY <2>0, <3>1
    <2>3. ~UNCHANGED vars
      BY <2>0 DEF vars, ctrlVars
    <2>4. ParserNext
      BY <2>1, <2>2, <2>3 DEF Next
    <2>5. ResetDone
      BY <2>0, <2>4 DEF ParserNext, PrevDone, Parse, ParseSkipped, PrepareEos, SubmitEos,
         SendInfoChange,
         WaitInfoChange, NoBuffer, GetBuffer, Submit, ProcControl, ResetPost, ResetParser, ResetDrain,
         ParserCall, ctrlVars
    <2> QED  BY <2>5, DrainEnds
  <1> QED  BY <1>1, <1>2

\* At the start there is no buffer in use.
LEMMA BufferInvInit == ASSUME Init PROVE BufferInv
  <1>0. SlotInv
    BY SlotInvInit
  <1>1. /\ slot = [i \in Slots |-> EmptyEntry] /\ bufRef = [b \in Buffers |-> 0]
        /\ ptodo = << >> /\ htodo = << >> /\ task = NoTask /\ procQ = << >> /\ frames = << >> /\ held = {}
        /\ pic = [i \in Slots |-> 0] /\ coded = << >> /\ shown = << >> /\ dropped = {} /\ flushDue = FALSE
    BY DEF Init, SlotsInit
  <1>2. \A i \in Slots : ~slot[i].on_used /\ slot[i].buffer = NoBuf /\ slot[i].frameBuf = NoBuf
    BY <1>1 DEF EmptyEntry
  <1>3. Calls = {} /\ InFlight = {} /\ ~task.parsed
    BY <1>1, NoCalls DEF Calls, InFlight, Sent, Waiting, NoTask
  <1>4. Numbers
    BY <1>1, <1>2 DEF Numbers
  <1>5. Coming
    BY <1>2, <1>3 DEF Coming, Writing
  <1>6. EntryBuffers
    BY <1>2, <1>3 DEF EntryBuffers, GiveBack, Framed
  <1>7. FrameBuffers
    BY <1>1 DEF FrameBuffers
  <1>8. Referred
    <2> SUFFICES ASSUME NEW b \in Buffers PROVE bufRef[b] = RefsOf(b)
      BY DEF Referred
    <2>1. ~Has(b) /\ ~HasExtra(b) /\ ~Sends(b) /\ b \notin held
      BY <1>1, <1>2, SlotsAssumption DEF Has, HasExtra, Sends
    <2> QED  BY <1>1, <2>1 DEF RefsOf, N
  <1>9. Emptied
    BY <1>1 DEF Emptied
  <1> QED  BY <1>4, <1>5, <1>6, <1>7, <1>8, <1>9 DEF BufferInv, BuffersOk

\* In every reachable state each entry, frame and picture that has a buffer holds
\* exactly the references that mpp_buf_slot.cpp and mpp_dec.cpp took for it, the
\* calls still in hand included.
THEOREM BuffersFollowOwners == Spec => [](SlotInv /\ BufferInv)
  <1>1. Init => SlotInv /\ BufferInv
    BY SlotInvInit, BufferInvInit
  <1>2. SlotInv /\ BufferInv /\ [Next]_vars => (SlotInv /\ BufferInv)'
    BY SlotInvStep, BuffersStep, EmptiedStep DEF BufferInv
  <1> QED  BY <1>1, <1>2, PTL DEF Spec

-----------------------------------------------------------------------------
(* The properties of the slots and the buffers *)

\* A set whose members are all the same has one member or none.
LEMMA OneOrNone ==
    ASSUME NEW S, \A x, y \in S : x = y
    PROVE  Cardinality(S) = N(S # {})
  <1>1. CASE S = {}
    BY <1>1, FS_EmptySet DEF N
  <1>2. CASE S # {}
    <2>1. PICK x : x \in S
      BY <1>2
    <2>2. S = {x}
      BY <2>1
    <2> QED  BY <1>2, <2>2, FS_Singleton DEF N
  <1> QED  BY <1>1, <1>2

\* With no call in hand, the references on a buffer are those of the owners one can see.
LEMMA RefsAtRest == ASSUME SlotInv, BufferInv PROVE BufferRefsExact
  <1> SUFFICES ASSUME AtRest, NEW b \in Buffers PROVE bufRef[b] = Owners(b)
    BY DEF BufferRefsExact
  <1>0. EntryBuffers /\ FrameBuffers /\ Referred /\ Calls = {} /\ b # NoBuf
    BY NoCalls, SlotsAssumption DEF BufferInv, BuffersOk, AtRest, Calls
  <1> DEFINE E == {i \in Slots : slot[i].buffer = b}
             F == {i \in Slots : slot[i].frameBuf = b}
             X == {i \in Slots : slot[i].buffer = b /\ pic[i] \notin dropped
                                 /\ \A k \in DOMAIN shown : shown[k] # pic[i]}
             K == {k \in DOMAIN frames : frames[k].buf = b}
  <1>1. Owners(b) = Cardinality(E) + Cardinality(F) + Cardinality(X) + Cardinality(K)
                      + (IF b \in held THEN 1 ELSE 0)
    BY DEF Owners
  <1>2. Cardinality(E) = N(Has(b)) /\ F = E
    <2>1. F = E /\ \A x, y \in E : x = y
      BY <1>0 DEF EntryBuffers
    <2>2. E # {} <=> Has(b)
      BY DEF Has
    <2>3. Cardinality(E) = N(E # {})
      BY <2>1, OneOrNone
    <2> QED  BY <2>1, <2>2, <2>3 DEF N
  <1>3. Cardinality(X) = N(HasExtra(b))
    <2>1. \A x, y \in X : x = y
      BY <1>0 DEF EntryBuffers
    <2>2. X # {} <=> HasExtra(b)
      BY <1>0 DEF HasExtra, GiveBack, Gone
    <2>3. Cardinality(X) = N(X # {})
      BY <2>1, OneOrNone
    <2> QED  BY <2>2, <2>3 DEF N
  <1>4. Cardinality(K) = N(Sends(b))
    BY <1>0, SentOnce
  <1> HIDE DEF E, F, X, K
  <1>5. bufRef[b] = RefsOf(b)
    BY <1>0 DEF Referred
  <1> QED  BY <1>1, <1>2, <1>3, <1>4, <1>5 DEF RefsOf, N

\* The number of a frame buffer's references never drifts from its owners: every
\* mpp_buffer_inc_ref of mpp_buf_slot_set_prop and Mpp is matched, for any number of
\* slots and buffers.
THEOREM ReferencesOwned == Spec => []BufferRefsExact
  BY BuffersFollowOwners, RefsAtRest, PTL

\* A task sent to the hal thread has an entry of its own, on use and with a buffer.
LEMMA SentTask ==
    ASSUME SlotInv, BufferInv, NEW t \in Sent
    PROVE  /\ t \in InFlight /\ t.out \in Slots /\ slot[t.out].on_used /\ Awaited(t.out)
           /\ ~Unbuffered(t.out) /\ slot[t.out].buffer # NoBuf
           /\ \A n \in 1 .. 2 : ~Unbuffered(t.refer[n])
           /\ ppc # "drain"
  <1>0. TasksDiffer /\ TasksRefer /\ Coming /\ EntryBuffers
    BY DEF SlotInv, OnTheWay, BufferInv, BuffersOk
  <1>1. PICK k \in DOMAIN procQ : t = procQ[k] /\ procQ[k].kind = "frame"
    BY DEF Sent
  <1>2. t \in InFlight
    BY DEF InFlight
  <1>3. t.out \in Slots /\ Writing(t.out)
    BY <1>0, <1>2 DEF TasksRefer, Writing
  <1>4. slot[t.out].on_used /\ ppc # "drain" /\ Awaited(t.out)
    BY <1>0, <1>3, WrittenUsed DEF Coming
  <1>5. ~Unbuffered(t.out) /\ ~Unbuffered(t.refer[1]) /\ ~Unbuffered(t.refer[2])
    BY <1>0, <1>1 DEF Unbuffered, TasksDiffer
  <1>6. \A n \in 1 .. 2 : ~Unbuffered(t.refer[n])
    <2> SUFFICES ASSUME NEW n \in 1 .. 2 PROVE ~Unbuffered(t.refer[n])
      OBVIOUS
    <2>1. n = 1 \/ n = 2
      OBVIOUS
    <2> QED  BY <1>5, <2>1
  <1> QED  BY <1>0, <1>2, <1>3, <1>4, <1>5, <1>6 DEF EntryBuffers

\* What the hardware writes is nobody else's.
LEMMA WritesApart == ASSUME SlotInv, BufferInv PROVE OutputsExclusive
  <1>0. TasksDiffer /\ TasksRefer /\ EntryBuffers /\ FrameBuffers
    BY DEF SlotInv, OnTheWay, BufferInv, BuffersOk
  <1>1. ASSUME NEW t1 \in InFlight, NEW t2 \in InFlight, t1.out = t2.out PROVE t1 = t2
    <2>1. ASSUME NEW t \in Sent, NEW u \in Waiting PROVE t.out # u.out
      <3>1. PICK k \in DOMAIN procQ : t = procQ[k] /\ procQ[k].kind = "frame"
        BY <2>1 DEF Sent
      <3>2. task.parsed /\ u = HalTask("frame", task.out, task.refer, task.eos)
        BY <2>1 DEF Waiting
      <3>3. u.out = task.out
        BY <3>2 DEF HalTask
      <3> QED  BY <1>0, <3>1, <3>2, <3>3 DEF TasksDiffer
    <2>2. ASSUME NEW t \in Sent, NEW u \in Sent, t.out = u.out PROVE t = u
      <3>1. PICK j \in DOMAIN procQ : t = procQ[j] /\ procQ[j].kind = "frame"
        BY <2>2 DEF Sent
      <3>2. PICK k \in DOMAIN procQ : u = procQ[k] /\ procQ[k].kind = "frame"
        BY <2>2 DEF Sent
      <3> QED  BY <1>0, <2>2, <3>1, <3>2 DEF TasksDiffer
    <2>3. \A t, u \in Waiting : t = u
      BY DEF Waiting
    <2> QED  BY <1>1, <2>1, <2>2, <2>3 DEF InFlight
  <1>2. \A t \in InFlight : t.out \notin {t.refer[1], t.refer[2]}
    BY <1>0 DEF TasksRefer
  <1>3. ASSUME NEW t \in Sent
        PROVE  LET b == slot[t.out].buffer
               IN  /\ b # NoBuf /\ b \notin held
                   /\ \A k \in DOMAIN frames : frames[k].buf # b
                   /\ \A i \in Slots \ {t.out} : slot[i].buffer # b
    <2>1. t.out \in Slots /\ slot[t.out].on_used /\ Awaited(t.out) /\ slot[t.out].buffer # NoBuf
      BY SentTask
    <2>2. /\ slot[t.out].buffer \notin held
          /\ \A k \in DOMAIN frames : frames[k].buf # slot[t.out].buffer
      BY <2>1, GoneOnce DEF BufferInv
    <2>3. \A i \in Slots \ {t.out} : slot[i].buffer # slot[t.out].buffer
      BY <1>0, <2>1 DEF EntryBuffers
    <2> QED  BY <2>1, <2>2, <2>3
  <1> QED  BY <1>1, <1>2, <1>3 DEF OutputsExclusive

\* What the hardware reads is still there.
LEMMA ReadsStay == ASSUME SlotInv, BufferInv PROVE ReferencesStay
  <1> SUFFICES ASSUME NEW t \in Sent, NEW n \in 1 .. 2, t.refer[n] # NoSlot
               PROVE  slot[t.refer[n]].on_used /\ slot[t.refer[n]].buffer # NoBuf
    BY DEF ReferencesStay
  <1>0. TasksRefer /\ EntryBuffers
    BY DEF SlotInv, OnTheWay, BufferInv, BuffersOk
  <1> DEFINE i == t.refer[n]
  <1>1. n = 1 \/ n = 2
    OBVIOUS
  <1>2. t \in InFlight /\ ~Unbuffered(i) /\ ppc # "drain"
    BY SentTask
  <1>3. i \in Slots
    <2>1. t.refer[1] \in Entries /\ t.refer[2] \in Entries
      BY <1>0, <1>2 DEF TasksRefer
    <2> QED  BY <1>1, <2>1 DEF Entries
  <1>4. Needed(i)
    <2> SUFFICES ASSUME ~Needed(i) PROVE FALSE
      OBVIOUS
    <2>1. t.refer[1] # i /\ t.refer[2] # i
      BY <1>2, <1>3, NotReferred
    <2> QED  BY <1>1, <2>1
  <1>5. slot[i].on_used
    BY <1>2, <1>3, <1>4, EntriesOk DEF EntryOk, FlagsOf, OnUse, Forgotten
  <1> QED  BY <1>0, <1>2, <1>3, <1>5 DEF EntryBuffers

\* The hardware writes no picture that is read, shown or referred to, and what it
\* reads stays, for every number of slots, buffers and pictures on their way.
THEOREM HardwareHasItsPictures == Spec => []PicturesIntact
  <1>1. SlotInv /\ BufferInv => PicturesIntact
    BY WritesApart, ReadsStay DEF PicturesIntact
  <1> QED  BY <1>1, BuffersFollowOwners, PTL

\* The types that the runs check.
LEMMA TypesOk == ASSUME SlotInv, BufferInv PROVE TypeOK
  <1>0. /\ SlotTypes /\ ParserTypes /\ HalTypes /\ OtherTypes /\ TasksLeft /\ Referred /\ UsedCounted
    BY DEF SlotInv, Types, Control, BufferInv, BuffersOk
  <1>1. SlotsTypeOK
    <2>1. usedCount \in 0 .. SlotCount
      <3>1. SlotCount \in Nat /\ usedCount \in Int
        BY <1>0, SlotsAssumption DEF SlotTypes
      <3>2. IsFiniteSet(UsedEntries)
        <4>1. IsFiniteSet(Slots)
          BY FS_Interval, SlotsAssumption DEF Slots
        <4> QED  BY <4>1, FS_Subset DEF UsedEntries
      <3>3. Cardinality(UsedEntries) \in Nat
        BY <3>2, FS_CardinalityType
      <3> QED  BY <1>0, <3>1, <3>3 DEF UsedCounted
    <2>2. bufRef \in [Buffers -> Nat]
      <3>1. \A b : RefsOf(b) \in Nat
        BY DEF RefsOf, N
      <3>2. \A b \in Buffers : bufRef[b] \in Nat
        BY <1>0, <3>1 DEF Referred
      <3> QED  BY <1>0, <3>2 DEF SlotTypes
    <2>3. \A q \in QueueTypes : queue[q] \in Seq(Slots)
      BY <1>0 DEF SlotTypes
    <2>4. {info, infoSet} \subseteq Infos \cup {0}
      BY <1>0 DEF SlotTypes
    <2> QED  BY <1>0, <2>1, <2>2, <2>3, <2>4 DEF SlotsTypeOK, SlotTypes
  <1>2. \A r \in {ref0, ref1} :
            r.slot \in Slots \cup {NoSlot} /\ r.enqueued \in BOOLEAN /\ r.size \in Infos \cup {0}
    BY <1>0 DEF ParserTypes, Refs, Entries
  <1>3. {foundI, gotEos, resetFlag, flushDue, readyCmd} \subseteq BOOLEAN
    BY <1>0 DEF ParserTypes, OtherTypes
  <1>4. {task.out, hal.out, hcur} \subseteq Slots \cup {NoSlot}
    BY <1>0 DEF ParserTypes, HalTypes, DecTasks, HalJobs, Entries
  <1>5. /\ ppc \in {"top", "check", "submit", "eos", "waithal", "drain"}
        /\ hpc \in {"top", "hw", "push", "put"} /\ halReset \in {"none", "posted", "done"}
    BY <1>0 DEF ParserTypes, HalTypes, OtherTypes
  <1>6. /\ Len(procQ) + procDone <= HalTasks /\ procDone \in Nat
        /\ held \subseteq Buffers /\ Len(coded) <= MaxPics /\ resets \in 0 .. MaxResets
    BY <1>0 DEF TasksLeft, HalTypes, OtherTypes
  <1> QED  BY <1>1, <1>2, <1>3, <1>4, <1>5, <1>6 DEF TypeOK

\* With no call in hand, the flags of an entry are those of the users one can see.
LEMMA FlagsAtRest == ASSUME SlotInv PROVE EntryMatchesUsers
  <1> SUFFICES ASSUME AtRest, NEW i \in Slots
               PROVE  LET s == slot[i]  u == Uses(i)
                      IN  /\ s.hal_use = u.hal_use /\ s.hal_output = u.hal_output
                          /\ s.codec_use = u.codec_use /\ s.queue_use = u.queue_use
                          /\ s.not_ready = u.hal_output
                          /\ s.on_used = (u.hal_use > 0 \/ u.hal_output \/ u.codec_use
                                              \/ u.queue_use > 0)
    BY DEF EntryMatchesUsers
  <1>0. EntryOk(i) /\ slot[i] \in SlotEntry /\ ResetSteps
    BY EntriesOk DEF SlotInv, Types, SlotTypes, Control
  <1>1. Calls = {}
    BY NoCalls DEF AtRest, Calls
  <1>2. /\ ~SetIn(i) /\ ~ClrIn(i) /\ ~SetOut(i) /\ ~ClrOut(i) /\ ~SetRef(i) /\ ~ClrRef(i)
        /\ ~SetShow(i) /\ ~Show(i) /\ ~ClrShow(i)
    BY <1>1 DEF SetIn, ClrIn, SetOut, ClrOut, SetRef, ClrRef, SetShow, Show, ClrShow
  <1>3. /\ Uses(i).hal_output = Writing(i) /\ Uses(i).codec_use = IsRef(i)
        /\ Uses(i).hal_use = Reads(i)
        /\ Uses(i).queue_use = IF InQ(i) THEN 2 ELSE IF hcur = i THEN 1 ELSE 0
    BY DEF Uses, Writing, IsRef, Reads, InQ
  <1>4. slot[i].hal_use = Reads(i)
    <2>1. slot[i].hal_use + N(SetIn(i)) = Reads(i) + N(ClrIn(i))
      BY <1>0 DEF EntryOk, FlagsOf, InUses
    <2>2. slot[i].hal_use \in Int /\ Reads(i) \in Int
      BY <1>0, ReadsCount DEF SlotEntry
    <2> QED  BY <1>2, <2>1, <2>2 DEF N
  <1>5. slot[i].hal_output = Writing(i) /\ slot[i].not_ready = Writing(i)
    <2>1. slot[i].hal_output = ((Writing(i) /\ ~SetOut(i)) \/ ClrOut(i))
      BY <1>0, Zenon DEF EntryOk, FlagsOf, Output
    <2>2. slot[i].not_ready = (Writing(i) \/ ClrOut(i))
      BY <1>0, Zenon DEF EntryOk, FlagsOf, NotReady
    <2>3. ((Writing(i) /\ ~SetOut(i)) \/ ClrOut(i)) = Writing(i)
      BY <1>2, Zenon DEF Writing, IsRef
    <2>4. (Writing(i) \/ ClrOut(i)) = Writing(i)
      BY <1>2, Zenon DEF Writing, IsRef
    <2> QED  BY <2>1, <2>2, <2>3, <2>4
  <1>6. slot[i].codec_use = IsRef(i)
    <2>1. slot[i].codec_use = ((IsRef(i) /\ ~SetRef(i)) \/ ClrRef(i))
      BY <1>0, Zenon DEF EntryOk, FlagsOf, CodecUse
    <2>2. ((IsRef(i) /\ ~SetRef(i)) \/ ClrRef(i)) = IsRef(i)
      BY <1>2, Zenon DEF Writing, IsRef
    <2> QED  BY <2>1, <2>2
  <1>7. slot[i].queue_use = IF InQ(i) THEN 2 ELSE IF hcur = i THEN 1 ELSE 0
    <2>1. InQ(i) => hcur # i
      BY <1>0 DEF EntryOk, StageOf
    <2>2. slot[i].queue_use + N(SetShow(i)) =
              (IF InQ(i) THEN 2 ELSE 0) + N(hcur = i) + N(ClrShow(i)) + N(Show(i))
      BY <1>0 DEF EntryOk, FlagsOf, QueueUses
    <2>3. slot[i].queue_use \in Int
      BY <1>0 DEF SlotEntry
    <2> QED  BY <1>2, <2>1, <2>2, <2>3 DEF N
  <1>8. slot[i].on_used = (Reads(i) > 0 \/ Writing(i) \/ IsRef(i) \/ InQ(i) \/ hcur = i)
    <2>1. Needed(i) <=> (Reads(i) > 0 \/ Writing(i) \/ IsRef(i) \/ InQ(i) \/ hcur = i)
      BY <1>2 DEF Needed, Staged
    <2>2. Forgotten(i) => ~Needed(i)
      <3> SUFFICES ASSUME Forgotten(i) PROVE ~Needed(i)
        OBVIOUS
      <3>1. ppc = "drain" /\ ref0 = NoRef /\ ref1 = NoRef /\ procQ = << >>
        BY <1>0 DEF Forgotten, ResetSteps, HalAtRest
      <3>2. InFlight = {}
        BY <3>1 DEF InFlight, Sent, Waiting
      <3>3. ~Writing(i) /\ ~IsRef(i) /\ ~Staged(i)
        BY <1>0, <3>1, <3>2 DEF Writing, IsRef, NoRef, NoSlot, Slots, EntryOk, StageOf
      <3>4. ~(Reads(i) > 0)
        <4>1. ReadsOf(i, 1) = {} /\ ReadsOf(i, 2) = {}
          BY <3>2 DEF ReadsOf
        <4>2. Reads(i) = Cardinality(ReadsOf(i, 1)) + Cardinality(ReadsOf(i, 2))
          BY DEF Reads, Uses, ReadsOf
        <4>3. Cardinality(ReadsOf(i, 1)) = 0 /\ Cardinality(ReadsOf(i, 2)) = 0
          BY <4>1, FS_EmptySet
        <4>4. Reads(i) = 0
          BY <4>2, <4>3
        <4> QED  BY <4>4
      <3> QED  BY <1>2, <3>3, <3>4 DEF Needed
    <2>3. slot[i].on_used = (Needed(i) /\ ~Forgotten(i))
      BY <1>0 DEF EntryOk, FlagsOf, OnUse
    <2> QED  BY <2>1, <2>2, <2>3
  <1>9. Uses(i).queue_use > 0 <=> InQ(i) \/ hcur = i
    BY <1>3
  <1>10. slot[i].on_used = (Uses(i).hal_use > 0 \/ Uses(i).hal_output \/ Uses(i).codec_use
                                \/ Uses(i).queue_use > 0)
    BY <1>3, <1>8, <1>9
  <1> QED  BY <1>3, <1>4, <1>5, <1>6, <1>7, <1>10

\* When the count leaves an entry, there is one.
LEMMA GateOk == ASSUME SlotInv PROVE GateFindsSlot
  <1> SUFFICES ASSUME FreeSlots = {} PROVE UnusedCount = 0
    BY DEF GateFindsSlot
  <1>1. SlotCount \in Nat /\ usedCount \in Int /\ UsedCounted
    BY SlotsAssumption DEF SlotInv, Types, SlotTypes
  <1>2. UsedEntries = Slots
    BY DEF FreeSlots, UsedEntries
  <1>3. Cardinality(Slots) = SlotCount
    <2>1. Cardinality(0 .. SlotCount - 1) = SlotCount - 1 - 0 + 1
      BY <1>1, SlotsAssumption, FS_Interval
    <2> QED  BY <1>1, <2>1 DEF Slots
  <1> QED  BY <1>1, <1>2, <1>3 DEF UsedCounted, UnusedCount

\* The table of slots is exact whatever the interleaving of the threads' calls: no
\* use is cleared that was not set, no flag outlives its user, and the count that the
\* gate before parsing trusts never promises an entry that is not there.
THEOREM TableIsExact == Spec => []SlotsExact
  <1>1. SlotInv /\ BufferInv => SlotsExact
    <2>1. SlotInv => NoUnmatchedClear
      BY DEF SlotInv, NoUnmatchedClear
    <2> QED  BY <2>1, TypesOk, FlagsAtRest, GateOk DEF SlotsExact
  <1> QED  BY <1>1, BuffersFollowOwners, PTL

-----------------------------------------------------------------------------
(* When a picture is due *)

\* The types of the pictures in a stream, and those that others may refer to.
PictureTypes == {"I", "P", "B", "N"}
RefTypes == {"I", "P"}

\* Where picture n of the stream s is due, and whether it is its last reference.
Later(s, n) == {m \in n + 1 .. Len(s) : s[m] \in RefTypes}
NextIn(s, n) ==
    IF Later(s, n) = {} THEN Len(s) + 1
    ELSE CHOOSE m \in Later(s, n) : \A k \in Later(s, n) : m <= k
DueIn(s, n) == IF s[n] = "B" THEN n ELSE NextIn(s, n)
LastIn(s, n) == n \in DOMAIN s /\ s[n] \in RefTypes /\ Later(s, n) = {}

\* A set of numbers with a least one has no other, and some of its numbers is least.
LEMMA LeastIs ==
    ASSUME NEW S \in SUBSET Nat, NEW x \in S, \A k \in S : x <= k
    PROVE  (CHOOSE m \in S : \A k \in S : m <= k) = x
  <1> DEFINE y == CHOOSE m \in S : \A k \in S : m <= k
  <1>1. y \in S /\ \A k \in S : y <= k
    OBVIOUS
  <1> HIDE DEF y
  <1>2. x <= y /\ y <= x /\ x \in Nat /\ y \in Nat
    BY <1>1
  <1>3. y = x
    BY <1>2
  <1> QED  BY <1>3 DEF y

LEMMA LeastExists ==
    ASSUME NEW S \in SUBSET Nat, S # {}
    PROVE  \E x \in S : \A k \in S : x <= k
  <1>1. PICK x \in S : \A k \in S : <<k, x>> \notin OpToRel(<, Nat)
    BY NatLessThanWellFounded, WFMin, Zenon
  <1>2. ASSUME NEW k \in S PROVE x <= k
    <2>1. <<k, x>> \in Nat \X Nat /\ <<k, x>>[1] = k /\ <<k, x>>[2] = x
      OBVIOUS
    <2>2. ~(k < x)
      BY <1>1, <2>1 DEF OpToRel
    <2> QED  BY <2>2
  <1> QED  BY <1>2

\* The definitions of the model, for its own stream.
LEMMA DueIs == \A n : Due(n) = DueIn(coded, n) /\ Due(n)' = DueIn(coded', n)
  BY DEF Due, NextReference, DueIn, NextIn, Later, RefTypes

\* A picture is due within the stream, but for its last reference: that one is due
\* where the next picture will be.
LEMMA DueBounds ==
    ASSUME NEW s \in Seq(PictureTypes), NEW n \in DOMAIN s
    PROVE  /\ DueIn(s, n) \in Nat /\ n <= DueIn(s, n) /\ DueIn(s, n) <= Len(s) + 1
           /\ LastIn(s, n) => DueIn(s, n) = Len(s) + 1
           /\ ~LastIn(s, n) /\ s[n] # "N" => DueIn(s, n) <= Len(s)
  <1>1. n \in Nat /\ n <= Len(s) /\ Len(s) \in Nat /\ Later(s, n) \in SUBSET Nat
    BY DEF Later
  <1>2. CASE s[n] = "B"
    BY <1>1, <1>2 DEF DueIn, LastIn, RefTypes
  <1>3. CASE s[n] # "B" /\ Later(s, n) = {}
    BY <1>1, <1>3 DEF DueIn, NextIn, LastIn, RefTypes, PictureTypes
  <1>4. CASE s[n] # "B" /\ Later(s, n) # {}
    <2>1. PICK x \in Later(s, n) : \A k \in Later(s, n) : x <= k
      BY <1>1, <1>4, LeastExists
    <2>2. DueIn(s, n) = x
      BY <1>1, <1>4, <2>1, LeastIs DEF DueIn, NextIn
    <2>3. x \in n + 1 .. Len(s)
      BY <2>1 DEF Later
    <2> QED  BY <1>1, <1>4, <2>2, <2>3 DEF LastIn
  <1> QED  BY <1>2, <1>3, <1>4

\* There is one last reference.
LEMMA LastOnce ==
    ASSUME NEW s \in Seq(PictureTypes), NEW n, NEW m, LastIn(s, n), LastIn(s, m)
    PROVE  n = m
  <1>1. n \in 1 .. Len(s) /\ m \in 1 .. Len(s) /\ Len(s) \in Nat
    BY DEF LastIn
  <1>2. n \notin Later(s, m) /\ m \notin Later(s, n)
    BY DEF LastIn
  <1>3. ~(n \in m + 1 .. Len(s)) /\ ~(m \in n + 1 .. Len(s))
    BY <1>2 DEF Later, LastIn
  <1> QED  BY <1>1, <1>3

\* A new picture moves the last reference back, or settles it, and no other picture.
LEMMA DueAppend ==
    ASSUME NEW s \in Seq(PictureTypes), NEW t \in PictureTypes, NEW n \in DOMAIN s, s[n] # "N"
    PROVE  /\ ~LastIn(s, n) \/ t \in RefTypes => /\ DueIn(Append(s, t), n) = DueIn(s, n)
                                                /\ ~LastIn(Append(s, t), n)
           /\ LastIn(s, n) /\ t \notin RefTypes => /\ LastIn(Append(s, t), n)
                                                   /\ DueIn(Append(s, t), n) = Len(s) + 2
  <1> DEFINE z == Append(s, t)
             L == Len(s)
  <1>1. /\ z \in Seq(PictureTypes) /\ Len(z) = L + 1 /\ L \in Nat
        /\ \A k \in DOMAIN s : z[k] = s[k] /\ k \in DOMAIN z
        /\ z[L + 1] = t /\ n \in 1 .. L /\ DOMAIN s = 1 .. L
    OBVIOUS
  <1> HIDE DEF z
  <1>2. /\ t \in RefTypes => Later(z, n) = Later(s, n) \cup {L + 1}
        /\ t \notin RefTypes => Later(z, n) = Later(s, n)
    <2>1. \A k \in n + 1 .. L + 1 : k = L + 1 \/ (k \in n + 1 .. L /\ k \in DOMAIN s)
      BY <1>1
    <2>2. \A k \in n + 1 .. L : k \in n + 1 .. L + 1 /\ k \in DOMAIN s /\ k # L + 1
      BY <1>1
    <2>3. L + 1 \in n + 1 .. L + 1
      BY <1>1
    <2>4. \A k : k \in Later(z, n) <=> k \in n + 1 .. L + 1 /\ z[k] \in RefTypes
      BY <1>1 DEF Later
    <2>5. \A k : k \in Later(s, n) <=> k \in n + 1 .. L /\ s[k] \in RefTypes
      BY DEF Later
    <2> HIDE DEF L
    <2>6. ASSUME NEW k PROVE /\ t \in RefTypes => (k \in Later(z, n) <=> k \in Later(s, n) \/ k = L + 1)
                             /\ t \notin RefTypes => (k \in Later(z, n) <=> k \in Later(s, n))
      <3>1. CASE k = L + 1
        BY <1>1, <2>2, <2>3, <2>4, <2>5, <3>1
      <3>2. CASE k # L + 1
        BY <1>1, <2>1, <2>2, <2>4, <2>5, <3>2
      <3> QED  BY <3>1, <3>2
    <2> QED  BY <2>6
  <1>3. z[n] = s[n] /\ n \in DOMAIN z
    BY <1>1
  <1>4. CASE LastIn(s, n) /\ t \notin RefTypes
    <2>1. LastIn(z, n)
      BY <1>2, <1>3, <1>4 DEF LastIn
    <2>2. DueIn(z, n) = L + 2
      BY <1>1, <1>3, <2>1, DueBounds
    <2> QED  BY <1>4, <2>1, <2>2 DEF z
  <1>5. CASE LastIn(s, n) /\ t \in RefTypes
    <2>1. Later(z, n) = {L + 1} /\ s[n] # "B" /\ s[n] \in RefTypes
      BY <1>2, <1>5 DEF LastIn, RefTypes
    <2>2. (CHOOSE m \in Later(z, n) : \A k \in Later(z, n) : m <= k) = L + 1
      BY <1>1, <2>1, LeastIs
    <2>3. DueIn(z, n) = L + 1 /\ DueIn(s, n) = L + 1 /\ ~LastIn(z, n)
      BY <1>3, <1>5, <2>1, <2>2, DueBounds DEF DueIn, NextIn, LastIn
    <2> QED  BY <1>5, <2>3 DEF z
  <1>6. CASE ~LastIn(s, n)
    <2>1. CASE s[n] = "B"
      BY <1>3, <1>6, <2>1 DEF DueIn, LastIn, RefTypes, z
    <2>2. CASE s[n] # "B"
      <3>1. Later(s, n) # {} /\ Later(s, n) \in SUBSET Nat /\ Later(z, n) \in SUBSET Nat
        BY <1>1, <1>6, <2>2 DEF LastIn, RefTypes, PictureTypes, Later
      <3>2. PICK x \in Later(s, n) : \A k \in Later(s, n) : x <= k
        BY <3>1, LeastExists
      <3>3. x \in Later(z, n) /\ \A k \in Later(z, n) : x <= k
        <4>1. x <= L + 1
          BY <1>1, <3>2 DEF Later
        <4> QED  BY <1>2, <3>2, <4>1
      <3>4. DueIn(s, n) = x /\ DueIn(z, n) = x
        BY <1>3, <2>2, <3>1, <3>2, <3>3, LeastIs DEF DueIn, NextIn
      <3>5. ~LastIn(z, n)
        BY <3>3 DEF LastIn
      <3> QED  BY <1>6, <3>4, <3>5 DEF z
    <2> QED  BY <2>1, <2>2
  <1> QED  BY <1>4, <1>5, <1>6

\* Where the new picture itself is due.
LEMMA DueNew ==
    ASSUME NEW s \in Seq(PictureTypes), NEW t \in PictureTypes
    PROVE  /\ t \in RefTypes => LastIn(Append(s, t), Len(s) + 1)
           /\ t = "B" => DueIn(Append(s, t), Len(s) + 1) = Len(s) + 1
  <1>1. /\ Append(s, t)[Len(s) + 1] = t /\ Len(Append(s, t)) = Len(s) + 1 /\ Len(s) \in Nat
        /\ Len(s) + 1 \in DOMAIN Append(s, t)
    OBVIOUS
  <1>2. Later(Append(s, t), Len(s) + 1) = {}
    <2>1. Len(s) + 1 + 1 .. Len(s) + 1 = {}
      BY <1>1
    <2> QED  BY <1>1, <2>1 DEF Later
  <1> QED  BY <1>1, <1>2 DEF LastIn, DueIn

\* A new picture leaves the order of the others as it was.
LEMMA DueKept ==
    ASSUME NEW s \in Seq(PictureTypes), NEW t \in PictureTypes,
           NEW n \in DOMAIN s, NEW m \in DOMAIN s, s[n] # "N", s[m] # "N",
           DueIn(s, n) < DueIn(s, m)
    PROVE  DueIn(Append(s, t), n) < DueIn(Append(s, t), m)
  <1>1. /\ DueIn(s, n) \in Nat /\ DueIn(s, m) \in Nat /\ Len(s) \in Nat
        /\ DueIn(s, m) <= Len(s) + 1
        /\ LastIn(s, n) => DueIn(s, n) = Len(s) + 1
    BY DueBounds
  <1>2. ~LastIn(s, n)
    BY <1>1
  <1>3. DueIn(Append(s, t), n) = DueIn(s, n)
    BY <1>2, DueAppend
  <1>4. DueIn(Append(s, t), m) = DueIn(s, m) \/ DueIn(Append(s, t), m) = Len(s) + 2
    BY DueAppend
  <1> QED  BY <1>1, <1>3, <1>4

-----------------------------------------------------------------------------
(* The geometry of the references *)

\* The two references have one geometry, so that a B picture may follow; the
\* parser is about to tell the geometry of the picture it has parsed.
OneSize == Valid(ref0) /\ Valid(ref1) /\ ref0.size = ref1.size
Telling == \E i \in Slots : Geometry(i)

\* While no change is pending, the geometry seen last is the accepted one.  It is
\* that of the last reference, whose own change has been settled when the next
\* picture is parsed.
Seen == ~infoChanged => info = infoSet
Told == \A i \in Slots, z \in Infos : <<"frame", i, z>> \in Calls => Valid(ref0) /\ z = ref0.size
SeenLast == Valid(ref0) /\ (~Telling \/ OneSize) => infoSet = ref0.size
Settled ==
    /\ OneSize \/ (~task.parsed /\ Valid(ref0)) => ~infoChanged
    /\ ppc = "submit" => ~infoChanged

\* Before a B picture can follow, the last reference goes to the display at the end
\* of the stream or for a reset only.
HeldBack == Valid(ref0) /\ ref0.enqueued => gotEos \/ flushDue \/ ~OneSize

GeometryInv == Seen /\ Told /\ SeenLast /\ Settled /\ HeldBack

\* A call other than SetFrame sees no geometry.
LEMMA CallSees ==
    ASSUME SlotTypes, NEW c \in SlotCalls, Call(c), c[1] # "frame"
    PROVE  UNCHANGED <<info, infoSet, infoChanged>>
  <1>1. \/ c[1] = "set" /\ c[3] \in Flags /\ SetFlag(c[2], c[3])
        \/ c[1] = "clr" /\ c[3] \in Flags /\ ClrFlag(c[2], c[3])
        \/ c[1] = "enqueue" /\ Enqueue(c[2], "DISPLAY")
        \/ c[1] = "reset" /\ SlotReset(c[2])
        \/ c[1] = "put" /\ PutBuffer(c[2])
    BY CallEffect
  <1> QED  BY <1>1 DEF SetFlag, ClrFlag, Enqueue, SlotReset, PutBuffer

\* The calls in hand tell no geometry but that they told before.
TellsSame == \A i \in Slots, z \in Infos : <<"frame", i, z>> \in Calls' <=> <<"frame", i, z>> \in Calls

\* Steps that see no geometry and keep the references keep the invariant.
LEMMA GeometryKept ==
    ASSUME GeometryInv, UNCHANGED <<info, infoSet, infoChanged, ref1>>, TellsSame,
           ref0'.slot = ref0.slot, ref0'.size = ref0.size,
           ~task'.parsed => ~task.parsed \/ ppc = "submit",
           ppc' = "submit" => ppc = "submit" \/ ~infoChanged,
           Valid(ref0) /\ ref0'.enqueued => ref0.enqueued \/ gotEos' \/ flushDue' \/ infoChanged,
           Valid(ref0) /\ (gotEos \/ flushDue) => gotEos' \/ flushDue'
    PROVE  GeometryInv'
  <1>0. Seen /\ Told /\ SeenLast /\ Settled /\ HeldBack
    BY DEF GeometryInv
  <1>1. (Valid(ref0)' <=> Valid(ref0)) /\ (OneSize' <=> OneSize)
    BY DEF Valid, OneSize
  <1>2. Telling' <=> Telling
    BY DEF TellsSame, Telling, Geometry
  <1>3. Seen' /\ Told'
    BY <1>0, <1>1 DEF Seen, Told, TellsSame
  <1>4. SeenLast'
    BY <1>0, <1>1, <1>2 DEF SeenLast
  <1>5. Settled'
    BY <1>0, <1>1 DEF Settled
  <1>6. HeldBack'
    BY <1>0, <1>1 DEF HeldBack, Settled
  <1> QED  BY <1>3, <1>4, <1>5, <1>6 DEF GeometryInv

\* The steps that make no call.
LEMMA StillGeometry ==
    ASSUME SlotInv, GeometryInv, StillStep, ~ProcControl
    PROVE  GeometryInv'
  <1>0. ParserRests /\ task \in DecTasks
    BY DEF SlotInv, Control, Types, ParserTypes
  <1>1. UNCHANGED <<info, infoSet, infoChanged, ref0, ref1, ptodo, htodo>>
    BY DEF StillStep, PrevDone, ParseSkipped, SubmitEos, SendInfoChange, WaitInfoChange, NoBuffer,
       Submit, ResetPost, UserReset, slotVars, parserVars, halVars
  <1>2. TellsSame
    BY <1>1 DEF TellsSame, Calls
  <1>3. \/ (~task'.parsed => ~task.parsed \/ ppc = "submit") /\ ppc' # "submit"
        \/ UNCHANGED <<task, ppc>>
    <2>1. CASE PrevDone \/ SendInfoChange \/ WaitInfoChange \/ NoBuffer
      BY <1>0, <2>1 DEF PrevDone, TryProc, SendInfoChange, WaitInfoChange, NoBuffer, Parsed, DecTasks
    <2>2. CASE (\E eos \in BOOLEAN : ParseSkipped(eos)) \/ UserReset
      BY <2>2 DEF ParseSkipped, UserReset, parserVars
    <2>3. CASE SubmitEos \/ Submit \/ ResetPost
      BY <2>3 DEF SubmitEos, Submit, ResetPost
    <2> QED  BY <2>1, <2>2, <2>3 DEF StillStep
  <1>4. gotEos \/ flushDue => gotEos' \/ flushDue'
    BY DEF StillStep, PrevDone, ParseSkipped, PacketReady, SubmitEos, SendInfoChange, WaitInfoChange, NoBuffer,
       Submit, ResetPost, UserReset, parserVars, ctrlVars
  <1> QED  BY <1>1, <1>2, <1>3, <1>4, GeometryKept

\* A flush keeps the invariant.
LEMMA FlushGeometry ==
    ASSUME SlotInv, GeometryInv, HalTake \/ HalReset \/ PrepareEos \/ HwDone
    PROVE  GeometryInv'
  <1>0. /\ ParserRests /\ HalRests /\ ResetSteps /\ InfoTaskRests /\ EndsParsing /\ ref0 \in Refs
        /\ procQ \in Seq(HalJobs)
    BY DEF SlotInv, Control, InfoOnce, Types, ParserTypes, HalTypes
  <1>1. UNCHANGED <<info, infoSet, infoChanged, ref1, task, flushDue>>
    BY DEF HalTake, HalReset, PrepareEos, HwDone, slotVars, halVars, ctrlVars
  <1>2. \A c : c[1] = "frame" => (c \in Calls' <=> c \in Calls)
    <2>1. \A c \in FlushSet(ref0) : c[1] # "frame"
      BY DEF FlushSet, ShowSet
    <2>2. CASE HalTake \/ HalReset \/ PrepareEos
      BY <2>1, <2>2, FlushHand
    <2>3. CASE HwDone
      <3>1. Calls' = Calls \cup DoneSet(hal) \cup (IF EndsStream(hal) THEN FlushSet(ref0) ELSE {})
        BY <2>3, DoneFacts
      <3>2. \A c \in DoneSet(hal) : c[1] # "frame"
        BY DEF DoneSet, ClrInSet
      <3> QED  BY <2>1, <3>1, <3>2
    <2> QED  BY <2>2, <2>3
  <1>3. TellsSame
    BY <1>2 DEF TellsSame
  <1>4. ref0' = ref0 \/ ref0' = Flushed(ref0)
    BY DEF HalTake, HalReset, PrepareEos, HwDone
  <1>5. ref0'.slot = ref0.slot /\ ref0'.size = ref0.size
    BY <1>0, <1>4, FlushedTypes
  <1>6. ref0' = ref0 \/ gotEos' \/ flushDue' \/ infoChanged
    <2>1. CASE HalTake
      <3>1. hal' = Head(procQ) /\ procQ # << >> /\ ref0' = (IF hal'.kind = "info" THEN Flushed(ref0) ELSE ref0)
        BY <2>1 DEF HalTake
      <3>2. hal'.kind = "info" => HasTask("info")
        BY <1>0, <3>1 DEF HasTask
      <3> QED  BY <1>0, <3>1, <3>2 DEF InfoTaskRests, ChangeAwaited
    <2>2. CASE HalReset
      BY <1>0, <1>1, <2>2 DEF HalReset, ResetSteps
    <2>3. CASE PrepareEos
      BY <2>3 DEF PrepareEos
    <2>4. CASE HwDone
      BY <1>0, <2>4 DEF HwDone, EndsStream, EndsParsing
    <2> QED  BY <2>1, <2>2, <2>3, <2>4
  <1>7. ((gotEos => gotEos') /\ ppc' # "submit") \/ UNCHANGED <<ppc, gotEos>>
    BY DEF HalTake, HalReset, PrepareEos, HwDone
  <1> QED  BY <1>1, <1>3, <1>5, <1>6, <1>7, GeometryKept

\* A call keeps it: the geometry that a frame tells is no change between two
\* references of one geometry.
LEMMA CallGeometry ==
    ASSUME SlotInv, GeometryInv, ParserCall \/ HalCall
    PROVE  GeometryInv'
  <1>0. /\ SlotTypes /\ ParserRests /\ HalCalls /\ ParserCalls /\ InOrder(ptodo) /\ InOrder(htodo)
        /\ Seen /\ Told /\ SeenLast /\ Settled /\ HeldBack
    BY DEF SlotInv, Types, Control, Todo, GeometryInv
  <1>1. PICK c \in SlotCalls : MadeCall(c)
    BY CallStep
  <1>2. /\ c \in Calls /\ Call(c) /\ Calls' = Calls \ {c} /\ CallIs(c)
        /\ UNCHANGED <<ref0, ref1, ppc, task>>
    BY <1>1, CallFacts DEF MadeCall
  <1>3. UNCHANGED <<gotEos, flushDue>>
    BY DEF ParserCall, HalCall, parserVars, ctrlVars
  <1>4. CASE c[1] # "frame"
    <2>1. UNCHANGED <<info, infoSet, infoChanged>>
      BY <1>0, <1>2, <1>4, CallSees
    <2>2. TellsSame
      BY <1>2, <1>4 DEF TellsSame
    <2> QED  BY <1>2, <1>3, <2>1, <2>2, GeometryKept
  <1>5. CASE c[1] = "frame"
    <2>1. c = <<"frame", c[2], c[3]>> /\ c[2] \in Slots /\ c[3] \in Infos /\ ppc = "check"
      BY <1>2, <1>5, CallKinds DEF CallIs
    <2>2. Valid(ref0) /\ c[3] = ref0.size
      BY <1>0, <1>2, <2>1 DEF Told
    <2>3. SetFrame(c[2], c[3])
      BY <1>0, <1>2, <1>5, CallEffect
    <2>4. infoSet' = c[3] /\ infoChanged' = (infoChanged \/ c[3] # info) /\ info' = info
      BY <1>0, <2>1, <2>3, SetFrameEffect
    <2>5. task.parsed
      BY <1>0, <2>1 DEF ParserRests
    <2>6. OneSize' <=> OneSize
      BY <1>2 DEF OneSize, Valid
    <2>7. Seen'
      BY <2>4 DEF Seen
    <2>8. Told'
      BY <1>0, <1>2 DEF Told, Valid
    <2>9. SeenLast'
      BY <1>2, <2>2, <2>4 DEF SeenLast
    <2>10. OneSize => ~infoChanged'
      BY <1>0, <2>2, <2>4 DEF Seen, SeenLast, Settled
    <2>11. Settled'
      BY <1>2, <2>1, <2>5, <2>6, <2>10 DEF Settled
    <2>12. HeldBack'
      BY <1>0, <1>2, <1>3, <2>6 DEF HeldBack, Valid
    <2> QED  BY <2>7, <2>8, <2>9, <2>11, <2>12 DEF GeometryInv
  <1> QED  BY <1>4, <1>5

\* Parsing a picture keeps it.
LEMMA ParseGeometry ==
    ASSUME SlotInv, GeometryInv, NEW type \in {"I", "P", "B"}, NEW size \in Infos, NEW eos \in BOOLEAN,
           Parse(type, size, eos)
    PROVE  GeometryInv'
  <1>1. PICK i \in Slots : ParseAs(type, size, eos, i)
    BY DEF Parse
  <1>2. ParseFacts(type, size, eos, i)
    BY <1>1, ParseEffect
  <1>3. /\ ppc = "top" /\ ~task.parsed /\ ~gotEos /\ ~flushDue /\ Decodable(type, size)
        /\ ref1' = (IF type = "B" THEN ref1 ELSE ref0) /\ gotEos' = eos /\ ppc' = "check"
        /\ ref0' = (IF eos THEN Flushed(ParseLast(type, size, i)) ELSE ParseLast(type, size, i))
        /\ ParseLast(type, size, i) \in Refs /\ task'.parsed
        /\ GetUnused(i) /\ i # NoSlot
    BY <1>2 DEF ParseFacts, Slots, NoSlot
  <1>4. ref0'.slot = ParseLast(type, size, i).slot /\ ref0'.size = ParseLast(type, size, i).size
    BY <1>3, FlushedTypes
  <1>5. Seen /\ SeenLast /\ Settled /\ HeldBack /\ SlotTypes
    BY DEF GeometryInv, SlotInv, Types
  <1>6. UNCHANGED <<info, infoSet, infoChanged>>
    BY <1>3, <1>5, GetUnusedEffect
  <1>7. ASSUME NEW j \in Slots, NEW z \in Infos
        PROVE  <<"frame", j, z>> \in Calls' => j = i /\ z = size
    <2>1. <<"frame", j, z>> \notin Calls
      BY <1>2, ParseCallsMade
    <2> QED  BY <1>2, <2>1, ParseCallsMade
  <1>8. ~Telling
    <2>1. ASSUME NEW j, NEW z PROVE <<"frame", j, z>> \notin Calls
      <3>1. <<"frame", j, z>>[1] # "clr"
        OBVIOUS
      <3> QED  BY <1>2, <3>1, ParseCallsMade
    <2> QED  BY <2>1 DEF Telling, Geometry
  <1>9. CASE type = "B"
    <2>1. ref0'.slot = ref0.slot /\ ref0'.size = ref0.size /\ ref1' = ref1 /\ Valid(ref0) /\ size = ref0.size
          /\ OneSize
      BY <1>3, <1>4, <1>9 DEF ParseLast, Decodable, OneSize
    <2>2. OneSize' <=> OneSize
      BY <2>1 DEF OneSize, Valid
    <2>3. Told'
      BY <1>7, <2>1 DEF Told, Valid
    <2>4. infoSet = ref0.size /\ ~infoChanged
      BY <1>3, <1>5, <1>8, <2>1 DEF SeenLast, Settled
    <2>5. Seen' /\ SeenLast' /\ Settled'
      BY <1>3, <1>5, <1>6, <2>1, <2>4 DEF Seen, SeenLast, Settled
    <2>6. HeldBack'
      BY <1>3, <1>5, <1>9, <2>1, <2>2 DEF HeldBack, ParseLast
    <2> QED  BY <2>3, <2>5, <2>6 DEF GeometryInv
  <1>10. CASE type # "B"
    <2>1. ref0'.slot = i /\ ref0'.size = size /\ ref1' = ref0 /\ Valid(ref0)'
          /\ (~eos => ~ref0'.enqueued)
      BY <1>3, <1>4, <1>10 DEF ParseLast, Valid
    <2>2. Told'
      BY <1>7, <2>1 DEF Told
    <2>3. OneSize' => Valid(ref0) /\ ref0.size = size
      BY <2>1 DEF OneSize, Valid
    <2>4. OneSize' => infoSet = size /\ ~infoChanged
      BY <1>3, <1>5, <1>8, <2>3 DEF SeenLast, Settled
    <2>5. Telling'
      <3>1. <<"frame", i, size>> \in Calls'
        BY <1>2, ParseCallsMade
      <3> QED  BY <3>1 DEF Telling, Geometry
    <2>6. Seen' /\ SeenLast'
      BY <1>5, <1>6, <2>1, <2>4, <2>5 DEF Seen, SeenLast
    <2>7. Settled'
      BY <1>3, <1>6, <2>4 DEF Settled
    <2>8. HeldBack'
      BY <1>3, <2>1 DEF HeldBack
    <2> QED  BY <2>2, <2>6, <2>7, <2>8 DEF GeometryInv
  <1> QED  BY <1>9, <1>10

\* Without a reference, and with no frame to tell, there is little to keep.
LEMMA GeometryFree ==
    ASSUME GeometryInv, UNCHANGED <<info, infoSet, infoChanged>>, ref0' = NoRef, ppc' # "submit",
           \A c \in Calls' : c[1] # "frame"
    PROVE  GeometryInv'
  <1>1. ~Valid(ref0)' /\ ~OneSize'
    BY DEF Valid, NoRef, OneSize
  <1>2. Told'
    <2> SUFFICES ASSUME NEW i \in Slots, NEW z \in Infos, <<"frame", i, z>> \in Calls' PROVE FALSE
      BY DEF Told
    <2>1. <<"frame", i, z>>[1] = "frame"
      OBVIOUS
    <2> QED  BY <2>1
  <1>3. Seen'
    BY DEF GeometryInv, Seen
  <1> QED  BY <1>1, <1>2, <1>3 DEF GeometryInv, SeenLast, Settled, HeldBack

\* A reset gives up the references.
LEMMA ResetGeometry ==
    ASSUME SlotInv, GeometryInv, ResetParser \/ ResetDone
    PROVE  GeometryInv'
  <1>1. UNCHANGED <<info, infoSet, infoChanged>> /\ ppc' # "submit"
    BY DEF ResetParser, ResetDone, slotVars
  <1>2. CASE ResetParser
    <2>1. Calls' = ResetSet /\ FlushSet(ref0) = {} /\ ref0' = NoRef
      BY <1>2, ResetFacts
    <2>2. \A c \in ResetSet : c[1] # "frame"
      BY <2>1 DEF ResetSet, UnrefSet, DoneSet, ClrInSet
    <2> QED  BY <1>1, <2>1, <2>2, GeometryFree
  <1>3. CASE ResetDone
    <2>1. Calls' = {} /\ ref0' = NoRef
      BY <1>3, DrainEnds
    <2> QED  BY <1>1, <2>1, GeometryFree
  <1> QED  BY <1>2, <1>3

\* The answer to a change accepts the geometry seen last.
LEMMA ReadyGeometry == ASSUME GeometryInv, ProcControl PROVE GeometryInv'
  <1>1. /\ info' = infoSet /\ infoChanged' = FALSE
        /\ UNCHANGED <<infoSet, ref0, ref1, task, ppc, ptodo, htodo, gotEos, flushDue>>
    BY DEF ProcControl, Ready, parserVars, halVars
  <1>2. Calls' = Calls
    BY <1>1 DEF Calls
  <1>3. Seen' /\ Settled'
    BY <1>1 DEF Seen, Settled
  <1>4. Told' /\ SeenLast' /\ HeldBack'
    BY <1>1, <1>2 DEF GeometryInv, Told, SeenLast, HeldBack, OneSize, Valid, Telling, Geometry
  <1> QED  BY <1>3, <1>4 DEF GeometryInv

\* The other steps see no geometry.
LEMMA OtherGeometry ==
    ASSUME SlotInv, GeometryInv,
           \/ (\E i \in Slots : HalDequeue(i)) \/ (\E i \in Slots : ResetDrain(i)) \/ UserNext
           \/ (\E b \in Buffers : GetBuffer(b)) \/ HalPut \/ HalEnd \/ UNCHANGED vars
    PROVE  GeometryInv'
  <1>0. /\ ParserRests /\ HalRests /\ ResetSteps /\ AfterReset /\ SlotTypes /\ task \in DecTasks
        /\ ptodo \in Seq(SlotCalls)
    BY DEF SlotInv, Control, Types, ParserTypes
  <1>1. UNCHANGED <<info, infoSet, infoChanged>>
    BY UserKeeps DEF HalDequeue, ResetDrain, Dequeue, GetBuffer, SetBuffer, HalPut, HalEnd, vars, slotVars
  <1>2. UNCHANGED <<ref0, ref1, gotEos>>
    BY UserKeeps DEF HalDequeue, ResetDrain, GetBuffer, HalPut, HalEnd, vars, parserVars
  <1>3. CASE \E i \in Slots : ResetDrain(i)
    <2>1. PICK i \in Slots : ResetDrain(i)
      BY <1>3
    <2>2. ppc' = "drain" /\ ref0' = NoRef /\ ptodo' = DrainCalls(i) /\ htodo' = htodo /\ htodo = << >>
      BY <1>0, <2>1 DEF ResetDrain, ResetSteps, HalAtRest, HalRests, halVars
    <2>3. CallsIn(ptodo') = DrainSet(i) /\ CallsIn(htodo') = {}
      BY <2>2, DrainLists, NoCalls DEF Lists
    <2>4. \A c \in Calls' : c[1] # "frame"
      BY <2>3 DEF Calls, DrainSet
    <2> QED  BY <1>1, <2>2, <2>4, GeometryFree
  <1>4. CASE HalPut
    <2>1. /\ htodo = << >> /\ htodo' = << <<"clr", hcur, "QUEUE_USE">> >>
          /\ UNCHANGED <<ptodo, ppc, task, gotEos, flushDue>> /\ hcur \in Slots
      <3>1. hcur \in Entries /\ hcur # NoSlot /\ htodo = << >>
        BY <1>0, <1>4 DEF HalPut, HalRests, SlotInv, Types, HalTypes
      <3> QED  BY <1>4, <3>1 DEF HalPut, parserVars, ctrlVars, Entries
    <2>2. CallsIn(htodo) = {} /\ CallsIn(htodo') = {<<"clr", hcur, "QUEUE_USE">>}
      BY <2>1, NoCalls, OneCall DEF SlotCalls, Flags
    <2>3. TellsSame
      BY <2>1, <2>2 DEF TellsSame, Calls
    <2> QED  BY <1>1, <1>2, <2>1, <2>3, GeometryKept
  <1>5. CASE \/ (\E i \in Slots : HalDequeue(i)) \/ UserNext
             \/ (\E b \in Buffers : GetBuffer(b)) \/ HalEnd \/ UNCHANGED vars
    <2>1. UNCHANGED <<ptodo, htodo>>
      BY <1>5, UserKeeps DEF HalDequeue, GetBuffer, HalEnd, vars, parserVars, halVars
    <2>2. TellsSame
      BY <2>1 DEF TellsSame, Calls
    <2>3. (~task'.parsed => ~task.parsed) /\ (ppc' = "submit" => ppc = "submit" \/ ~infoChanged)
      BY <1>0, <1>5, UserKeeps DEF HalDequeue, GetBuffer, HalEnd, vars, parserVars, DecTasks
    <2>4. Valid(ref0) /\ flushDue => flushDue'
      <3>1. CASE UserNext
        <4>1. CASE UserFlush
          BY <1>0, <4>1 DEF UserFlush, AfterReset, Valid, NoRef
        <4>2. CASE TakeFrame \/ UserReset \/ \E b \in Buffers : ReleaseFrame(b)
          BY <4>2 DEF TakeFrame, UserReset, ReleaseFrame, ctrlVars
        <4> QED  BY <3>1, <4>1, <4>2 DEF UserNext
      <3>2. CASE ~UserNext
        BY <1>5, <3>2 DEF HalDequeue, GetBuffer, HalEnd, vars, ctrlVars
      <3> QED  BY <3>1, <3>2
    <2> QED  BY <1>1, <1>2, <2>2, <2>3, <2>4, GeometryKept
  <1> QED  BY <1>3, <1>4, <1>5

\* Every step keeps it.
LEMMA GeometryStep == ASSUME SlotInv, GeometryInv, [Next]_vars PROVE GeometryInv'
  <1>1. CASE Next
    <2>1. \/ StillStep
          \/ HalTake \/ HalReset \/ PrepareEos \/ HwDone \/ ParserCall \/ HalCall
          \/ (\E i \in Slots : HalDequeue(i)) \/ (\E i \in Slots : ResetDrain(i)) \/ UserNext
          \/ (\E b \in Buffers : GetBuffer(b)) \/ HalPut \/ HalEnd \/ ResetParser \/ ResetDone
          \/ \E type \in {"I", "P", "B"}, size \in Infos, eos \in BOOLEAN : Parse(type, size, eos)
      BY <1>1 DEF Next, ParserNext, HalNext, StillStep
    <2> QED  BY <2>1, StillGeometry, ReadyGeometry, FlushGeometry, CallGeometry, OtherGeometry, ResetGeometry,
                ParseGeometry
  <1>2. CASE UNCHANGED vars
    BY <1>2, OtherGeometry
  <1> QED  BY <1>1, <1>2

\* It holds at first.
LEMMA GeometryInit == ASSUME Init PROVE GeometryInv
  <1>1. Calls = {}
    BY NoCalls DEF Init, Calls
  <1> QED  BY <1>1 DEF Init, SlotsInit, GeometryInv, Seen, Told, SeenLast, Settled, HeldBack, OneSize, Valid,
              NoRef

-----------------------------------------------------------------------------
(* The order of the display *)

\* The parser's references are thrown away, and Mpp::reset has not returned.
Past == ppc = "drain" \/ (flushDue /\ ~resetFlag)

\* The picture in entry i is due before the one in entry j.
Sooner(i, j) == DueIn(coded, pic[i]) < DueIn(coded, pic[j])

\* What is on use is a picture of the stream, and the last reference of the parser
\* is that of the stream.
Numbered == \A i \in Slots : slot[i].on_used => pic[i] \in DOMAIN coded /\ coded[pic[i]] # "N"
LastHeld == Valid(ref0) => LastIn(coded, pic[ref0.slot])

\* Two entries are about to join the display queue only when one of them is the last
\* reference, and the parser queues that one last.
ShowOnce == \A i, j \in Slots : Show(i) /\ Show(j) /\ i # j => ref0.slot \in {i, j}
LastShown(todo, r) == \A j, k \in DOMAIN todo :
    todo[j] = <<"enqueue", r, "DISPLAY">> /\ todo[k][1] = "enqueue" => k <= j

\* The pictures join the display queue, and leave it, as they are due; those that
\* were shown were due before all that are awaited.
QueueOrder ==
    /\ \A j, k \in DOMAIN queue["DISPLAY"] : j < k => Sooner(queue["DISPLAY"][j], queue["DISPLAY"][k])
    /\ \A i, j \in Slots : InQ(i) /\ Show(j) => Sooner(i, j)
    /\ \A i, j \in Slots : hcur = i /\ (InQ(j) \/ Show(j)) => Sooner(i, j)
ShownFirst ==
    \A k \in DOMAIN shown, j \in Slots : Awaited(j) => DueIn(coded, shown[k]) < DueIn(coded, pic[j])

\* What is on use and no longer written has been decoded.
DecodedOnce == \A i \in Slots : slot[i].on_used /\ ~Writing(i) => pic[i] \in decoded

\* What was shown had been decoded, and was due in the order in which it was shown.
ShownOk ==
    /\ \A k \in DOMAIN shown : shown[k] \in decoded /\ shown[k] \in DOMAIN coded /\ coded[shown[k]] # "N"
    /\ \A j, k \in DOMAIN shown : j < k => DueIn(coded, shown[j]) < DueIn(coded, shown[k])

Ordered == ShowOnce /\ LastShown(ptodo, ref0.slot) /\ QueueOrder /\ ShownFirst /\ DecodedOnce
OrderInv == Numbered /\ LastHeld /\ ShownOk /\ (~Past => Ordered)

\* The types that the following proofs use.
LEMMA OrderTypes ==
    ASSUME Types
    PROVE  /\ coded \in Seq(PictureTypes) /\ shown \in Seq(Nat) /\ pic \in [Slots -> Nat]
           /\ queue["DISPLAY"] \in Seq(Slots) /\ ptodo \in Seq(SlotCalls) /\ ref0 \in Refs
  BY DEF Types, SlotTypes, ParserTypes, OtherTypes, PictureTypes, QueueTypes

\* The last reference is due after every other picture.
LEMMA LastDue ==
    ASSUME NEW s \in Seq(PictureTypes), NEW n \in DOMAIN s, NEW r, s[n] # "N", LastIn(s, r), n # r
    PROVE  DueIn(s, n) < DueIn(s, r) /\ DueIn(s, n) <= Len(s) /\ ~LastIn(s, n)
  <1>1. ~LastIn(s, n)
    BY LastOnce
  <1>2. r \in DOMAIN s
    BY DEF LastIn
  <1>3. DueIn(s, n) <= Len(s) /\ DueIn(s, r) = Len(s) + 1 /\ DueIn(s, n) \in Nat /\ Len(s) \in Nat
    BY <1>1, <1>2, DueBounds
  <1> QED  BY <1>1, <1>3

\* The stream grows by one picture, or not at all: what was due before stays so.
LEMMA DueStays ==
    ASSUME NEW s \in Seq(PictureTypes), NEW z, z = s \/ \E t \in PictureTypes : z = Append(s, t),
           NEW n \in DOMAIN s, NEW m \in DOMAIN s, s[n] # "N", s[m] # "N",
           DueIn(s, n) < DueIn(s, m)
    PROVE  DueIn(z, n) < DueIn(z, m)
  BY DueKept

LEMMA GrowsBy ==
    ASSUME NEW s \in Seq(PictureTypes), NEW z, z = s \/ \E t \in PictureTypes : z = Append(s, t),
           NEW n \in DOMAIN s
    PROVE  n \in DOMAIN z /\ z[n] = s[n]
  OBVIOUS

\* The last reference of the parser is on use.
LEMMA RefUsed ==
    ASSUME SlotInv, Valid(ref0)
    PROVE  ref0.slot \in Slots /\ slot[ref0.slot].on_used
  <1>1. ref0.slot \in Slots
    BY DEF SlotInv, Types, ParserTypes, Refs, Entries, Valid
  <1>2. ppc # "drain"
    BY DEF SlotInv, Control, ResetSteps, Valid, NoRef
  <1> QED  BY <1>1, <1>2, EntriesOk DEF EntryOk, FlagsOf, OnUse, Needed, IsRef, Forgotten

\* Every other entry on use is due before it.
LEMMA LastSlot ==
    ASSUME SlotInv, BuffersOk, OrderInv, Valid(ref0), NEW i \in Slots, slot[i].on_used, i # ref0.slot
    PROVE  Sooner(i, ref0.slot) /\ DueIn(coded, pic[i]) <= Len(coded) /\ ~LastIn(coded, pic[i])
  <1>1. coded \in Seq(PictureTypes)
    BY OrderTypes DEF SlotInv
  <1>2. ref0.slot \in Slots /\ slot[ref0.slot].on_used
    BY RefUsed
  <1>3. pic[i] # pic[ref0.slot]
    BY <1>2 DEF BuffersOk, Numbers
  <1>4. pic[i] \in DOMAIN coded /\ coded[pic[i]] # "N" /\ LastIn(coded, pic[ref0.slot])
    BY DEF OrderInv, Numbered, LastHeld
  <1> QED  BY <1>1, <1>3, <1>4, LastDue DEF Sooner

\* No picture comes: the stream keeps its numbers, and the order of what was shown.
PicturesKept ==
    /\ UNCHANGED <<pic, shown>> /\ (coded' = coded \/ coded' = Append(coded, "N"))
    /\ decoded \subseteq decoded'
    /\ \A i \in Slots : slot'[i].on_used => slot[i].on_used

LEMMA NumbersKept ==
    ASSUME Types, Types', OrderInv, PicturesKept, ref0' = NoRef \/ ref0'.slot = ref0.slot
    PROVE  /\ Numbered' /\ LastHeld' /\ ShownOk'
           /\ \A n, m \in DOMAIN coded :
                coded[n] # "N" /\ coded[m] # "N" /\ DueIn(coded, n) < DueIn(coded, m)
                  => DueIn(coded', n) < DueIn(coded', m)
  <1>0. coded \in Seq(PictureTypes) /\ Numbered /\ LastHeld /\ ShownOk /\ UNCHANGED <<pic, shown>>
        /\ decoded \subseteq decoded' /\ (\A i \in Slots : slot'[i].on_used => slot[i].on_used)
    BY OrderTypes DEF OrderInv, PicturesKept
  <1>1. coded' = coded \/ \E t \in PictureTypes : coded' = Append(coded, t)
    BY DEF PicturesKept, PictureTypes
  <1>2. \A n \in DOMAIN coded : n \in DOMAIN coded' /\ coded'[n] = coded[n]
    BY <1>0, <1>1, GrowsBy
  <1>3. \A n, m \in DOMAIN coded : coded[n] # "N" /\ coded[m] # "N" /\ DueIn(coded, n) < DueIn(coded, m)
                                      => DueIn(coded', n) < DueIn(coded', m)
    BY <1>0, <1>1, DueStays
  <1>4. Numbered'
    BY <1>0, <1>2 DEF Numbered
  <1>5. LastHeld'
    <2> SUFFICES ASSUME Valid(ref0)' PROVE LastIn(coded', pic'[ref0'.slot])
      BY DEF LastHeld
    <2>1. ref0'.slot = ref0.slot /\ LastIn(coded, pic[ref0.slot])
      BY <1>0 DEF LastHeld, Valid, NoRef
    <2>2. pic[ref0.slot] \in DOMAIN coded /\ coded[pic[ref0.slot]] # "N"
      BY <2>1 DEF LastIn, RefTypes
    <2>3. LastIn(coded', pic[ref0.slot])
      <3>1. CASE coded' = coded
        BY <2>1, <3>1
      <3>2. CASE coded' = Append(coded, "N")
        BY <1>0, <2>1, <2>2, <3>2, DueAppend DEF PictureTypes, RefTypes
      <3> QED  BY <3>1, <3>2 DEF PicturesKept
    <2> QED  BY <1>0, <2>1, <2>3
  <1>6. ShownOk'
    <2>1. \A k \in DOMAIN shown : shown[k] \in decoded' /\ shown[k] \in DOMAIN coded' /\ coded'[shown[k]] # "N"
      BY <1>0, <1>2 DEF ShownOk
    <2>2. ASSUME NEW j \in DOMAIN shown, NEW k \in DOMAIN shown, j < k
          PROVE  DueIn(coded', shown[j]) < DueIn(coded', shown[k])
      BY <1>0, <1>3, <2>2 DEF ShownOk
    <2> QED  BY <1>0, <2>1, <2>2 DEF ShownOk
  <1> QED  BY <1>3, <1>4, <1>5, <1>6

\* Steps in which nothing moves in the display, but that the last reference may be
\* sent there, keep the order.
LEMMA OrderKept ==
    ASSUME SlotInv, BuffersOk, OrderInv, Types', PicturesKept, UNCHANGED <<queue, hcur>>,
           ref0'.slot = ref0.slot, ~Past' => ~Past,
           \A i \in Slots : Awaited(i)' => Awaited(i),
           \A i \in Slots : Show(i)' => Show(i) \/ (i = ref0.slot /\ ~Staged(i)),
           \A i \in Slots : slot'[i].on_used /\ ~Writing(i)' => ~Writing(i) \/ pic[i] \in decoded',
           ~Past' => LastShown(ptodo', ref0.slot)
    PROVE  OrderInv'
  <1>0. Types
    BY DEF SlotInv
  <1>1. /\ Numbered' /\ LastHeld' /\ ShownOk'
        /\ \A n, m \in DOMAIN coded :
             coded[n] # "N" /\ coded[m] # "N" /\ DueIn(coded, n) < DueIn(coded, m)
               => DueIn(coded', n) < DueIn(coded', m)
    BY <1>0, NumbersKept
  <1> SUFFICES ASSUME ~Past' PROVE Ordered'
    BY <1>1 DEF OrderInv
  <1>2. ShowOnce /\ QueueOrder /\ ShownFirst /\ DecodedOnce /\ Numbered /\ ShownOk
    BY DEF OrderInv, Ordered
  <1>3. UNCHANGED <<pic, shown, queue, hcur>>
    BY DEF PicturesKept
  <1>4. ASSUME NEW i \in Slots, NEW j \in Slots, slot[i].on_used, slot[j].on_used, Sooner(i, j)
        PROVE  Sooner(i, j)'
    BY <1>1, <1>2, <1>3, <1>4 DEF Numbered, Sooner
  <1>5. \A i \in Slots : Awaited(i) => slot[i].on_used
    BY AwaitedUsed
  <1>6. /\ \A i : InQ(i)' <=> InQ(i)
        /\ queue["DISPLAY"] \in Seq(Slots)
    BY <1>0, QueueSame, OrderTypes
  <1>7. ASSUME NEW i \in Slots, NEW j \in Slots, InQ(i) \/ hcur = i, Show(j)' PROVE Sooner(i, j)'
    <2>1. slot[i].on_used /\ slot[j].on_used
      BY <1>5, <1>7 DEF Awaited
    <2>2. CASE Show(j)
      BY <1>2, <1>4, <1>7, <2>1, <2>2 DEF QueueOrder
    <2>3. CASE j = ref0.slot /\ ~Staged(j)
      <3>1. i # j /\ Valid(ref0)
        BY <1>7, <2>3 DEF Staged, Valid, Slots, NoSlot
      <3>2. Sooner(i, j)
        BY <2>1, <2>3, <3>1, LastSlot
      <3> QED  BY <1>4, <2>1, <3>2
    <2> QED  BY <1>7, <2>2, <2>3
  <1>8. ShowOnce'
    BY <1>2 DEF ShowOnce
  <1>9. QueueOrder'
    <2>1. ASSUME NEW j \in DOMAIN queue["DISPLAY"], NEW k \in DOMAIN queue["DISPLAY"], j < k
          PROVE  Sooner(queue["DISPLAY"][j], queue["DISPLAY"][k])'
      <3> DEFINE a == queue["DISPLAY"][j]
                 b == queue["DISPLAY"][k]
      <3>1. a \in Slots /\ b \in Slots /\ InQ(a) /\ InQ(b) /\ Sooner(a, b)
        BY <1>2, <1>6, <2>1 DEF InQ, QueueOrder
      <3>2. slot[a].on_used /\ slot[b].on_used
        BY <1>5, <3>1 DEF Awaited
      <3> QED  BY <1>3, <1>4, <3>1, <3>2
    <2>2. ASSUME NEW i \in Slots, NEW j \in Slots, hcur = i, InQ(j) PROVE Sooner(i, j)'
      <3>1. slot[i].on_used /\ slot[j].on_used
        BY <1>5, <2>2 DEF Awaited
      <3> QED  BY <1>2, <1>4, <2>2, <3>1 DEF QueueOrder
    <2> QED  BY <1>3, <1>6, <1>7, <2>1, <2>2 DEF QueueOrder
  <1>10. ShownFirst'
    <2> SUFFICES ASSUME NEW k \in DOMAIN shown, NEW j \in Slots, Awaited(j)'
                 PROVE  DueIn(coded', shown[k]) < DueIn(coded', pic[j])
      BY <1>3 DEF ShownFirst
    <2>1. Awaited(j) /\ slot[j].on_used
      BY <1>5
    <2>2. DueIn(coded, shown[k]) < DueIn(coded, pic[j])
      BY <1>2, <2>1 DEF ShownFirst
    <2> QED  BY <1>1, <1>2, <2>1, <2>2 DEF Numbered, ShownOk
  <1>11. DecodedOnce'
    BY <1>2, <1>3 DEF DecodedOnce, PicturesKept
  <1>12. LastShown(ptodo, ref0.slot)'
    OBVIOUS
  <1> QED  BY <1>8, <1>9, <1>10, <1>11, <1>12 DEF Ordered

\* A list of calls with no call that joins the queue, or with the last reference's
\* alone, queues it last; so does the rest of a list that did.
NoShows(todo) == \A k \in DOMAIN todo : todo[k][1] # "enqueue"

LEMMA NoShowsLast == ASSUME NEW s, NoShows(s), NEW r PROVE LastShown(s, r)
  BY DEF NoShows, LastShown

LEMMA LastShownTail ==
    ASSUME NEW s \in Seq(SlotCalls), NEW r, LastShown(s, r), s # << >>
    PROVE  LastShown(Tail(s), r)
  <1>1. \A k \in DOMAIN Tail(s) : k + 1 \in DOMAIN s /\ Tail(s)[k] = s[k + 1] /\ k \in Nat
    <2>1. /\ \A k \in 1 .. Len(s) - 1 : Tail(s)[k] = s[k + 1]
          /\ DOMAIN s = 1 .. Len(s) /\ DOMAIN Tail(s) = 1 .. Len(s) - 1 /\ Len(s) \in Nat
      BY Advanced
    <2>2. \A k \in 1 .. Len(s) - 1 : k + 1 \in 1 .. Len(s) /\ k \in Nat
      BY <2>1
    <2> QED  BY <2>1, <2>2
  <1> SUFFICES ASSUME NEW j \in DOMAIN Tail(s), NEW k \in DOMAIN Tail(s),
                      Tail(s)[j] = <<"enqueue", r, "DISPLAY">>, Tail(s)[k][1] = "enqueue"
               PROVE  k <= j
    BY DEF LastShown
  <1>2. k + 1 <= j + 1
    BY <1>1 DEF LastShown
  <1> QED  BY <1>1, <1>2

LEMMA LastShownJoin ==
    ASSUME NEW a \in Seq(SlotCalls), NEW b \in Seq(SlotCalls), NEW r, LastShown(a, r), LastShown(b, r),
           NoShows(b) \/ \A k \in DOMAIN a : a[k] # <<"enqueue", r, "DISPLAY">>
    PROVE  LastShown(a \o b, r)
  <1> SUFFICES ASSUME NEW j \in DOMAIN (a \o b), NEW k \in DOMAIN (a \o b),
                      (a \o b)[j] = <<"enqueue", r, "DISPLAY">>, (a \o b)[k][1] = "enqueue"
               PROVE  k <= j
    BY DEF LastShown
  <1>0. j \in Nat /\ k \in Nat /\ Len(a) \in Nat
    OBVIOUS
  <1>1. (j \in DOMAIN a /\ (a \o b)[j] = a[j])
          \/ (j - Len(a) \in DOMAIN b /\ (a \o b)[j] = b[j - Len(a)] /\ j \notin DOMAIN a)
    BY Joined
  <1>2. (k \in DOMAIN a /\ (a \o b)[k] = a[k])
          \/ (k - Len(a) \in DOMAIN b /\ (a \o b)[k] = b[k - Len(a)] /\ k \notin DOMAIN a)
    BY Joined
  <1>3. CASE j \in DOMAIN a /\ k \in DOMAIN a
    BY <1>1, <1>2, <1>3 DEF LastShown
  <1>4. CASE j \in DOMAIN a /\ k \notin DOMAIN a
    BY <1>1, <1>2, <1>4 DEF NoShows
  <1>5. CASE j \notin DOMAIN a /\ k \in DOMAIN a
    <2>1. DOMAIN a = 1 .. Len(a) /\ j > Len(a)
      BY <1>1, <1>5, <1>0
    <2> QED  BY <1>0, <1>5, <2>1
  <1>6. CASE j \notin DOMAIN a /\ k \notin DOMAIN a
    <2>1. k - Len(a) <= j - Len(a)
      BY <1>1, <1>2, <1>6 DEF LastShown
    <2> QED  BY <1>0, <2>1
  <1> QED  BY <1>3, <1>4, <1>5, <1>6

\* The two calls of Display, and the flush that makes them.
LEMMA DisplayShows ==
    ASSUME NEW i \in Slots, NEW r
    PROVE  /\ Display(i) \in Seq(SlotCalls) /\ LastShown(Display(i), r)
           /\ \A k \in DOMAIN Display(i) : Display(i)[k][2] = i
  <1>1. Display(i) \in Seq(SlotCalls)
    BY DisplayLists DEF Lists
  <1>2. /\ DOMAIN Display(i) = {1, 2} /\ Display(i)[1] = <<"set", i, "QUEUE_USE">>
        /\ Display(i)[2] = <<"enqueue", i, "DISPLAY">>
    BY DEF Display
  <1>3. Display(i)[1][1] = "set" /\ Display(i)[1][2] = i /\ Display(i)[2][2] = i
    BY <1>2
  <1>4. LastShown(Display(i), r)
    <2> SUFFICES ASSUME NEW j \in {1, 2}, NEW k \in {1, 2}, Display(i)[j] = <<"enqueue", r, "DISPLAY">>
                 PROVE  k <= j
      BY <1>2 DEF LastShown
    <2>1. j # 1
      BY <1>2, <1>3
    <2> QED  BY <2>1
  <1> QED  BY <1>1, <1>2, <1>3, <1>4

LEMMA FlushShows ==
    ASSUME NEW r \in Refs, NEW x
    PROVE  /\ FlushCalls(r) \in Seq(SlotCalls) /\ LastShown(FlushCalls(r), x)
           /\ \A k \in DOMAIN FlushCalls(r) : FlushCalls(r)[k][2] = r.slot /\ Valid(r)
  <1>1. CASE Valid(r) /\ ~r.enqueued
    <2>1. r.slot \in Slots /\ FlushCalls(r) = Display(r.slot)
      BY <1>1 DEF FlushCalls, If, Refs, Entries, Valid
    <2> QED  BY <1>1, <2>1, DisplayShows
  <1>2. CASE ~(Valid(r) /\ ~r.enqueued)
    <2>1. FlushCalls(r) = << >>
      BY <1>2 DEF FlushCalls, If
    <2> QED  BY <2>1, NoShowsLast DEF NoShows
  <1> QED  BY <1>1, <1>2

\* The steps that make no call, and the flushes, keep the order.
LEMMA StillOrder ==
    ASSUME SlotInv, BuffersOk, OrderInv, StillStep, Types'
    PROVE  OrderInv'
  <1>0. ParserRests /\ AfterReset
    BY DEF SlotInv, Control
  <1>1. UNCHANGED <<slot, queue, pic, shown, decoded, hcur, ref0, ptodo, htodo>>
    BY DEF StillStep, PrevDone, ParseSkipped, SubmitEos, SendInfoChange, WaitInfoChange, NoBuffer,
       Submit, ProcControl, Ready, ResetPost, UserReset, slotVars, parserVars, halVars, histVars
  <1>2. coded' = coded \/ coded' = Append(coded, "N")
    BY DEF StillStep, PrevDone, ParseSkipped, SubmitEos, SendInfoChange, WaitInfoChange, NoBuffer,
       Submit, ProcControl, ResetPost, UserReset, histVars
  <1>3. ~Past' => ~Past
    <2>1. UNCHANGED <<flushDue, resetFlag>> \/ (~flushDue /\ ~resetFlag)
      BY DEF StillStep, PrevDone, ParseSkipped, SubmitEos, SendInfoChange, WaitInfoChange, NoBuffer,
         Submit, ProcControl, ResetPost, UserReset, ctrlVars
    <2>2. ppc = "drain" => ppc' = "drain"
      BY <1>0 DEF StillStep, PrevDone, TryProc, ParseSkipped, SubmitEos, SendInfoChange, WaitInfoChange, NoBuffer,
         Parsed, Submit, ProcControl, ResetPost, UserReset, parserVars
    <2> QED  BY <2>1, <2>2 DEF Past
  <1>4. InFlight' = InFlight
    BY FlightSame DEF StillStep, OtherStep, UserNext
  <1>5. \A i : (Awaited(i)' <=> Awaited(i)) /\ (Show(i)' <=> Show(i)) /\ (Writing(i)' <=> Writing(i))
    BY <1>1, <1>4 DEF Awaited, Show, InQ, Calls, Writing
  <1>6. PicturesKept
    BY <1>1, <1>2 DEF PicturesKept
  <1>7. ~Past' => LastShown(ptodo', ref0.slot)
    BY <1>1, <1>3 DEF OrderInv, Ordered
  <1> QED  BY <1>1, <1>3, <1>5, <1>6, <1>7, OrderKept

LEMMA FlushOrder ==
    ASSUME SlotInv, BuffersOk, OrderInv, HalTake \/ HalReset \/ PrepareEos, Types'
    PROVE  OrderInv'
  <1>0. ParserRests /\ HalRests /\ ref0 \in Refs
    BY DEF SlotInv, Control, Types, ParserTypes
  <1>1. UNCHANGED <<slot, queue, pic, shown, decoded, hcur, coded, flushDue, resetFlag>>
    BY DEF HalTake, HalReset, PrepareEos, slotVars, halVars, ctrlVars, histVars
  <1>2. (Calls' = Calls \cup FlushSet(ref0) /\ ref0' = Flushed(ref0)) \/ (Calls' = Calls /\ ref0' = ref0)
    BY FlushHand
  <1>3. ASSUME NEW i \in Slots
        PROVE  (Awaited(i)' <=> Awaited(i)) /\ (Show(i)' => Show(i) \/ (i = ref0.slot /\ ~Staged(i)))
    <2>1. CASE Calls' = Calls \cup FlushSet(ref0) /\ ref0' = Flushed(ref0)
      <3>1. (Awaited(i)' <=> Awaited(i)) /\ (Show(i)' <=> Show(i) \/ (Flushes /\ i = ref0.slot))
        BY <1>1, <2>1, FlushAdds, FlushAwaits
      <3> QED  BY <3>1 DEF Flushes, SlotInv, Stages, Displays
    <2>2. CASE Calls' = Calls /\ ref0' = ref0
      BY <1>1, <2>2 DEF Awaited, Show, InQ
    <2> QED  BY <1>2, <2>1, <2>2
  <1>4. (ppc' = "drain" <=> ppc = "drain") /\ ref0'.slot = ref0.slot
    BY <1>0, <1>2, FlushedTypes DEF HalTake, HalReset, PrepareEos, TryProc
  <1>5. Past' <=> Past
    BY <1>1, <1>4 DEF Past
  <1>6. InFlight' = InFlight
    BY FlightSame DEF OtherStep
  <1>7. ~Past' => LastShown(ptodo', ref0.slot)
    <2>1. CASE PrepareEos
      BY <1>0, <2>1, FlushShows DEF PrepareEos
    <2>2. CASE HalTake \/ HalReset
      BY <1>5, <2>2 DEF HalTake, HalReset, OrderInv, Ordered
    <2> QED  BY <2>1, <2>2
  <1>8. PicturesKept
    BY <1>1 DEF PicturesKept
  <1> QED  BY <1>1, <1>3, <1>4, <1>5, <1>6, <1>7, <1>8, OrderKept DEF Writing

\* The end of the hardware's work adds a decoded picture.
LEMMA DoneOrder ==
    ASSUME SlotInv, BuffersOk, OrderInv, HwDone, Types'
    PROVE  OrderInv'
  <1>1. /\ Calls' = Calls \cup DoneSet(hal) \cup (IF EndsStream(hal) THEN FlushSet(ref0) ELSE {})
        /\ ref0' = (IF EndsStream(hal) THEN Flushed(ref0) ELSE ref0)
        /\ UNCHANGED <<slot, queue, hcur, usedCount, slotError, ref1, task, ppc>>
        /\ InFlight' = InFlight \ {hal}
    BY DoneFacts
  <1>2. UNCHANGED <<pic, shown, coded, ptodo, flushDue, resetFlag>> /\ decoded' = decoded \cup {pic[hal.out]}
    BY DEF HwDone, ctrlVars
  <1>3. \A c : c \in DoneSet(hal) => c[1] = "clr"
    BY DEF DoneSet, ClrInSet
  <1>4. ASSUME NEW i PROVE Show(i)' <=> Show(i) \/ (EndsStream(hal) /\ Flushes /\ i = ref0.slot)
    <2> DEFINE c == <<"enqueue", i, "DISPLAY">>
    <2>1. c \notin DoneSet(hal)
      BY <1>3
    <2>2. c \in FlushSet(ref0) <=> Flushes /\ i = ref0.slot
      BY DEF FlushSet, ShowSet, Flushes
    <2> QED  BY <1>1, <2>1, <2>2 DEF Show
  <1>5. ref0'.slot = ref0.slot /\ (ref0' = ref0 \/ (EndsStream(hal) /\ (ref0'.enqueued <=> Valid(ref0) \/ ref0.enqueued)))
    BY <1>1, FlushedTypes DEF SlotInv, Types, ParserTypes
  <1>6. ASSUME NEW i \in Slots PROVE Awaited(i)' => Awaited(i)
    <2>1. InQ(i)' <=> InQ(i)
      BY <1>1, QueueSame
    <2>2. i # NoSlot
      BY DEF Slots, NoSlot
    <2> QED  BY <1>1, <1>4, <1>5, <2>1, <2>2 DEF Awaited, Flushes, Valid
  <1>7. ASSUME NEW i \in Slots, ~Writing(i)' PROVE ~Writing(i) \/ pic[i] \in decoded'
    BY <1>1, <1>2, <1>7 DEF Writing
  <1>8. ASSUME NEW i \in Slots, Show(i)' PROVE Show(i) \/ (i = ref0.slot /\ ~Staged(i))
    BY <1>4, <1>8 DEF Flushes, SlotInv, Stages, Displays
  <1>9. (Past' <=> Past) /\ PicturesKept
    BY <1>1, <1>2 DEF Past, PicturesKept
  <1>10. ~Past' => LastShown(ptodo', ref0.slot)
    BY <1>2, <1>9 DEF OrderInv, Ordered
  <1> QED  BY <1>1, <1>5, <1>6, <1>7, <1>8, <1>9, <1>10, OrderKept

\* Once the references are thrown away, only the numbers have to be kept.
LEMMA PastOrder ==
    ASSUME Types, Types', OrderInv, PicturesKept, ref0' = NoRef \/ ref0'.slot = ref0.slot, Past'
    PROVE  OrderInv'
  BY NumbersKept DEF OrderInv

\* A call puts no entry on use, and only two kinds of calls move the queue.
LEMMA CallUses ==
    ASSUME SlotTypes, NEW c \in SlotCalls, Call(c)
    PROVE  /\ \A i \in Slots : slot'[i].on_used => slot[i].on_used
           /\ c[1] \notin {"enqueue", "reset"} => UNCHANGED queue
  <1>0. c[2] \in Slots /\ slot[c[2]] \in SlotEntry /\ slot \in [Slots -> SlotEntry]
    BY CallEffect DEF SlotTypes
  <1> DEFINE i == c[2]
  <1>1. CASE c[1] = "set" /\ c[3] \in Flags /\ SetFlag(i, c[3])
    <2>1. OnlyEntry(i) /\ slot'[i] = SetOp(slot[i], c[3]) /\ UNCHANGED queue
      BY <1>0, <1>1, SetFlagEffect
    <2>2. slot'[i].on_used = slot[i].on_used
      BY <1>0, <1>1, <2>1, SetOpFields
    <2> QED  BY <2>1, <2>2 DEF OnlyEntry
  <1>2. CASE c[1] = "clr" /\ c[3] \in Flags /\ ClrFlag(i, c[3])
    <2> DEFINE s == ClrOp(slot[i], c[3])
    <2>1. OnlyEntry(i) /\ UNCHANGED queue /\ s \in SlotEntry /\ CheckEntryUnused(i, s)
      BY <1>0, <1>2, ClrFlagEffect
    <2>2. s.on_used = slot[i].on_used
      BY <1>0, <1>2, ClrOpFields
    <2> HIDE DEF s
    <2>3. slot'[i].on_used = (s.on_used /\ ~Unused(s))
      BY <1>0, <2>1, ReleaseEffect
    <2> QED  BY <2>1, <2>2, <2>3 DEF OnlyEntry
  <1>3. CASE c[1] = "enqueue" /\ Enqueue(i, "DISPLAY")
    <2>1. OnlyEntry(i) /\ slot'[i] = [slot[i] EXCEPT !.queue_use = (slot[i].queue_use + 1) % 32]
      BY <1>0, <1>3, EnqueueEffect
    <2>2. slot'[i].on_used = slot[i].on_used
      BY <1>0, <2>1 DEF SlotEntry
    <2> QED  BY <1>3, <2>1, <2>2 DEF OnlyEntry
  <1>4. CASE c[1] = "frame" /\ c[3] \in Infos /\ SetFrame(i, c[3])
    <2>1. /\ OnlyEntry(i) /\ slot'[i] = [slot[i] EXCEPT !.frame = TRUE, !.frameBuf = NoBuf]
          /\ UNCHANGED queue
      BY <1>0, <1>4, SetFrameEffect
    <2>2. slot'[i].on_used = slot[i].on_used
      BY <1>0, <2>1 DEF SlotEntry
    <2> QED  BY <2>1, <2>2 DEF OnlyEntry
  <1>5. CASE c[1] = "reset" /\ SlotReset(i)
    <2>1. OnlyEntry(i) /\ slot'[i] = [slot[i] EXCEPT !.on_used = FALSE,
                                      !.queue_use = IF slot[i].queue_use > 1
                                                    THEN slot[i].queue_use - 2 ELSE 0]
      BY <1>0, <1>5, SlotResetEffect
    <2>2. ~slot'[i].on_used
      BY <1>0, <2>1, ZenonT(60) DEF SlotEntry
    <2> QED  BY <1>5, <2>1, <2>2 DEF OnlyEntry
  <1>6. CASE c[1] = "put" /\ PutBuffer(i)
    BY <1>6 DEF PutBuffer
  <1> QED  BY <1>1, <1>2, <1>3, <1>4, <1>5, <1>6, CallEffect

\* Of what the parser thread is about to queue, the last reference stays the last.
LEMMA CallLastShown ==
    ASSUME SlotInv, ParserCall \/ HalCall, LastShown(ptodo, ref0.slot)
    PROVE  LastShown(ptodo', ref0.slot)
  <1>1. CASE ParserCall
    <2>1. ptodo # << >> /\ ptodo' = Tail(ptodo) /\ ptodo \in Seq(SlotCalls)
      BY <1>1, OrderTypes DEF ParserCall, SlotInv
    <2> QED  BY <2>1, LastShownTail
  <1>2. CASE HalCall
    BY <1>2 DEF HalCall, parserVars
  <1> QED  BY <1>1, <1>2

\* A call that moves nothing in the display keeps the order.
LEMMA QuietOrder ==
    ASSUME SlotInv, BuffersOk, OrderInv, ParserCall \/ HalCall, NEW c, MadeCall(c), c[1] # "enqueue", Types'
    PROVE  OrderInv'
  <1>0. Types /\ SlotTypes
    BY DEF SlotInv, Types
  <1>1. /\ c \in SlotCalls /\ c[2] \in Slots /\ Call(c) /\ c \in Calls /\ Calls' = Calls \ {c}
        /\ UNCHANGED <<pic, shown, dropped, coded, ppc, ref0, hcur>>
        /\ \A j : Show(j)' <=> Show(j) /\ ~(c[1] = "enqueue" /\ c[2] = j)
    BY CallLeaves DEF MadeCall
  <1>2. UNCHANGED <<decoded, flushDue, resetFlag>>
    BY DEF ParserCall, HalCall, ctrlVars, histVars
  <1>3. (\A i \in Slots : slot'[i].on_used => slot[i].on_used)
        /\ (c[1] \notin {"enqueue", "reset"} => UNCHANGED queue)
    BY <1>0, <1>1, CallUses
  <1>4. PicturesKept /\ (Past' <=> Past)
    BY <1>1, <1>2, <1>3 DEF PicturesKept, Past
  <1>5. CASE c[1] = "reset"
    <2>1. ppc = "drain"
      BY <1>1, <1>5, CallFacts DEF CallIs
    <2> QED  BY <1>0, <1>1, <1>4, <2>1, PastOrder DEF Past
  <1>6. CASE c[1] # "reset"
    <2>1. UNCHANGED queue
      BY <1>3, <1>6
    <2>2. \A j \in Slots : Awaited(j)' <=> Awaited(j)
      BY <2>1, CallAwaits
    <2>3. InFlight' = InFlight
      BY FlightSame DEF OtherStep
    <2>4. ~Past' => LastShown(ptodo', ref0.slot)
      BY <1>4, CallLastShown DEF OrderInv, Ordered
    <2>5. \A i : Writing(i)' <=> Writing(i)
      BY <2>3 DEF Writing
    <2> QED  BY <1>1, <1>4, <2>1, <2>2, <2>4, <2>5, OrderKept
  <1> QED  BY <1>5, <1>6

\* An entry that is in no queue leaves none.
LEMMA WithoutNone ==
    ASSUME NEW q, NEW x, \A k \in DOMAIN q : q[k] # x
    PROVE  Without(q, x) = q
  BY DEF Without

\* The call that a step makes is the first one of its list.
LEMMA CallFirst ==
    ASSUME SlotInv, NEW c, MadeCall(c)
    PROVE  /\ ParserCall => c \in CallsIn(ptodo) /\ ptodo # << >> /\ c = ptodo[1]
           /\ HalCall => c \in CallsIn(htodo)
  <1>0. /\ InOrder(ptodo) /\ InOrder(htodo) /\ ptodo \in Seq(SlotCalls) /\ htodo \in Seq(SlotCalls)
        /\ c \in Calls /\ c \notin Calls'
    BY DEF SlotInv, Todo, Types, ParserTypes, HalTypes, MadeCall
  <1>1. ASSUME ParserCall PROVE c \in CallsIn(ptodo) /\ ptodo # << >> /\ c = ptodo[1]
    <2>1. ptodo # << >> /\ ptodo' = Tail(ptodo) /\ htodo' = htodo
      BY <1>1 DEF ParserCall, halVars
    <2>2. CallsIn(Tail(ptodo)) = CallsIn(ptodo) \ {Head(ptodo)} /\ Head(ptodo) \in CallsIn(ptodo)
          /\ Head(ptodo) = ptodo[1]
      BY <1>0, <2>1, CallsTail, Advanced
    <2> QED  BY <1>0, <2>1, <2>2 DEF Calls
  <1>2. ASSUME HalCall PROVE c \in CallsIn(htodo)
    <2>1. htodo # << >> /\ htodo' = Tail(htodo) /\ ptodo' = ptodo
      BY <1>2 DEF HalCall, parserVars
    <2> QED  BY <1>0, <2>1 DEF Calls
  <1> QED  BY <1>1, <1>2

\* When an entry joins the display queue, only the last reference may still have to.
LEMMA JoinsBefore ==
    ASSUME SlotInv, OrderInv, ~Past, ParserCall \/ HalCall, NEW c, MadeCall(c), c[1] = "enqueue",
           NEW j \in Slots, Show(j), j # c[2]
    PROVE  j = ref0.slot
  <1> DEFINE d == <<"enqueue", j, "DISPLAY">>
  <1>0. /\ ShowOnce /\ LastShown(ptodo, ref0.slot) /\ HalCalls
        /\ c \in SlotCalls /\ c \in Calls /\ d \in Calls /\ d[1] = "enqueue" /\ d[2] = j
    BY DEF OrderInv, Ordered, SlotInv, Todo, MadeCall, Show
  <1>1. c = <<"enqueue", c[2], "DISPLAY">> /\ c[2] \in Slots
    BY <1>0, CallKinds
  <1>2. ref0.slot \in {c[2], j}
    BY <1>0, <1>1 DEF ShowOnce, Show
  <1> SUFFICES ASSUME ref0.slot = c[2] PROVE FALSE
    BY <1>2
  <1>3. CASE ParserCall
    <2>1. c \in CallsIn(ptodo) /\ c = ptodo[1]
      BY <1>3, CallFirst
    <2>2. d \notin CallsIn(htodo)
      BY <1>0, <2>1, CallsApart
    <2>3. PICK k \in DOMAIN ptodo : d = ptodo[k]
      BY <1>0, <2>2 DEF Calls, CallsIn
    <2>4. ptodo \in Seq(SlotCalls) /\ DOMAIN ptodo = 1 .. Len(ptodo) /\ Len(ptodo) \in Nat /\ 1 \in DOMAIN ptodo
      BY <2>3, OrderTypes DEF SlotInv
    <2>5. k <= 1
      BY <1>0, <1>1, <2>1, <2>3, <2>4 DEF LastShown
    <2>6. k = 1
      BY <2>3, <2>4, <2>5
    <2> QED  BY <1>0, <2>1, <2>3, <2>6
  <1>4. CASE HalCall
    <2>1. c \in CallsIn(htodo)
      BY <1>4, CallFirst
    <2>2. d \notin CallsIn(ptodo)
      BY <1>0, <2>1, CallsApart
    <2> QED  BY <1>0, <2>2 DEF Calls, HalCalls
  <1> QED  BY <1>3, <1>4

\* What has to be shown for the order, when the pictures and their numbers stay.
LEMMA OrderParts ==
    ASSUME Types, Types', OrderInv, PicturesKept, ref0'.slot = ref0.slot, ~Past' => Ordered'
    PROVE  OrderInv'
  BY NumbersKept DEF OrderInv

\* An entry joins the display queue.
LEMMA JoinOrder ==
    ASSUME SlotInv, BuffersOk, OrderInv, ParserCall \/ HalCall, NEW c, MadeCall(c), c[1] = "enqueue", Types'
    PROVE  OrderInv'
  <1> DEFINE x == c[2]
             q == queue["DISPLAY"]
  <1>0. Types /\ SlotTypes /\ StagesDiffer /\ QueuedOnce
    BY DEF SlotInv, Types, Stages
  <1>1. /\ c \in SlotCalls /\ x \in Slots /\ Call(c) /\ c \in Calls
        /\ UNCHANGED <<pic, shown, dropped, coded, ppc, ref0, hcur>>
        /\ \A j : Show(j)' <=> Show(j) /\ j # x
    BY CallLeaves DEF MadeCall
  <1>2. UNCHANGED <<decoded, flushDue, resetFlag>>
    BY DEF ParserCall, HalCall, ctrlVars, histVars
  <1>3. \A i \in Slots : slot'[i].on_used => slot[i].on_used
    BY <1>0, <1>1, CallUses
  <1>4. PicturesKept /\ (Past' <=> Past) /\ Show(x)
    BY <1>1, <1>2, <1>3, CallKinds DEF PicturesKept, Past, Show
  <1> SUFFICES ASSUME ~Past PROVE Ordered'
    BY <1>0, <1>1, <1>4, OrderParts
  <1>5. ShowOnce /\ QueueOrder /\ ShownFirst /\ DecodedOnce /\ LastShown(ptodo, ref0.slot)
    BY DEF OrderInv, Ordered
  <1>6. ~InQ(x) /\ hcur # x /\ slot[x].on_used
    BY <1>0, <1>1, <1>4, AwaitedUsed DEF StagesDiffer, Awaited
  <1>7. queue'["DISPLAY"] = Append(q, x) /\ q \in Seq(Slots) /\ \A y : y # x => (InQ(y)' <=> InQ(y))
    <2>1. Enqueue(x, "DISPLAY")
      BY <1>0, <1>1, CallEffect
    <2>2. queue'["DISPLAY"] = Append(Without(q, x), x)
      BY <1>0, <1>1, <2>1, EnqueueEffect
    <2>3. Without(q, x) = q
      BY <1>6, WithoutNone DEF InQ
    <2> QED  BY <1>0, <1>1, <2>2, <2>3, QueueJoined, OrderTypes
  <1> HIDE DEF x
  <1>8. ASSUME NEW i \in Slots, NEW j \in Slots, Sooner(i, j) PROVE Sooner(i, j)'
    BY <1>1, <1>8 DEF Sooner
  <1>9. ASSUME NEW j \in Slots, Show(j)' PROVE Sooner(x, j)
    <2>1. j = ref0.slot /\ j # x
      BY <1>1, <1>9, JoinsBefore DEF x
    <2> QED  BY <1>1, <1>6, <2>1, LastSlot DEF Valid, Slots, NoSlot
  <1>10. QueueOrder'
    <2>1. ASSUME NEW j \in DOMAIN queue'["DISPLAY"], NEW k \in DOMAIN queue'["DISPLAY"], j < k
          PROVE  Sooner(queue["DISPLAY"][j], queue["DISPLAY"][k])'
      <3>1. /\ \A m \in DOMAIN q : Append(q, x)[m] = q[m] /\ q[m] \in Slots
            /\ Append(q, x)[Len(q) + 1] = x
            /\ DOMAIN q = 1 .. Len(q) /\ DOMAIN Append(q, x) = 1 .. Len(q) + 1 /\ Len(q) \in Nat
        BY <1>1, <1>7, Appended
      <3>2. j \in DOMAIN q /\ (k \in DOMAIN q \/ k = Len(q) + 1)
        BY <1>7, <2>1, <3>1
      <3>3. CASE k \in DOMAIN q
        <4>1. Sooner(q[j], q[k])
          BY <1>5, <2>1, <3>2, <3>3 DEF QueueOrder
        <4> QED  BY <1>7, <1>8, <3>1, <3>2, <3>3, <4>1
      <3>4. CASE k = Len(q) + 1
        <4>1. InQ(q[j]) /\ q[j] \in Slots
          BY <3>1, <3>2 DEF InQ
        <4>2. Sooner(q[j], x)
          BY <1>1, <1>4, <1>5, <4>1 DEF QueueOrder, x
        <4> QED  BY <1>1, <1>7, <1>8, <3>1, <3>2, <3>4, <4>1, <4>2
      <3> QED  BY <3>2, <3>3, <3>4
    <2>2. ASSUME NEW i \in Slots, NEW j \in Slots, InQ(i)', Show(j)' PROVE Sooner(i, j)'
      <3>1. CASE i = x
        BY <1>8, <1>9, <2>2, <3>1
      <3>2. CASE i # x
        BY <1>1, <1>5, <1>7, <1>8, <2>2, <3>2 DEF QueueOrder
      <3> QED  BY <3>1, <3>2
    <2>3. ASSUME NEW i \in Slots, NEW j \in Slots, hcur = i, InQ(j)' \/ Show(j)' PROVE Sooner(i, j)'
      <3>1. InQ(j) \/ Show(j)
        BY <1>1, <1>4, <1>7, <2>3 DEF x
      <3> QED  BY <1>5, <1>8, <2>3, <3>1 DEF QueueOrder
    <2> QED  BY <1>1, <2>1, <2>2, <2>3 DEF QueueOrder
  <1>11. \A j \in Slots : Awaited(j)' => Awaited(j)
    BY <1>1, <1>4, <1>7 DEF Awaited, x
  <1>12. ShownFirst'
    BY <1>1, <1>5, <1>11 DEF ShownFirst
  <1>13. DecodedOnce'
    <2>1. InFlight' = InFlight
      BY FlightSame DEF OtherStep
    <2> QED  BY <1>1, <1>2, <1>3, <1>5, <2>1 DEF DecodedOnce, Writing
  <1>14. ShowOnce'
    BY <1>1, <1>5 DEF ShowOnce
  <1>15. LastShown(ptodo, ref0.slot)'
    BY <1>1, <1>5, CallLastShown
  <1> QED  BY <1>10, <1>12, <1>13, <1>14, <1>15 DEF Ordered

\* The entry that leaves the display queue is the first one.
LEMMA TakenOrder ==
    ASSUME SlotInv, BuffersOk, OrderInv, NEW i \in Slots, HalDequeue(i), Types'
    PROVE  OrderInv'
  <1> DEFINE q == queue["DISPLAY"]
  <1>0. Types /\ HalRests /\ SlotTypes /\ QueuedOnce /\ q \in Seq(Slots)
    BY OrderTypes DEF SlotInv, Control, Types, Stages
  <1>1. /\ hpc = "push" /\ hcur' = i /\ Dequeue(i, "DISPLAY")
        /\ UNCHANGED <<ref0, ppc, ptodo, htodo, flushDue, resetFlag>>
        /\ UNCHANGED <<pic, shown, decoded, coded>>
    BY DEF HalDequeue, parserVars, ctrlVars, histVars
  <1>2. InFlight' = InFlight
    BY FlightSame DEF OtherStep
  <1>3. Calls' = Calls /\ (\A j : Show(j)' <=> Show(j))
    BY <1>1 DEF Calls, Show
  <1>4. /\ OnlyEntry(i) /\ InQ(i) /\ ~InQ(i)' /\ (\A y : y # i => (InQ(y)' <=> InQ(y)))
        /\ slot'[i].on_used = slot[i].on_used
    BY <1>1, DequeueFacts
  <1>5. queue'["DISPLAY"] = Tail(q) /\ q # << >> /\ i = q[1]
    <2>1. queue'["DISPLAY"] = Without(q, i) /\ q # << >> /\ i = Head(q)
      BY <1>0, <1>1, DequeueEffect
    <2>2. \A j, k \in DOMAIN q : q[j] = q[k] => j = k
      BY <1>0 DEF QueuedOnce
    <2>3. Without(q, i) = Tail(q)
      <3> HIDE DEF q
      <3> QED  BY <1>0, <2>1, <2>2, WithoutOne
    <2>4. Head(q) = q[1]
      <3> HIDE DEF q
      <3> QED  BY <1>0, <2>1, Advanced
    <2> QED  BY <2>1, <2>3, <2>4
  <1>6. \A j \in Slots : slot'[j].on_used = slot[j].on_used
    BY <1>4 DEF OnlyEntry
  <1>7. PicturesKept /\ (Past' <=> Past)
    BY <1>1, <1>6 DEF PicturesKept, Past
  <1> SUFFICES ASSUME ~Past PROVE Ordered'
    BY <1>0, <1>1, <1>7, OrderParts
  <1>8. ShowOnce /\ QueueOrder /\ ShownFirst /\ DecodedOnce /\ LastShown(ptodo, ref0.slot)
    BY DEF OrderInv, Ordered
  <1>9. ASSUME NEW m \in Slots, NEW j \in Slots, Sooner(m, j) PROVE Sooner(m, j)'
    BY <1>1, <1>9 DEF Sooner
  <1>10. /\ \A k \in DOMAIN Tail(q) : k \in DOMAIN q /\ k + 1 \in DOMAIN q /\ Tail(q)[k] = q[k + 1] /\ q[k + 1] \in Slots
         /\ \A k \in DOMAIN Tail(q) : 1 < k + 1 /\ k \in Nat
         /\ 1 \in DOMAIN q
    <2>1. /\ \A k \in 1 .. Len(q) - 1 : Tail(q)[k] = q[k + 1]
          /\ DOMAIN q = 1 .. Len(q) /\ DOMAIN Tail(q) = 1 .. Len(q) - 1 /\ Len(q) \in Nat /\ Len(q) > 0
      BY <1>0, <1>5, Advanced
    <2>2. \A k \in 1 .. Len(q) - 1 : k \in 1 .. Len(q) /\ k + 1 \in 1 .. Len(q) /\ 1 < k + 1 /\ k \in Nat
      BY <2>1
    <2>3. \A k \in 1 .. Len(q) : q[k] \in Slots
      BY <1>0, <2>1
    <2> QED  BY <2>1, <2>2, <2>3
  <1>11. QueueOrder'
    <2>1. ASSUME NEW j \in DOMAIN queue'["DISPLAY"], NEW k \in DOMAIN queue'["DISPLAY"], j < k
          PROVE  Sooner(queue["DISPLAY"][j], queue["DISPLAY"][k])'
      <3>1. j + 1 < k + 1
        BY <1>5, <1>10, <2>1
      <3>2. Sooner(q[j + 1], q[k + 1])
        BY <1>5, <1>8, <1>10, <2>1, <3>1 DEF QueueOrder
      <3> QED  BY <1>5, <1>9, <1>10, <2>1, <3>2
    <2>2. ASSUME NEW m \in Slots, NEW j \in Slots, InQ(m)', Show(j)' PROVE Sooner(m, j)'
      BY <1>3, <1>4, <1>8, <1>9, <2>2 DEF QueueOrder
    <2>3. ASSUME NEW j \in Slots, InQ(j)' \/ Show(j)' PROVE Sooner(i, j)'
      <3>1. CASE InQ(j)'
        <4>1. PICK k \in DOMAIN Tail(q) : Tail(q)[k] = j
          BY <1>5, <3>1 DEF InQ
        <4>2. Sooner(q[1], q[k + 1])
          BY <1>8, <1>10, <4>1 DEF QueueOrder
        <4> QED  BY <1>5, <1>9, <1>10, <4>1, <4>2
      <3>2. CASE Show(j)'
        BY <1>3, <1>4, <1>8, <1>9, <3>2 DEF QueueOrder
      <3> QED  BY <2>3, <3>1, <3>2
    <2> QED  BY <1>1, <2>1, <2>2, <2>3 DEF QueueOrder
  <1>12. \A j \in Slots : Awaited(j)' => Awaited(j)
    BY <1>1, <1>3, <1>4 DEF Awaited
  <1>13. ShownFirst'
    BY <1>1, <1>8, <1>12 DEF ShownFirst
  <1>14. DecodedOnce'
    BY <1>1, <1>2, <1>6, <1>8 DEF DecodedOnce, Writing
  <1>15. ShowOnce' /\ LastShown(ptodo, ref0.slot)'
    BY <1>1, <1>3, <1>8 DEF ShowOnce
  <1> QED  BY <1>11, <1>13, <1>14, <1>15 DEF Ordered

\* What is put into mFrames was due after all that is there and is due before all
\* that is still awaited.
LEMMA PutOrder ==
    ASSUME SlotInv, BuffersOk, OrderInv, HalPut, Types'
    PROVE  OrderInv'
  <1>0. HalRests /\ ResetSteps /\ AfterReset /\ Displays /\ hcur \in Entries
        /\ shown \in Seq(Nat) /\ coded \in Seq(PictureTypes)
    BY OrderTypes DEF SlotInv, Types, Control, Stages, HalTypes
  <1>1. /\ hpc = "put" /\ hcur' = NoSlot /\ htodo = << >> /\ htodo' = << <<"clr", hcur, "QUEUE_USE">> >>
        /\ shown' = Append(shown, pic[hcur])
        /\ UNCHANGED <<slot, queue, ref0, ppc, ptodo, pic, coded, decoded, flushDue, resetFlag>>
    BY <1>0 DEF HalPut, HalRests, slotVars, parserVars, ctrlVars
  <1>2. PICK h \in Slots : h = hcur
    BY <1>0, <1>1 DEF HalRests, Entries
  <1>3. ~Past /\ ~Past'
    BY <1>0, <1>1 DEF Past, ResetSteps, AfterReset, HalAtRest
  <1>4. /\ ShowOnce /\ QueueOrder /\ ShownFirst /\ DecodedOnce /\ LastShown(ptodo, ref0.slot)
        /\ Numbered /\ LastHeld /\ ShownOk
    BY <1>3 DEF OrderInv, Ordered
  <1>5. \A j : Show(j)' <=> Show(j)
    <2> DEFINE c == <<"clr", h, "QUEUE_USE">>
    <2>1. c \in SlotCalls /\ c[1] = "clr"
      BY DEF SlotCalls, Flags
    <2>2. htodo' = << c >>
      BY <1>1, <1>2
    <2> HIDE DEF c
    <2>3. CallsIn(<< c >>) = {c}
      BY <2>1, OneCall
    <2>4. Calls' = Calls \cup {c}
      BY <1>1, <2>2, <2>3, NoCalls DEF Calls
    <2> QED  BY <2>1, <2>4 DEF Show
  <1>6. InFlight' = InFlight
    BY FlightSame DEF OtherStep
  <1>7. Awaited(h) /\ slot[h].on_used /\ h # NoSlot
    BY <1>2, AwaitedUsed DEF Awaited, Slots, NoSlot
  <1>8. pic[h] \in decoded /\ pic[h] \in DOMAIN coded /\ coded[pic[h]] # "N"
    BY <1>0, <1>2, <1>4, <1>7 DEF DecodedOnce, Displays, Numbered
  <1>9. \A j : InQ(j)' <=> InQ(j)
    BY <1>1, QueueSame
  <1>10. \A j \in Slots : Awaited(j)' => Awaited(j)
    BY <1>1, <1>5, <1>9 DEF Awaited, Slots, NoSlot
  <1>11. ASSUME NEW j \in Slots, Awaited(j)' PROVE Sooner(h, j)
    <2>1. InQ(j) \/ Show(j) \/ (j = ref0.slot /\ ~ref0.enqueued)
      BY <1>1, <1>5, <1>9, <1>11 DEF Awaited, Slots, NoSlot
    <2>2. CASE InQ(j) \/ Show(j)
      BY <1>2, <1>4, <2>2 DEF QueueOrder
    <2>3. CASE j = ref0.slot /\ ~ref0.enqueued
      <3>1. Valid(ref0)
        BY <2>3 DEF Valid, Slots, NoSlot
      <3>2. h # ref0.slot
        BY <1>0, <1>2, <2>3, <3>1 DEF Displays, Staged
      <3> QED  BY <1>7, <2>3, <3>1, <3>2, LastSlot
    <2> QED  BY <2>1, <2>2, <2>3
  <1>12. /\ \A k \in DOMAIN shown : shown'[k] = shown[k]
         /\ \A k \in DOMAIN shown' : k \in DOMAIN shown \/ (k = Len(shown) + 1 /\ shown'[k] = pic[h])
         /\ DOMAIN shown = 1 .. Len(shown) /\ DOMAIN shown' = 1 .. Len(shown) + 1 /\ Len(shown) \in Nat
    <2>1. pic[h] \in Nat
      BY <1>8, <1>0
    <2>2. /\ \A k \in DOMAIN shown : Append(shown, pic[h])[k] = shown[k]
          /\ Append(shown, pic[h])[Len(shown) + 1] = pic[h]
          /\ DOMAIN shown = 1 .. Len(shown) /\ DOMAIN Append(shown, pic[h]) = 1 .. Len(shown) + 1
          /\ Len(shown) \in Nat
      BY <1>0, <2>1, Appended
    <2>3. \A k \in 1 .. Len(shown) + 1 : k \in 1 .. Len(shown) \/ k = Len(shown) + 1
      BY <2>2
    <2>4. shown' = Append(shown, pic[h])
      BY <1>1, <1>2
    <2> QED  BY <2>2, <2>3, <2>4
  <1>13. ShownOk'
    <2>1. \A k \in DOMAIN shown' : shown'[k] \in decoded /\ shown'[k] \in DOMAIN coded /\ coded[shown'[k]] # "N"
      BY <1>4, <1>8, <1>12 DEF ShownOk
    <2>2. ASSUME NEW j \in DOMAIN shown', NEW k \in DOMAIN shown', j < k
          PROVE  DueIn(coded, shown'[j]) < DueIn(coded, shown'[k])
      <3>1. j \in DOMAIN shown
        BY <1>12, <2>2
      <3>2. CASE k \in DOMAIN shown
        BY <1>4, <1>12, <2>2, <3>1, <3>2 DEF ShownOk
      <3>3. CASE k = Len(shown) + 1 /\ shown'[k] = pic[h]
        BY <1>4, <1>7, <1>12, <3>1, <3>3 DEF ShownFirst
      <3> QED  BY <1>12, <3>2, <3>3
    <2> QED  BY <1>1, <2>1, <2>2 DEF ShownOk
  <1>14. ShownFirst'
    <2> SUFFICES ASSUME NEW k \in DOMAIN shown', NEW j \in Slots, Awaited(j)'
                 PROVE  DueIn(coded, shown'[k]) < DueIn(coded, pic[j])
      BY <1>1 DEF ShownFirst
    <2>1. CASE k \in DOMAIN shown
      BY <1>4, <1>10, <1>12, <2>1 DEF ShownFirst
    <2>2. CASE shown'[k] = pic[h]
      BY <1>11, <2>2 DEF Sooner
    <2> QED  BY <1>12, <2>1, <2>2
  <1>15. \A m, j : Sooner(m, j)' <=> Sooner(m, j)
    BY <1>1 DEF Sooner
  <1>16. QueueOrder'
    BY <1>1, <1>4, <1>5, <1>9, <1>15 DEF QueueOrder, Slots, NoSlot
  <1>17. DecodedOnce' /\ ShowOnce' /\ LastShown(ptodo, ref0.slot)' /\ Numbered' /\ LastHeld'
    BY <1>1, <1>4, <1>5, <1>6 DEF DecodedOnce, Writing, ShowOnce, Numbered, LastHeld
  <1> QED  BY <1>13, <1>14, <1>16, <1>17 DEF Ordered, OrderInv

\* The steps that leave the display and the references alone keep the order.
LEMMA AwayOrder ==
    ASSUME SlotInv, BuffersOk, OrderInv, InFlight' = InFlight, Types',
           UNCHANGED <<queue, hcur, ref0, ptodo, htodo, pic, shown, coded, decoded, flushDue, resetFlag>>,
           ppc = "drain" => ppc' = "drain",
           \A i \in Slots : slot'[i].on_used = slot[i].on_used
    PROVE  OrderInv'
  <1>1. \A i : (Show(i)' <=> Show(i)) /\ (InQ(i)' <=> InQ(i)) /\ (Writing(i)' <=> Writing(i))
    BY DEF Show, Calls, InQ, Writing
  <1>2. \A i : Awaited(i)' <=> Awaited(i)
    BY <1>1 DEF Awaited
  <1>3. PicturesKept /\ (~Past' => ~Past)
    BY DEF PicturesKept, Past
  <1>4. ~Past' => LastShown(ptodo', ref0.slot)
    BY <1>3 DEF OrderInv, Ordered
  <1> QED  BY <1>1, <1>2, <1>3, <1>4, OrderKept

LEMMA OtherOrder ==
    ASSUME SlotInv, BuffersOk, OrderInv, Types',
           \/ HalEnd \/ TakeFrame \/ (\E b \in Buffers : GetBuffer(b)) \/ (\E b \in Buffers : ReleaseFrame(b))
           \/ UNCHANGED vars
    PROVE  OrderInv'
  <1>1. CASE HalEnd \/ TakeFrame \/ (\E b \in Buffers : ReleaseFrame(b))
    <2>1. /\ UNCHANGED <<slot, queue, hcur, ref0, ptodo, htodo, ppc>>
          /\ UNCHANGED <<pic, shown, coded, decoded, flushDue, resetFlag>>
      BY <1>1 DEF HalEnd, TakeFrame, ReleaseFrame, slotVars, parserVars, halVars, ctrlVars, histVars
    <2>2. InFlight' = InFlight
      BY <1>1, FlightSame DEF OtherStep, UserNext
    <2> QED  BY <2>1, <2>2, AwayOrder
  <1>2. ASSUME NEW b \in Buffers, GetBuffer(b) PROVE OrderInv'
    <2> DEFINE i == task.out
    <2>1. /\ task.parsed /\ SetBuffer(i, b) /\ ppc \in {"top", "check"}
          /\ UNCHANGED <<ref0, hcur, ptodo, htodo, pic, shown, coded, decoded, flushDue, resetFlag>>
      BY <1>2 DEF GetBuffer, Parsed, TryProc, halVars, ctrlVars, histVars
    <2>2. i \in Slots /\ SlotTypes /\ slot[i] \in SlotEntry
      BY <2>1, ParsedTask DEF SlotInv, Types, SlotTypes
    <2>3. OnlyEntry(i) /\ UNCHANGED queue
          /\ slot'[i] = [slot[i] EXCEPT !.buffer = b,
                                        !.frameBuf = IF slot[i].frame THEN b ELSE slot[i].frameBuf]
      BY <2>1, <2>2, SetBufferEffect
    <2>4. slot'[i].on_used = slot[i].on_used
      BY <2>2, <2>3, ZenonT(60) DEF SlotEntry
    <2>5. \A j \in Slots : slot'[j].on_used = slot[j].on_used
      BY <2>3, <2>4 DEF OnlyEntry
    <2>6. InFlight' = InFlight
      BY <1>2, FlightSame DEF OtherStep
    <2> QED  BY <2>1, <2>3, <2>5, <2>6, AwayOrder
  <1>3. CASE UNCHANGED vars
    <2>1. /\ UNCHANGED <<slot, queue, hcur, ref0, ptodo, htodo, ppc, task, procQ>>
          /\ UNCHANGED <<pic, shown, coded, decoded, flushDue, resetFlag>>
      BY <1>3 DEF vars, slotVars, parserVars, halVars, ctrlVars, histVars
    <2>2. InFlight' = InFlight
      BY <2>1 DEF InFlight, Sent, Waiting
    <2> QED  BY <2>1, <2>2, AwayOrder
  <1> QED  BY <1>1, <1>2, <1>3

\* A reset throws the references away, and shows nothing.
LEMMA ResetOrder ==
    ASSUME SlotInv, BuffersOk, OrderInv, Types', ResetParser \/ ResetDone \/ \E i \in Slots : ResetDrain(i)
    PROVE  OrderInv'
  <1>0. Types /\ ResetSteps
    BY DEF SlotInv, Control
  <1>1. CASE ResetParser
    <2>1. UNCHANGED <<slot, pic, shown, coded, decoded>> /\ ref0' = NoRef /\ ppc' = "drain"
      BY <1>1 DEF ResetParser, slotVars, histVars
    <2> QED  BY <1>0, <2>1, PastOrder DEF PicturesKept, Past
  <1>2. CASE ResetDone
    <2>1. /\ UNCHANGED <<slot, pic, shown, coded, decoded, ref0, flushDue>>
          /\ resetFlag' = FALSE /\ ppc = "drain"
      BY <1>2 DEF ResetDone, slotVars, histVars
    <2>2. flushDue' /\ ~resetFlag'
      BY <1>0, <2>1 DEF ResetSteps
    <2> QED  BY <1>0, <2>1, <2>2, PastOrder DEF PicturesKept, Past
  <1>3. ASSUME NEW i \in Slots, ResetDrain(i) PROVE OrderInv'
    <2>1. UNCHANGED <<pic, shown, coded, decoded, ref0>> /\ ppc' = "drain" /\ Dequeue(i, "DISPLAY")
      BY <1>3 DEF ResetDrain
    <2>2. OnlyEntry(i) /\ slot'[i].on_used = slot[i].on_used
      BY <2>1, DequeueFacts
    <2>3. \A j \in Slots : slot'[j].on_used = slot[j].on_used
      BY <2>2 DEF OnlyEntry
    <2> QED  BY <1>0, <2>1, <2>3, PastOrder DEF PicturesKept, Past
  <1> QED  BY <1>1, <1>2, <1>3

\* When Mpp::reset returns there is nothing to show.
LEMMA FlushedOrder ==
    ASSUME SlotInv, Emptied, UserFlush
    PROVE  OrderInv'
  <1>0. AfterReset /\ ParserRests /\ HalRests
    BY DEF SlotInv, Control
  <1>1. /\ coded' = << >> /\ shown' = << >> /\ flushDue /\ ~resetFlag
        /\ UNCHANGED <<slot, queue, ref0, hcur, ptodo>>
    BY DEF UserFlush, parserVars, halVars
  <1>2. /\ Calls' = {} /\ InFlight' = {} /\ \A i \in Slots : ~slot[i].on_used
    BY FlushRests
  <1>3. ref0 = NoRef /\ hcur = NoSlot /\ ptodo = << >> /\ queue["DISPLAY"] = << >>
    BY <1>0, <1>1 DEF AfterReset, ParserRests, HalRests, HalAtRest, Emptied
  <1>4. \A i \in Slots : ~Show(i)' /\ ~InQ(i)' /\ hcur' # i /\ ref0'.slot # i
    BY <1>1, <1>2, <1>3 DEF Show, InQ, NoRef, Slots, NoSlot
  <1>5. Numbered' /\ LastHeld' /\ ShownOk' /\ DecodedOnce' /\ ShowOnce'
    BY <1>1, <1>2, <1>3, <1>4 DEF Numbered, LastHeld, ShownOk, DecodedOnce, ShowOnce, Valid, NoRef
  <1>6. QueueOrder' /\ ShownFirst'
    BY <1>1, <1>3, <1>4 DEF QueueOrder, ShownFirst
  <1>7. LastShown(ptodo, ref0.slot)'
    BY <1>1, <1>3 DEF LastShown
  <1> QED  BY <1>5, <1>6, <1>7 DEF OrderInv, Ordered

\* A new picture of the stream is due after every other one, but that a B picture
\* comes before the last reference.
LEMMA NewDue ==
    ASSUME NEW s \in Seq(PictureTypes), NEW t \in PictureTypes, t # "N",
           NEW n \in DOMAIN s, s[n] # "N", t = "B" => ~LastIn(s, n)
    PROVE  DueIn(Append(s, t), n) < DueIn(Append(s, t), Len(s) + 1)
  <1> DEFINE z == Append(s, t)
             p == Len(s) + 1
  <1>1. /\ z \in Seq(PictureTypes) /\ n \in DOMAIN z /\ z[n] = s[n] /\ p \in DOMAIN z /\ n # p
        /\ n <= Len(s) /\ Len(s) \in Nat
    OBVIOUS
  <1>2. CASE t = "B"
    <2>1. DueIn(z, n) = DueIn(s, n) /\ DueIn(z, p) = p
      BY <1>2, DueAppend, DueNew
    <2>2. DueIn(s, n) <= Len(s) /\ DueIn(s, n) \in Nat
      BY <1>2, DueBounds
    <2> QED  BY <1>1, <2>1, <2>2
  <1>3. CASE t # "B"
    <2>1. LastIn(z, p)
      BY <1>3, DueNew DEF PictureTypes, RefTypes
    <2> HIDE DEF z, p
    <2> QED  BY <1>1, <2>1, LastDue DEF z, p
  <1> QED  BY <1>2, <1>3

\* Of the calls for a new picture, the one that queues the last reference is the last.
LEMMA ParseShows ==
    ASSUME SlotInv, NEW type \in {"I", "P", "B"}, NEW size \in Infos, NEW eos \in BOOLEAN,
           NEW i \in Slots, ParseAs(type, size, eos, i), i # ref0.slot, i # ref1.slot
    PROVE  LastShown(ptodo', ParseLast(type, size, i).slot)
  <1> DEFINE last == ParseLast(type, size, i)
             s0 == << <<"set", i, "HAL_OUTPUT">>, <<"frame", i, size>> >>
             a == s0 \o Refer(ref0) \o Refer(ref1) \o UpdateDpb(type, i)
             b == If(eos, FlushCalls(last))
  <1>0. ref0 \in Refs /\ ref1 \in Refs /\ RefsDiffer
    BY DEF SlotInv, Types, ParserTypes, OnTheWay
  <1>1. last \in Refs /\ last = (IF type = "B" THEN ref0 ELSE [slot |-> i, enqueued |-> FALSE, size |-> size])
    BY <1>0 DEF ParseLast, Refs, Entries
  <1>2. ptodo' = a \o b
    BY DEF ParseAs, ParseLast
  <1>3. a \in Seq(SlotCalls)
    <2>1. s0 \in Seq(SlotCalls)
      <3>1. <<"set", i, "HAL_OUTPUT">> \in SlotCalls /\ <<"frame", i, size>> \in SlotCalls
        BY DEF SlotCalls, Flags
      <3> QED  BY <3>1
    <2>2. Refer(ref0) \in Seq(SlotCalls) /\ Refer(ref1) \in Seq(SlotCalls)
      BY <1>0, ReferLists DEF Lists
    <2>3. UpdateDpb(type, i) \in Seq(SlotCalls)
      BY <1>0, UpdateLists DEF Lists
    <2> HIDE DEF s0
    <2> QED  BY <2>1, <2>2, <2>3
  <1>4. CallsIn(a) = {<<"set", i, "HAL_OUTPUT">>, <<"frame", i, size>>} \cup ReferSet(ref0) \cup ReferSet(ref1)
                       \cup UpdateSet(type, i)
    <2>1. Lists(ParseCalls(type, size, FALSE, i, last), ParseSet(type, size, FALSE, i, last))
      BY <1>0, <1>1, ParseLists
    <2>2. ParseCalls(type, size, FALSE, i, last) = a \o << >>
      BY DEF ParseCalls, If
    <2>3. a \o << >> = a
      BY <1>3
    <2>4. CallsIn(a) = ParseSet(type, size, FALSE, i, last)
      BY <2>1, <2>2, <2>3 DEF Lists
    <2> QED  BY <2>4 DEF ParseSet
  <1>5. b \in Seq(SlotCalls) /\ LastShown(b, last.slot)
    <2>1. FlushCalls(last) \in Seq(SlotCalls) /\ LastShown(FlushCalls(last), last.slot)
      BY <1>1, FlushShows
    <2> QED  BY <2>1, NoShowsLast DEF If, NoShows
  <1>6. <<"enqueue", last.slot, "DISPLAY">> \notin CallsIn(a)
    <2> DEFINE c == <<"enqueue", last.slot, "DISPLAY">>
    <2>1. c[1] = "enqueue" /\ c[2] = last.slot
      OBVIOUS
    <2>2. last.slot = ref0.slot \/ last.slot = i
      BY <1>1
    <2>3. ASSUME NEW d \in CallsIn(a), d[1] = "enqueue"
          PROVE  IF type = "B" THEN d[2] = i ELSE d[2] = ref0.slot
      BY <1>4, <2>3 DEF ReferSet, UpdateSet, ShowSet, FlushSet, UnrefSet
    <2> HIDE DEF c, a, last
    <2>4. ASSUME c \in CallsIn(a) PROVE FALSE
      <3>1. CASE type = "B"
        BY <1>1, <2>1, <2>3, <2>4, <3>1
      <3>2. CASE type # "B"
        BY <1>1, <2>1, <2>3, <2>4, <3>2
      <3> QED  BY <3>1, <3>2
    <2> QED  BY <2>4 DEF c
  <1> HIDE DEF a, b, last
  <1>7. \A k \in DOMAIN a : a[k] # <<"enqueue", last.slot, "DISPLAY">>
    BY <1>6 DEF CallsIn
  <1>8. LastShown(a, last.slot)
    BY <1>7 DEF LastShown
  <1>9. LastShown(a \o b, last.slot)
    BY <1>3, <1>5, <1>7, <1>8, LastShownJoin
  <1> QED  BY <1>2, <1>9 DEF last

\* What a new picture in entry i does to the order of the entries: all others are due
\* before it, but that a B picture is due before the last reference, which waits.
LEMMA ParseDue ==
    ASSUME SlotInv, BuffersOk, GeometryInv, OrderInv,
           NEW type \in {"I", "P", "B"}, NEW size \in Infos, NEW eos \in BOOLEAN,
           NEW i \in Slots, ParseFacts(type, size, eos, i)
    PROVE  /\ type = "B" => Flushes /\ Sooner(i, ref0.slot)'
           /\ \A j \in Slots : j # i /\ slot[j].on_used /\ (type = "B" => j # ref0.slot) => Sooner(j, i)'
           /\ \A j, k \in Slots : j # i /\ k # i /\ slot[j].on_used /\ slot[k].on_used /\ Sooner(j, k)
                                     => Sooner(j, k)'
           /\ \A n, m \in DOMAIN coded : coded[n] # "N" /\ coded[m] # "N" /\ DueIn(coded, n) < DueIn(coded, m)
                                            => DueIn(coded', n) < DueIn(coded', m)
  <1> DEFINE p == Len(coded) + 1
  <1>0. /\ coded \in Seq(PictureTypes) /\ pic \in [Slots -> Nat] /\ type \in PictureTypes /\ type # "N"
        /\ Numbered /\ LastHeld /\ i # ref0.slot
    BY OrderTypes, ParseNewEntry DEF SlotInv, OrderInv, PictureTypes
  <1>1. /\ coded' = Append(coded, type) /\ pic'[i] = p /\ \A j \in Slots : j # i => pic'[j] = pic[j]
        /\ ~gotEos /\ ~flushDue /\ Decodable(type, size)
    BY <1>0 DEF ParseFacts
  <1>2. ASSUME NEW n \in DOMAIN coded, NEW m \in DOMAIN coded, coded[n] # "N", coded[m] # "N",
               DueIn(coded, n) < DueIn(coded, m)
        PROVE  DueIn(coded', n) < DueIn(coded', m)
    BY <1>0, <1>1, <1>2, DueKept
  <1>3. ASSUME NEW j \in Slots, NEW k \in Slots, j # i, k # i, slot[j].on_used, slot[k].on_used, Sooner(j, k)
        PROVE  Sooner(j, k)'
    BY <1>0, <1>1, <1>2, <1>3 DEF Sooner, Numbered
  <1>4. ASSUME type = "B" PROVE Flushes /\ Valid(ref0)
    <2>1. OneSize
      BY <1>1, <1>4 DEF Decodable, OneSize
    <2> QED  BY <1>1, <2>1 DEF GeometryInv, HeldBack, OneSize, Flushes
  <1>5. ASSUME type = "B" PROVE Sooner(i, ref0.slot)'
    <2>1. ref0.slot \in Slots /\ slot[ref0.slot].on_used
      BY <1>4, <1>5, RefUsed
    <2> DEFINE n == pic[ref0.slot]
    <2>2. n \in DOMAIN coded /\ coded[n] # "N" /\ LastIn(coded, n)
      BY <1>0, <1>4, <1>5, <2>1 DEF Numbered, LastHeld
    <2>3. DueIn(coded', n) = Len(coded) + 2 /\ DueIn(coded', p) = p
      BY <1>0, <1>1, <1>5, <2>2, DueAppend, DueNew DEF RefTypes
    <2>4. pic'[ref0'.slot] = n
      <3>1. ref0'.slot = ref0.slot
        <4>1. ref0' = (IF eos THEN Flushed(ref0) ELSE ref0) /\ ref0 \in Refs
          BY <1>5 DEF ParseFacts, ParseLast, SlotInv, Types, ParserTypes
        <4> QED  BY <4>1, FlushedTypes
      <3> QED  BY <1>0, <1>1, <2>1, <3>1
    <2> HIDE DEF n
    <2>5. Len(coded) \in Nat
      BY <1>0
    <2> QED  BY <1>1, <2>3, <2>4, <2>5 DEF Sooner
  <1>6. ASSUME NEW j \in Slots, j # i, slot[j].on_used, type = "B" => j # ref0.slot
        PROVE  Sooner(j, i)'
    <2> DEFINE n == pic[j]
    <2>1. n \in DOMAIN coded /\ coded[n] # "N"
      BY <1>0, <1>6 DEF Numbered
    <2>2. type = "B" => ~LastIn(coded, n)
      BY <1>4, <1>6, LastSlot
    <2> HIDE DEF n
    <2>3. DueIn(coded', n) < DueIn(coded', p)
      BY <1>0, <1>1, <2>1, <2>2, NewDue
    <2> QED  BY <1>1, <1>6, <2>3 DEF Sooner, n
  <1> QED  BY <1>2, <1>3, <1>4, <1>5, <1>6

\* A new picture keeps the order.
LEMMA ParseOrder ==
    ASSUME SlotInv, BuffersOk, GeometryInv, OrderInv,
           NEW type \in {"I", "P", "B"}, NEW size \in Infos, NEW eos \in BOOLEAN, Parse(type, size, eos)
    PROVE  OrderInv'
  <1>1. PICK i \in Slots : ParseAs(type, size, eos, i)
    BY DEF Parse
  <1>2. ParseFacts(type, size, eos, i)
    BY <1>1, ParseEffect
  <1> DEFINE last == ParseLast(type, size, i)
             p == Len(coded) + 1
  <1>0. /\ coded \in Seq(PictureTypes) /\ shown \in Seq(Nat) /\ pic \in [Slots -> Nat] /\ SlotTypes /\ ref0 \in Refs
        /\ slot[i] \in SlotEntry /\ Displays /\ type \in PictureTypes /\ type # "N"
        /\ i # ref0.slot /\ i # ref1.slot /\ ~InQ(i) /\ hcur # i /\ i # NoSlot
    <2>1. SlotTypes /\ ref0 \in Refs /\ Displays /\ Types
      BY DEF SlotInv, Types, ParserTypes, Stages
    <2>2. i # ref0.slot /\ i # ref1.slot /\ ~InQ(i) /\ hcur # i
      BY <1>2, ParseNewEntry
    <2>3. type \in PictureTypes /\ type # "N" /\ i # NoSlot /\ slot[i] \in SlotEntry
      BY <2>1 DEF PictureTypes, Slots, NoSlot, SlotTypes
    <2> QED  BY <2>1, <2>2, <2>3, OrderTypes
  <1>3. /\ GetUnused(i) /\ last \in Refs /\ ppc = "top" /\ ppc' = "check" /\ ~flushDue /\ ~flushDue'
        /\ ref0' = IF eos THEN Flushed(last) ELSE last
        /\ coded' = Append(coded, type) /\ pic'[i] = p /\ (\A j \in Slots : j # i => pic'[j] = pic[j])
        /\ UNCHANGED <<hcur, shown, decoded>>
    BY <1>0, <1>2 DEF ParseFacts, halVars, ctrlVars
  <1>4. /\ type = "B" => last = ref0
        /\ type # "B" => last.slot = i /\ last.enqueued = FALSE
    BY DEF ParseLast
  <1>a. LastShown(ptodo', last.slot)
    BY <1>0, <1>1, ParseShows
  <1> HIDE DEF last
  <1>5. ref0'.slot = last.slot /\ (ref0'.enqueued <=> last.enqueued \/ (eos /\ Valid(last)))
    BY <1>3, FlushedTypes DEF Refs
  <1>6. ~Past /\ ~Past'
    BY <1>3 DEF Past
  <1>7. Numbered /\ LastHeld /\ ShownOk /\ ShowOnce /\ QueueOrder /\ ShownFirst /\ DecodedOnce
    BY <1>6 DEF OrderInv, Ordered
  <1>8. /\ UNCHANGED queue /\ ~slot[i].on_used
        /\ \A j \in Slots : j # i => slot'[j].on_used = slot[j].on_used
    BY <1>0, <1>3, GetUnusedEffect DEF OnlyEntry
  <1>9. ASSUME NEW j \in Slots
        PROVE  ~Show(j) /\ (Show(j)' <=> (ShowsLast(type, eos) /\ j = ref0.slot) \/ (ShowsNew(type, eos) /\ j = i))
    BY <1>2, ParseMarks
  <1>10. \A j : (InQ(j)' <=> InQ(j)) /\ (Writing(j)' <=> Writing(j) \/ j = i)
    BY <1>2, <1>8, QueueSame, FlightParse DEF Writing
  <1>11. /\ type = "B" => Flushes /\ Sooner(i, ref0.slot)'
         /\ \A j \in Slots : j # i /\ slot[j].on_used /\ (type = "B" => j # ref0.slot) => Sooner(j, i)'
         /\ \A j, k \in Slots : j # i /\ k # i /\ slot[j].on_used /\ slot[k].on_used /\ Sooner(j, k) => Sooner(j, k)'
         /\ \A n, m \in DOMAIN coded : coded[n] # "N" /\ coded[m] # "N" /\ DueIn(coded, n) < DueIn(coded, m)
                                            => DueIn(coded', n) < DueIn(coded', m)
    BY <1>2, ParseDue
  <1>12. /\ \A n \in DOMAIN coded : n \in DOMAIN coded' /\ coded'[n] = coded[n]
         /\ p \in DOMAIN coded' /\ coded'[p] = type
    BY <1>0, <1>3
  <1>13. \A j \in Slots : InQ(j) \/ hcur = j => slot[j].on_used /\ j # i
    BY <1>0, AwaitedUsed DEF Awaited
  <1>14. Flushes => Valid(ref0) /\ ~Staged(ref0.slot)
    BY <1>0 DEF Displays, Flushes
  <1>15. Numbered'
    <2> SUFFICES ASSUME NEW j \in Slots, slot'[j].on_used
                 PROVE  pic'[j] \in DOMAIN coded' /\ coded'[pic'[j]] # "N"
      BY DEF Numbered
    <2>1. CASE j = i
      BY <1>0, <1>3, <1>12, <2>1
    <2>2. CASE j # i
      BY <1>3, <1>7, <1>8, <1>12, <2>2 DEF Numbered
    <2> QED  BY <2>1, <2>2
  <1>16. LastHeld'
    <2> SUFFICES ASSUME Valid(ref0)' PROVE LastIn(coded', pic'[ref0'.slot])
      BY DEF LastHeld
    <2>1. CASE type = "B"
      <3>1. ref0'.slot = ref0.slot /\ Valid(ref0)
        BY <1>4, <1>5, <2>1 DEF Valid
      <3>2. ref0.slot \in Slots /\ pic'[ref0.slot] = pic[ref0.slot] /\ LastIn(coded, pic[ref0.slot])
        BY <1>0, <1>3, <1>7, <3>1, RefUsed DEF LastHeld
      <3>3. pic[ref0.slot] \in DOMAIN coded /\ coded[pic[ref0.slot]] # "N"
        BY <3>2 DEF LastIn, RefTypes
      <3>4. LastIn(coded', pic[ref0.slot])
        BY <1>0, <1>3, <2>1, <3>2, <3>3, DueAppend DEF RefTypes
      <3> QED  BY <3>1, <3>2, <3>4
    <2>2. CASE type # "B"
      <3>1. LastIn(coded', p)
        BY <1>0, <1>3, <2>2, DueNew DEF RefTypes
      <3> QED  BY <1>3, <1>4, <1>5, <2>2, <3>1
    <2> QED  BY <2>1, <2>2
  <1>17. ShownOk'
    <2>1. \A k \in DOMAIN shown : shown[k] \in decoded /\ shown[k] \in DOMAIN coded' /\ coded'[shown[k]] # "N"
      BY <1>7, <1>12 DEF ShownOk
    <2>2. \A j, k \in DOMAIN shown : j < k => DueIn(coded', shown[j]) < DueIn(coded', shown[k])
      BY <1>7, <1>11 DEF ShownOk
    <2> QED  BY <1>3, <2>1, <2>2 DEF ShownOk
  <1>18. ShowOnce'
    BY <1>4, <1>5, <1>9 DEF ShowOnce
  <1>19. ASSUME NEW j \in Slots, NEW k \in Slots, InQ(j) \/ hcur = j, Show(k)' PROVE Sooner(j, k)'
    <2>0. Staged(j)
      BY <1>19 DEF Staged
    <2>1. CASE k = i
      <3>1. type = "B" => j # ref0.slot
        BY <1>11, <1>14, <2>0
      <3> QED  BY <1>11, <1>13, <1>19, <2>1, <3>1
    <2>2. CASE k # i
      <3>1. k = ref0.slot /\ Flushes
        BY <1>9, <1>19, <2>2 DEF ShowsLast
      <3>2. j # ref0.slot /\ Valid(ref0) /\ slot[ref0.slot].on_used
        BY <1>14, <2>0, <3>1, RefUsed
      <3>3. Sooner(j, ref0.slot)
        BY <1>13, <1>19, <3>2, LastSlot
      <3> QED  BY <1>11, <1>13, <1>19, <2>2, <3>1, <3>2, <3>3
    <2> QED  BY <2>1, <2>2
  <1>20. QueueOrder'
    <2> DEFINE q == queue["DISPLAY"]
    <2>1. ASSUME NEW j \in DOMAIN q, NEW k \in DOMAIN q, j < k PROVE Sooner(q[j], q[k])'
      <3>1. q \in Seq(Slots)
        BY OrderTypes DEF SlotInv
      <3>2. /\ q[j] \in Slots /\ q[k] \in Slots /\ InQ(q[j]) /\ InQ(q[k]) /\ Sooner(q[j], q[k])
        BY <1>7, <2>1, <3>1 DEF InQ, QueueOrder
      <3>3. q[j] # i /\ q[k] # i /\ slot[q[j]].on_used /\ slot[q[k]].on_used
        BY <1>13, <3>2
      <3>4. \A a, b \in Slots : a # i /\ b # i /\ slot[a].on_used /\ slot[b].on_used /\ Sooner(a, b)
                                 => Sooner(a, b)'
        BY <1>11
      <3> QED  BY <1>8, <3>2, <3>3, <3>4
    <2>2. ASSUME NEW j \in Slots, NEW k \in Slots, hcur = j, InQ(k) PROVE Sooner(j, k)'
      <3>1. Sooner(j, k)
        BY <1>7, <2>2 DEF QueueOrder
      <3> QED  BY <1>11, <1>13, <2>2, <3>1
    <2> QED  BY <1>3, <1>8, <1>10, <1>19, <2>1, <2>2 DEF QueueOrder
  <1>21. ASSUME NEW j \in Slots, j # i, Awaited(j)' PROVE Awaited(j) /\ slot[j].on_used
    <2>1. Awaited(j)
      <3>1. CASE type = "B"
        BY <1>3, <1>4, <1>5, <1>9, <1>10, <1>21, <3>1 DEF Awaited, ShowsLast, Flushes
      <3>2. CASE type # "B"
        BY <1>3, <1>4, <1>5, <1>9, <1>10, <1>21, <3>2 DEF Awaited, ShowsLast, Flushes
      <3> QED  BY <3>1, <3>2
    <2> QED  BY <2>1, AwaitedUsed
  <1>22. ShownFirst'
    <2> SUFFICES ASSUME NEW k \in DOMAIN shown, NEW j \in Slots, Awaited(j)'
                 PROVE  DueIn(coded', shown[k]) < DueIn(coded', pic'[j])
      BY <1>3 DEF ShownFirst
    <2> DEFINE n == shown[k]
    <2>1. n \in DOMAIN coded /\ coded[n] # "N"
      BY <1>7 DEF ShownOk
    <2>2. CASE j # i
      <3>1. Awaited(j) /\ slot[j].on_used
        BY <1>21, <2>2
      <3>2. DueIn(coded, n) < DueIn(coded, pic[j]) /\ pic[j] \in DOMAIN coded /\ coded[pic[j]] # "N"
        BY <1>7, <3>1 DEF ShownFirst, Numbered
      <3> QED  BY <1>3, <1>11, <2>1, <2>2, <3>2
    <2>3. CASE j = i
      <3>1. ASSUME type = "B" PROVE ~LastIn(coded, n)
        <4>1. Valid(ref0) /\ ~ref0.enqueued
          BY <1>11, <3>1 DEF Flushes
        <4>2. ref0.slot \in Slots /\ LastIn(coded, pic[ref0.slot])
          BY <1>7, <4>1, RefUsed DEF LastHeld
        <4>3. DueIn(coded, n) < DueIn(coded, pic[ref0.slot])
          BY <1>7, <4>1, <4>2 DEF ShownFirst, Awaited
        <4>4. n # pic[ref0.slot]
          <5>1. DueIn(coded, n) \in Nat
            BY <1>0, <2>1, DueBounds
          <5> QED  BY <4>3, <5>1
        <4> QED  BY <1>0, <4>2, <4>4, LastOnce
      <3> HIDE DEF n
      <3>2. DueIn(coded', n) < DueIn(coded', p)
        BY <1>0, <1>3, <2>1, <3>1, NewDue
      <3> QED  BY <1>3, <2>3, <3>2 DEF n
    <2> QED  BY <2>2, <2>3
  <1>23. DecodedOnce'
    <2> SUFFICES ASSUME NEW j \in Slots, slot'[j].on_used, ~Writing(j)' PROVE pic'[j] \in decoded
      BY <1>3 DEF DecodedOnce
    <2>1. j # i /\ ~Writing(j) /\ slot[j].on_used /\ pic'[j] = pic[j]
      BY <1>3, <1>8, <1>10
    <2> QED  BY <1>7, <2>1 DEF DecodedOnce
  <1>24. LastShown(ptodo, ref0.slot)'
    BY <1>5, <1>a
  <1> QED  BY <1>15, <1>16, <1>17, <1>18, <1>20, <1>22, <1>23, <1>24 DEF OrderInv, Ordered

\* Every step keeps the order of the display.
LEMMA OrderStep == ASSUME SlotInv, BufferInv, GeometryInv, OrderInv, [Next]_vars PROVE OrderInv'
  <1>0. Types' /\ BuffersOk /\ Emptied
    BY SlotInvStep DEF SlotInv, BufferInv
  <1>1. CASE Next
    <2>1. \/ StillStep
          \/ HalTake \/ HalReset \/ PrepareEos \/ ParserCall \/ HalCall
          \/ (\E i \in Slots : HalDequeue(i)) \/ (\E i \in Slots : ResetDrain(i))
          \/ (\E b \in Buffers : GetBuffer(b)) \/ (\E b \in Buffers : ReleaseFrame(b))
          \/ HalPut \/ HalEnd \/ HwDone \/ ResetParser \/ ResetDone \/ TakeFrame \/ UserFlush
          \/ \E type \in {"I", "P", "B"}, size \in Infos, eos \in BOOLEAN : Parse(type, size, eos)
      BY <1>1 DEF Next, ParserNext, HalNext, UserNext, StillStep
    <2>2. CASE StillStep
      BY <1>0, <2>2, StillOrder
    <2>3. CASE HalTake \/ HalReset \/ PrepareEos
      BY <1>0, <2>3, FlushOrder
    <2>4. CASE ParserCall \/ HalCall
      <3>1. PICK c \in SlotCalls : MadeCall(c)
        BY <2>4, CallStep
      <3> QED  BY <1>0, <2>4, <3>1, QuietOrder, JoinOrder
    <2>5. CASE (\E i \in Slots : HalDequeue(i)) \/ HalPut \/ HwDone
      BY <1>0, <2>5, TakenOrder, PutOrder, DoneOrder
    <2>6. CASE ResetParser \/ ResetDone \/ \E i \in Slots : ResetDrain(i)
      BY <1>0, <2>6, ResetOrder
    <2>7. CASE \/ HalEnd \/ TakeFrame \/ (\E b \in Buffers : GetBuffer(b))
               \/ \E b \in Buffers : ReleaseFrame(b)
      BY <1>0, <2>7, OtherOrder
    <2>8. CASE UserFlush
      BY <1>0, <2>8, FlushedOrder
    <2>9. CASE \E type \in {"I", "P", "B"}, size \in Infos, eos \in BOOLEAN : Parse(type, size, eos)
      BY <1>0, <2>9, ParseOrder
    <2> QED  BY <2>1, <2>2, <2>3, <2>4, <2>5, <2>6, <2>7, <2>8, <2>9
  <1>2. CASE UNCHANGED vars
    BY <1>0, <1>2, OtherOrder
  <1> QED  BY <1>1, <1>2

LEMMA OrderInit == ASSUME Init PROVE OrderInv
  <1>1. /\ coded = << >> /\ shown = << >> /\ ref0 = NoRef /\ hcur = NoSlot /\ ptodo = << >> /\ htodo = << >>
        /\ queue["DISPLAY"] = << >> /\ \A i \in Slots : ~slot[i].on_used
    BY DEF Init, SlotsInit, QueueTypes, EmptyEntry
  <1>2. \A i : ~Show(i) /\ ~InQ(i)
    BY <1>1, NoCalls DEF Show, Calls, InQ
  <1>3. \A i \in Slots : hcur # i /\ ref0.slot # i
    BY <1>1 DEF NoRef, Slots, NoSlot
  <1>4. Numbered /\ LastHeld /\ ShownOk /\ DecodedOnce /\ ShowOnce
    BY <1>1, <1>2 DEF Numbered, LastHeld, ShownOk, DecodedOnce, ShowOnce, Valid, NoRef
  <1>5. QueueOrder /\ ShownFirst /\ LastShown(ptodo, ref0.slot)
    BY <1>1, <1>2, <1>3 DEF QueueOrder, ShownFirst, LastShown
  <1> QED  BY <1>4, <1>5 DEF OrderInv, Ordered

\* In every behaviour what is put into mFrames is in the order of the display.
LEMMA OrderAlways == Spec => [](SlotInv /\ BufferInv /\ GeometryInv /\ OrderInv)
  <1>1. Init => SlotInv /\ BufferInv /\ GeometryInv /\ OrderInv
    BY SlotInvInit, BufferInvInit, GeometryInit, OrderInit
  <1>2. SlotInv /\ BufferInv /\ GeometryInv /\ OrderInv /\ [Next]_vars
          => (SlotInv /\ BufferInv /\ GeometryInv /\ OrderInv)'
    BY SlotInvStep, BuffersStep, EmptiedStep, GeometryStep, OrderStep DEF BufferInv
  <1> QED  BY <1>1, <1>2, PTL DEF Spec

\* Pictures are put into mFrames in display order, each at most once and only when
\* the hardware has finished it, although the parser thread queues some of them and
\* the hal thread others.
THEOREM ShowsInOrder == Spec => []ShownInOrder
  <1>1. SlotInv /\ OrderInv => ShownInOrder
    <2> SUFFICES ASSUME SlotInv, OrderInv PROVE ShownInOrder
      OBVIOUS
    <2>1. ShownOk /\ shown \in Seq(Nat)
      BY OrderTypes DEF OrderInv, SlotInv
    <2>2. ASSUME NEW k \in 1 .. Len(shown) - 1 PROVE Due(shown[k]) < Due(shown[k + 1])
      <3>1. k \in DOMAIN shown /\ k + 1 \in DOMAIN shown /\ k < k + 1
        BY <2>1
      <3> QED  BY <2>1, <3>1, DueIs DEF ShownOk
    <2> QED  BY <2>1, <2>2 DEF ShownInOrder, ShownOk
  <1> QED  BY <1>1, OrderAlways, PTL

-----------------------------------------------------------------------------
(* The end of the stream *)

IsShown(n) == \E k \in DOMAIN shown : shown[k] = n

\* Every picture parsed is shown or on its way to the display, until a reset throws
\* some away.
Undropped == ~Past => dropped = {}
Met == ~Past => \A n \in DOMAIN coded :
         coded[n] = "N" \/ IsShown(n) \/ \E i \in Slots : Awaited(i) /\ pic[i] = n

\* After the end of the stream the parser keeps no reference back, the hal task that
\* ends it is the last one, and its flag is known to the parser thread.
NothingBack == gotEos /\ Valid(ref0) => ref0.enqueued
EosLast(q) == \A k \in DOMAIN q : /\ q[k].kind = "eos" => q[k].eos
                                  /\ q[k].eos => k = Len(q)
EosTasks == EosLast(procQ) /\ (hal.kind = "eos" => hal.eos)
EosKnown == eosSent > 0 => gotEos \/ flushDue

EosInv == Undropped /\ Met /\ NothingBack /\ EosTasks /\ EosKnown /\ EosAfterAllFrames

\* A task is sent while no other ends the stream; the first task leaves.
LEMMA EosAppend ==
    ASSUME NEW q \in Seq(HalJobs), NEW t \in HalJobs, EosLast(q), \A k \in DOMAIN q : ~q[k].eos,
           t.kind = "eos" => t.eos
    PROVE  EosLast(Append(q, t))
  <1> DEFINE p == Append(q, t)
  <1>1. /\ Len(p) = Len(q) + 1 /\ p[Len(q) + 1] = t /\ Len(q) \in Nat /\ DOMAIN p = 1 .. Len(q) + 1
        /\ \A k \in 1 .. Len(q) : p[k] = q[k] /\ k \in DOMAIN q
    OBVIOUS
  <1> HIDE DEF p
  <1> SUFFICES ASSUME NEW k \in DOMAIN p
               PROVE  (p[k].kind = "eos" => p[k].eos) /\ (p[k].eos => k = Len(p))
    BY DEF EosLast, p
  <1>2. CASE k = Len(q) + 1
    BY <1>1, <1>2
  <1>3. CASE k # Len(q) + 1
    <2>1. k \in 1 .. Len(q)
      BY <1>1, <1>3
    <2> QED  BY <1>1, <2>1 DEF EosLast
  <1> QED  BY <1>2, <1>3

LEMMA EosTail ==
    ASSUME NEW q \in Seq(HalJobs), EosLast(q), q # << >>
    PROVE  EosLast(Tail(q)) /\ (Head(q).kind = "eos" => Head(q).eos)
           /\ (Head(q).eos => Len(q) = 1)
  <1> DEFINE p == Tail(q)
  <1>1. /\ Len(p) = Len(q) - 1 /\ Len(q) \in Nat /\ DOMAIN p = 1 .. Len(q) - 1 /\ DOMAIN q = 1 .. Len(q)
        /\ Head(q) = q[1] /\ Len(q) > 0 /\ \A k \in 1 .. Len(q) - 1 : p[k] = q[k + 1]
    BY Advanced
  <1> HIDE DEF p
  <1>2. 1 \in DOMAIN q
    BY <1>1
  <1>3. ASSUME NEW k \in DOMAIN p
        PROVE  (p[k].kind = "eos" => p[k].eos) /\ (p[k].eos => k = Len(p))
    <2>1. k + 1 \in DOMAIN q /\ p[k] = q[k + 1] /\ k \in Int
      BY <1>1
    <2>2. (q[k + 1].kind = "eos" => q[k + 1].eos) /\ (q[k + 1].eos => k + 1 = Len(q))
      BY <2>1 DEF EosLast
    <2> QED  BY <1>1, <2>1, <2>2
  <1> QED  BY <1>1, <1>2, <1>3 DEF EosLast, p

\* A step that ends the stream flushes the parser, unless the packet with the flag is
\* skipped; no other step lets the parser keep a reference back.
LEMMA NothingBackStep ==
    ASSUME SlotInv, NothingBack, [Next]_vars, "skipped" \notin EosKinds
    PROVE  NothingBack'
  <1>0. ref0 \in Refs
    BY DEF SlotInv, Types, ParserTypes
  <1>1. ASSUME NEW type \in {"I", "P", "B"}, NEW size \in Infos, NEW eos \in BOOLEAN, Parse(type, size, eos)
        PROVE  NothingBack'
    <2>1. PICK i \in Slots : ParseAs(type, size, eos, i)
      BY <1>1 DEF Parse
    <2> DEFINE last == ParseLast(type, size, i)
    <2>2. last \in Refs /\ ref0' = (IF eos THEN Flushed(last) ELSE last) /\ gotEos' = eos
      <3>1. ParseFacts(type, size, eos, i)
        BY <1>1, <2>1, ParseEffect
      <3> QED  BY <3>1 DEF ParseFacts
    <2> HIDE DEF last
    <2> QED  BY <2>2, FlushedTypes DEF NothingBack, Valid
  <1>2. CASE \E eos \in BOOLEAN : ParseSkipped(eos)
    BY <1>2 DEF ParseSkipped, NothingBack
  <1>3. CASE PrepareEos
    BY <1>0, <1>3, FlushedTypes DEF PrepareEos, NothingBack, Valid
  <1>4. CASE HalTake \/ HwDone \/ HalReset
    <2>1. gotEos' = gotEos /\ ref0' \in {ref0, Flushed(ref0)}
      BY <1>4 DEF HalTake, HwDone, HalReset
    <2> QED  BY <1>0, <2>1, FlushedTypes DEF NothingBack, Valid
  <1>5. CASE ResetParser
    BY <1>5 DEF ResetParser, NothingBack
  <1>6. CASE UNCHANGED <<ref0, gotEos>>
    BY <1>6 DEF NothingBack, Valid
  <1>7. \/ \E type \in {"I", "P", "B"}, size \in Infos, eos \in BOOLEAN : Parse(type, size, eos)
        \/ (\E eos \in BOOLEAN : ParseSkipped(eos)) \/ PrepareEos \/ HalTake \/ HwDone \/ HalReset \/ ResetParser
        \/ UNCHANGED <<ref0, gotEos>>
    <2>1. CASE ParserNext
      BY <2>1 DEF ParserNext, PrevDone, SubmitEos, SendInfoChange, WaitInfoChange, NoBuffer, GetBuffer, Submit,
         ProcControl, ResetPost, ResetDone, ResetDrain, ParserCall, parserVars
    <2>2. CASE HalNext
      BY <2>2 DEF HalNext, HalCall, HalDequeue, HalPut, HalEnd, parserVars
    <2>3. CASE UserNext \/ UNCHANGED vars
      BY <2>3 DEF UserNext, TakeFrame, UserFlush, UserReset, ReleaseFrame, vars, parserVars
    <2> QED  BY <2>1, <2>2, <2>3 DEF Next
  <1> QED  BY <1>1, <1>2, <1>3, <1>4, <1>5, <1>6, <1>7

\* The hal task with the flag stays the last one: nothing is parsed after it.
LEMMA EosTasksStep ==
    ASSUME SlotInv, EosTasks, [Next]_vars, "skipped" \notin EosKinds
    PROVE  EosTasks'
  <1>0. /\ procQ \in Seq(HalJobs) /\ hal \in HalJobs /\ task \in DecTasks /\ EosLast(procQ)
        /\ ParserRests /\ HalRests /\ EndsParsing
    BY DEF SlotInv, Types, HalTypes, ParserTypes, Control, EosTasks
  <1>1. CASE SubmitEos \/ SendInfoChange \/ Submit
    <2>1. /\ UNCHANGED hal
          /\ \A k \in DOMAIN procQ : ~procQ[k].eos
      BY <1>0, <1>1 DEF SubmitEos, SendInfoChange, Submit, Parsed, ParserRests, EndsParsing
    <2>2. \E t \in HalJobs : procQ' = Append(procQ, t) /\ (t.kind = "eos" => t.eos)
      <3>1. CASE SubmitEos
        <4> DEFINE t == HalTask("eos", NoSlot, NoRefer, TRUE)
        <4>1. t \in HalJobs /\ t.eos
          BY DEF HalTask, HalJobs, NoRefer, Entries
        <4> QED  BY <3>1, <4>1 DEF SubmitEos
      <3>2. CASE SendInfoChange
        <4> DEFINE t == HalTask("info", task.out, NoRefer, FALSE)
        <4>1. t \in HalJobs /\ t.kind # "eos"
          BY <1>0 DEF HalTask, HalJobs, NoRefer, Entries, DecTasks
        <4> QED  BY <3>2, <4>1 DEF SendInfoChange
      <3>3. CASE Submit
        <4> DEFINE t == HalTask("frame", task.out, task.refer, task.eos)
        <4>1. t \in HalJobs /\ t.kind # "eos"
          BY <1>0 DEF HalTask, HalJobs, DecTasks
        <4> QED  BY <3>3, <4>1 DEF Submit
      <3> QED  BY <1>1, <3>1, <3>2, <3>3
    <2> QED  BY <1>0, <2>1, <2>2, EosAppend DEF EosTasks
  <1>2. CASE HalTake
    <2>1. UNCHANGED procQ /\ hal' = Head(procQ) /\ procQ # << >>
      BY <1>2 DEF HalTake
    <2> QED  BY <1>0, <2>1, EosTail DEF EosTasks
  <1>3. CASE HwDone \/ HalEnd
    <2>1. /\ procQ' = procQ \/ (procQ # << >> /\ procQ' = Tail(procQ))
          /\ hal' = hal \/ hal' = NoHal
      BY <1>0, <1>3 DEF HwDone, HalEnd, HalRests
    <2>2. NoHal.kind # "eos"
      BY DEF NoHal, HalTask
    <2> QED  BY <1>0, <2>1, <2>2, EosTail DEF EosTasks
  <1>4. CASE HalReset
    <2>1. UNCHANGED procQ /\ hal'.kind = "reset"
      BY <1>4 DEF HalReset, HalTask
    <2> QED  BY <2>1 DEF EosTasks
  <1>5. CASE UNCHANGED <<procQ, hal>>
    BY <1>5 DEF EosTasks
  <1>6. \/ SubmitEos \/ SendInfoChange \/ Submit \/ HalTake \/ HwDone \/ HalEnd \/ HalReset
        \/ UNCHANGED <<procQ, hal>>
    <2>1. CASE \/ PrevDone \/ (\E eos \in BOOLEAN : ParseSkipped(eos)) \/ PrepareEos \/ WaitInfoChange
               \/ NoBuffer \/ (\E b \in Buffers : GetBuffer(b))
               \/ \E type \in {"I", "P", "B"}, size \in Infos, eos \in BOOLEAN : Parse(type, size, eos)
      BY <2>1 DEF PrevDone, ParseSkipped, PrepareEos, WaitInfoChange, NoBuffer, GetBuffer, Parse, halVars
    <2>2. CASE \/ ProcControl \/ ResetPost \/ ResetParser \/ ResetDone \/ (\E i \in Slots : ResetDrain(i)) \/ ParserCall
      BY <2>2 DEF ProcControl, ResetPost, ResetParser, ResetDone, ResetDrain, ParserCall, halVars
    <2>3. CASE HalCall \/ (\E i \in Slots : HalDequeue(i)) \/ HalPut
      BY <2>3 DEF HalCall, HalDequeue, HalPut
    <2>4. CASE UserNext \/ UNCHANGED vars
      BY <2>4 DEF UserNext, TakeFrame, UserFlush, UserReset, ReleaseFrame, vars, halVars
    <2> QED  BY <2>1, <2>2, <2>3, <2>4 DEF Next, ParserNext, HalNext
  <1> QED  BY <1>1, <1>2, <1>3, <1>4, <1>5, <1>6

\* Before Mpp::reset returns the application sees no end of stream that the parser
\* thread does not know.
LEMMA EosKnownStep ==
    ASSUME SlotInv, EosTasks, EosKnown, [Next]_vars
    PROVE  EosKnown'
  <1>0. EndsParsing /\ ResetSteps
    BY DEF SlotInv, Control
  <1>1. CASE HalPut \/ HalEnd
    <2>1. UNCHANGED <<gotEos, flushDue>>
      BY <1>1 DEF HalPut, HalEnd, parserVars, ctrlVars
    <2>2. eosSent' = eosSent \/ hal.eos
      BY <1>1 DEF HalPut, HalEnd, LastOfEos, EosTasks
    <2> QED  BY <1>0, <2>1, <2>2 DEF EosKnown, EndsParsing
  <1>2. CASE UserFlush
    BY <1>2 DEF UserFlush, EosKnown
  <1>3. CASE UserReset
    BY <1>3 DEF UserReset, EosKnown
  <1>4. CASE ResetParser
    <2>1. flushDue /\ UNCHANGED flushDue
      BY <1>0, <1>4 DEF ResetParser, ResetSteps
    <2> QED  BY <2>1 DEF EosKnown
  <1>5. CASE /\ UNCHANGED <<eosSent, flushDue>>
             /\ gotEos' = gotEos \/ gotEos' = TRUE \/ PacketReady
    BY <1>5 DEF EosKnown, PacketReady
  <1>6. \/ HalPut \/ HalEnd \/ UserFlush \/ UserReset \/ ResetParser
        \/ /\ UNCHANGED <<eosSent, flushDue>>
           /\ gotEos' = gotEos \/ gotEos' = TRUE \/ PacketReady
    <2>1. CASE \/ PrevDone \/ (\E eos \in BOOLEAN : ParseSkipped(eos)) \/ PrepareEos \/ WaitInfoChange
               \/ NoBuffer \/ (\E b \in Buffers : GetBuffer(b))
               \/ \E type \in {"I", "P", "B"}, size \in Infos, eos \in BOOLEAN : Parse(type, size, eos)
      BY <2>1 DEF PrevDone, ParseSkipped, PrepareEos, WaitInfoChange, NoBuffer, GetBuffer, Parse, ctrlVars, histVars
    <2>2. CASE \/ SubmitEos \/ SendInfoChange \/ Submit \/ ProcControl \/ ResetPost \/ ResetDone
               \/ (\E i \in Slots : ResetDrain(i)) \/ ParserCall
      BY <2>2 DEF SubmitEos, SendInfoChange, Submit, ProcControl, ResetPost, ResetDone, ResetDrain, ParserCall,
         parserVars, ctrlVars, histVars
    <2>3. CASE HalTake \/ HwDone \/ HalReset \/ HalCall \/ (\E i \in Slots : HalDequeue(i))
      BY <2>3 DEF HalTake, HwDone, HalReset, HalCall, HalDequeue, parserVars, ctrlVars, histVars
    <2>4. CASE TakeFrame \/ (\E b \in Buffers : ReleaseFrame(b)) \/ UNCHANGED vars
      BY <2>4 DEF TakeFrame, ReleaseFrame, vars, parserVars, ctrlVars, histVars
    <2> QED  BY <2>1, <2>2, <2>3, <2>4 DEF Next, ParserNext, HalNext, UserNext
  <1> QED  BY <1>1, <1>2, <1>3, <1>4, <1>5, <1>6

\* What a reset threw away is forgotten when Mpp::reset returns, and not before.
LEMMA PastLeft ==
    ASSUME SlotInv, [Next]_vars, ~UserFlush
    PROVE  (Past => Past') /\ (dropped' = dropped \/ Past')
  <1>0. ResetSteps /\ ParserRests
    BY DEF SlotInv, Control
  <1>1. CASE \/ PrevDone \/ (\E eos \in BOOLEAN : ParseSkipped(eos)) \/ PrepareEos \/ WaitInfoChange
             \/ NoBuffer \/ (\E b \in Buffers : GetBuffer(b)) \/ SendInfoChange
             \/ \E type \in {"I", "P", "B"}, size \in Infos, eos \in BOOLEAN : Parse(type, size, eos)
    <2>1. UNCHANGED <<flushDue, resetFlag, dropped>> /\ ppc # "drain"
      BY <1>1 DEF PrevDone, ParseSkipped, PrepareEos, WaitInfoChange, NoBuffer, GetBuffer, SendInfoChange, Parse,
         Parsed, TryProc, ctrlVars, histVars
    <2> QED  BY <2>1 DEF Past
  <1>2. CASE SubmitEos \/ Submit \/ ProcControl \/ ResetPost \/ ResetParser
    <2>1. UNCHANGED <<flushDue, resetFlag, dropped>> /\ ppc # "drain"
      BY <1>2 DEF SubmitEos, Submit, ProcControl, ResetPost, ResetParser, ctrlVars, histVars
    <2> QED  BY <2>1 DEF Past
  <1>3. CASE ResetDone
    <2>1. flushDue' /\ ~resetFlag'
      BY <1>0, <1>3 DEF ResetDone, ResetSteps
    <2> QED  BY <2>1 DEF Past
  <1>4. CASE \E i \in Slots : ResetDrain(i)
    BY <1>4 DEF ResetDrain, Past
  <1>5. CASE UserReset
    <2>1. ~Past /\ UNCHANGED dropped
      BY <1>0, <1>5 DEF UserReset, Past, ResetSteps
    <2> QED  BY <2>1
  <1>6. CASE ParserCall \/ HalNext \/ TakeFrame \/ (\E b \in Buffers : ReleaseFrame(b)) \/ UNCHANGED vars
    <2>1. UNCHANGED <<ppc, flushDue, resetFlag, dropped>>
      BY <1>6 DEF ParserCall, HalNext, HalTake, HwDone, HalReset, HalCall, HalDequeue, HalPut, HalEnd, TakeFrame,
         ReleaseFrame, vars, parserVars, ctrlVars, histVars
    <2> QED  BY <2>1 DEF Past
  <1> QED  BY <1>1, <1>2, <1>3, <1>4, <1>5, <1>6 DEF Next, ParserNext, UserNext

\* Apart from the calls, no step takes an entry that somebody awaits off use.
LEMMA UsesKept ==
    ASSUME SlotInv, [Next]_vars, ~ParserCall, ~HalCall, NEW i \in Slots, slot[i].on_used
    PROVE  slot'[i].on_used
  <1>0. SlotTypes /\ slot[i] \in SlotEntry
    BY DEF SlotInv, Types, SlotTypes
  <1>1. ASSUME NEW type \in {"I", "P", "B"}, NEW size \in Infos, NEW eos \in BOOLEAN, Parse(type, size, eos)
        PROVE  slot'[i].on_used
    <2>1. PICK j \in Slots : GetUnused(j)
      BY <1>1 DEF Parse, ParseAs
    <2>2. OnlyEntry(j) /\ ~slot[j].on_used
      BY <1>0, <2>1, GetUnusedEffect
    <2> QED  BY <2>2 DEF OnlyEntry
  <1>2. ASSUME NEW b \in Buffers, GetBuffer(b) PROVE slot'[i].on_used
    <2> DEFINE j == task.out
    <2>1. SetBuffer(j, b) /\ j \in Slots
      BY <1>2, ParsedTask DEF GetBuffer, Parsed
    <2>2. OnlyEntry(j)
          /\ slot'[j] = [slot[j] EXCEPT !.buffer = b, !.frameBuf = IF slot[j].frame THEN b ELSE slot[j].frameBuf]
      BY <1>0, <2>1, SetBufferEffect
    <2>3. slot[j] \in SlotEntry
      BY <1>0, <2>1 DEF SlotTypes
    <2>4. slot'[j].on_used = slot[j].on_used
      BY <2>2, <2>3, ZenonT(60) DEF SlotEntry
    <2> QED  BY <2>2, <2>4 DEF OnlyEntry
  <1>3. ASSUME NEW j \in Slots, Dequeue(j, "DISPLAY") PROVE slot'[i].on_used
    <2>1. OnlyEntry(j) /\ slot'[j].on_used = slot[j].on_used
      BY <1>3, DequeueFacts
    <2> QED  BY <2>1 DEF OnlyEntry
  <1>4. \/ (\E type \in {"I", "P", "B"}, size \in Infos, eos \in BOOLEAN : Parse(type, size, eos))
        \/ (\E b \in Buffers : GetBuffer(b)) \/ (\E j \in Slots : Dequeue(j, "DISPLAY")) \/ UNCHANGED slot
    <2>1. CASE ParserNext
      BY <2>1 DEF ParserNext, PrevDone, ParseSkipped, PrepareEos, SubmitEos, SendInfoChange, WaitInfoChange,
         NoBuffer, Submit, ProcControl, Ready, ResetPost, ResetParser, ResetDone, ResetDrain, slotVars
    <2>2. CASE HalNext
      BY <2>2 DEF HalNext, HalTake, HwDone, HalReset, HalDequeue, HalPut, HalEnd, slotVars
    <2>3. CASE UserNext \/ UNCHANGED vars
      BY <2>3 DEF UserNext, TakeFrame, UserFlush, UserReset, ReleaseFrame, vars, slotVars
    <2> QED  BY <2>1, <2>2, <2>3 DEF Next
  <1> QED  BY <1>1, <1>2, <1>3, <1>4

\* A call neither shows a picture nor gives it up, but for the entry that a reset forgets.
LEMMA CallsAwait ==
    ASSUME SlotInv, ParserCall \/ HalCall, ~Past, NEW i \in Slots, slot[i].on_used
    PROVE  slot'[i].on_used \/ (Awaited(i)' <=> Awaited(i))
  <1>0. SlotTypes /\ ParserCalls /\ HalCalls
    BY DEF SlotInv, Types, Todo
  <1>1. PICK c \in SlotCalls : MadeCall(c)
    BY CallStep
  <1>2. c \in Calls /\ Call(c)
    BY <1>1 DEF MadeCall
  <1>3. c[1] # "reset"
    BY <1>0, <1>2 DEF Calls, ParserCalls, HalCalls, Past
  <1>4. CASE c[1] = "enqueue"
    <2>1. c[2] \in Slots /\ Enqueue(c[2], "DISPLAY")
      BY <1>0, <1>2, <1>4, CallEffect
    <2>2. /\ OnlyEntry(c[2]) /\ slot[c[2]] \in SlotEntry
          /\ slot'[c[2]] = [slot[c[2]] EXCEPT !.queue_use = (slot[c[2]].queue_use + 1) % 32]
      BY <1>0, <2>1, EnqueueEffect DEF SlotTypes
    <2>3. slot'[c[2]].on_used = slot[c[2]].on_used
      BY <2>2 DEF SlotEntry
    <2> QED  BY <2>2, <2>3 DEF OnlyEntry
  <1>5. CASE c[1] # "enqueue"
    <2>1. UNCHANGED queue
      BY <1>0, <1>2, <1>3, <1>5, CallUses
    <2> QED  BY <1>1, <1>5, <2>1, CallAwaits
  <1> QED  BY <1>4, <1>5

\* What is awaited stays so until it is shown, unless a reset throws it away.
LEMMA AwaitedOn ==
    ASSUME SlotInv, BufferInv, Coming', Undropped', [Next]_vars, ~UserFlush, ~Past',
           NEW i \in Slots, Awaited(i), pic'[i] = pic[i]
    PROVE  IsShown(pic[i])' \/ Awaited(i)'
  <1>1. slot[i].on_used
    BY AwaitedUsed
  <1>2. CASE slot'[i].on_used
    <2>1. Gone(i)' => IsShown(pic[i])'
      BY DEF Gone, Undropped, IsShown
    <2> QED  BY <1>2, <2>1 DEF Coming
  <1>3. CASE ~slot'[i].on_used
    <2>1. ParserCall \/ HalCall
      BY <1>1, <1>3, UsesKept
    <2>2. ~Past
      BY PastLeft
    <2> QED  BY <1>1, <1>3, <2>1, <2>2, CallsAwait
  <1> QED  BY <1>2, <1>3

\* Every picture parsed is shown or awaited: the new one is written.
LEMMA MetStep ==
    ASSUME SlotInv, SlotInv', BufferInv, Coming', Undropped', Met, [Next]_vars
    PROVE  Met'
  <1>0. /\ coded \in Seq(PictureTypes) /\ pic \in [Slots -> Nat] /\ shown \in Seq(Nat)
    BY OrderTypes DEF SlotInv
  <1>1. CASE UserFlush
    BY <1>1 DEF UserFlush, Met
  <1> SUFFICES ASSUME ~UserFlush, ~Past', NEW n \in DOMAIN coded', coded'[n] # "N"
               PROVE  IsShown(n)' \/ \E i \in Slots : Awaited(i)' /\ pic'[i] = n
    BY <1>1 DEF Met
  <1>2. ~Past
    BY PastLeft
  <1>3. \A k \in DOMAIN shown : k \in DOMAIN shown' /\ shown'[k] = shown[k]
    <2>1. shown' = shown \/ \E x \in Nat : shown' = Append(shown, x)
      <3>1. CASE HalPut
        <4>1. hcur \in Slots /\ shown' = Append(shown, pic[hcur])
          BY <3>1 DEF HalPut, SlotInv, Control, HalRests, Types, HalTypes, Entries
        <4> QED  BY <1>0, <4>1
      <3>2. CASE ~HalPut
        <4>1. CASE ParserNext
          BY <4>1 DEF ParserNext, PrevDone, Parse, ParseSkipped, PrepareEos, SubmitEos, SendInfoChange, WaitInfoChange,
             NoBuffer, GetBuffer, Submit, ProcControl, ResetPost, ResetParser, ResetDone, ResetDrain, ParserCall, histVars
        <4>2. CASE HalNext
          BY <3>2, <4>2 DEF HalNext, HalTake, HwDone, HalReset, HalCall, HalDequeue, HalEnd, histVars
        <4>3. CASE UserNext \/ UNCHANGED vars
          BY <4>3 DEF UserNext, TakeFrame, UserReset, ReleaseFrame, vars, histVars
        <4> QED  BY <4>1, <4>2, <4>3 DEF Next
      <3> QED  BY <3>1, <3>2
    <2>2. ASSUME NEW x \in Nat, shown' = Append(shown, x), NEW k \in DOMAIN shown
          PROVE  k \in DOMAIN shown' /\ shown'[k] = shown[k]
      BY <1>0, <2>2
    <2> QED  BY <2>1, <2>2
  <1>4. IsShown(n) => IsShown(n)'
    BY <1>3 DEF IsShown
  <1>5. ASSUME NEW i \in Slots, Awaited(i), pic[i] = n, pic'[i] = pic[i]
        PROVE  IsShown(n)' \/ Awaited(i)'
    BY <1>5, AwaitedOn
  <1>6. ASSUME NEW type \in {"I", "P", "B"}, NEW size \in Infos, NEW eos \in BOOLEAN, Parse(type, size, eos)
        PROVE  IsShown(n)' \/ \E i \in Slots : Awaited(i)' /\ pic'[i] = n
    <2>1. PICK i \in Slots : ParseAs(type, size, eos, i)
      BY <1>6 DEF Parse
    <2>2. ParseFacts(type, size, eos, i)
      BY <1>6, <2>1, ParseEffect
    <2>3. /\ coded' = Append(coded, type) /\ pic' = [pic EXCEPT ![i] = Len(coded) + 1] /\ GetUnused(i)
      BY <2>2 DEF ParseFacts
    <2>4. ~slot[i].on_used
      BY <2>3 DEF GetUnused, FreeSlots
    <2>5. CASE n = Len(coded) + 1
      <3>1. Writing(i)'
        BY <2>2, FlightParse DEF Writing
      <3> QED  BY <1>0, <2>3, <2>5, <3>1 DEF Coming
    <2>6. CASE n # Len(coded) + 1
      <3>1. n \in DOMAIN coded /\ coded[n] # "N"
        BY <1>0, <2>3, <2>6
      <3>2. CASE IsShown(n)
        BY <1>4, <3>2
      <3>3. CASE \E j \in Slots : Awaited(j) /\ pic[j] = n
        <4>1. PICK j \in Slots : Awaited(j) /\ pic[j] = n
          BY <3>3
        <4>2. j # i
          BY <2>4, <4>1, AwaitedUsed
        <4>3. pic'[j] = pic[j]
          BY <1>0, <2>3, <4>2
        <4> QED  BY <1>5, <4>1, <4>3
      <3> QED  BY <1>2, <3>1, <3>2, <3>3 DEF Met
    <2> QED  BY <2>5, <2>6
  <1>7. CASE UNCHANGED pic /\ (coded' = coded \/ coded' = Append(coded, "N"))
    <2>1. n \in DOMAIN coded /\ coded[n] # "N"
      <3>1. CASE coded' = coded
        BY <3>1
      <3>2. CASE coded' = Append(coded, "N")
        <4>1. /\ DOMAIN coded' = 1 .. Len(coded) + 1 /\ coded'[Len(coded) + 1] = "N" /\ DOMAIN coded = 1 .. Len(coded)
              /\ Len(coded) \in Nat /\ \A k \in 1 .. Len(coded) : coded'[k] = coded[k]
          BY <1>0, <3>2
        <4>2. n # Len(coded) + 1
          BY <4>1
        <4> QED  BY <4>1, <4>2
      <3> QED  BY <1>7, <3>1, <3>2
    <2>2. IsShown(n) \/ \E j \in Slots : Awaited(j) /\ pic[j] = n
      BY <1>2, <2>1 DEF Met
    <2> QED  BY <1>4, <1>5, <1>7, <2>2
  <1>8. \/ \E type \in {"I", "P", "B"}, size \in Infos, eos \in BOOLEAN : Parse(type, size, eos)
        \/ UNCHANGED pic /\ (coded' = coded \/ coded' = Append(coded, "N"))
    <2>1. CASE ParserNext
      BY <2>1 DEF ParserNext, PrevDone, ParseSkipped, PrepareEos, SubmitEos, SendInfoChange, WaitInfoChange,
         NoBuffer, GetBuffer, Submit, ProcControl, ResetPost, ResetParser, ResetDone, ResetDrain, ParserCall, histVars
    <2>2. CASE HalNext
      BY <2>2 DEF HalNext, HalTake, HwDone, HalReset, HalCall, HalDequeue, HalPut, HalEnd, histVars
    <2>3. CASE UserNext \/ UNCHANGED vars
      BY <2>3 DEF UserNext, TakeFrame, UserReset, ReleaseFrame, vars, histVars
    <2> QED  BY <2>1, <2>2, <2>3 DEF Next
  <1> QED  BY <1>6, <1>7, <1>8

\* A flagged frame is sent when nothing is awaited any more but the entry it is for.
LEMMA NothingAwaited ==
    ASSUME SlotInv, NothingBack, EosTasks, hal.eos, hpc \in {"push", "put"}, htodo = << >>,
           NEW i \in Slots, Awaited(i)
    PROVE  InQ(i) \/ hcur = i
  <1>0. EndsParsing /\ ParserRests
    BY DEF SlotInv, Control
  <1>1. gotEos /\ ptodo = << >>
    BY <1>0 DEF EndsParsing, ParserRests
  <1>2. ~Show(i)
    BY <1>1, NoCalls DEF Show, Calls
  <1>3. ~(i = ref0.slot /\ ~ref0.enqueued)
    BY <1>1 DEF NothingBack, Valid, Slots, NoSlot
  <1> QED  BY <1>2, <1>3 DEF Awaited

\* An empty task with the flag is handled once the display queue is empty: no picture
\* is on its way to the hardware that the queue could wait for.
LEMMA QueueEmptied ==
    ASSUME SlotInv, EosTasks, hal.kind = "eos", hpc = "push", htodo = << >>, ~CanDequeue("DISPLAY")
    PROVE  queue["DISPLAY"] = << >>
  <1>0. /\ EndsParsing /\ ParserRests /\ HalRests /\ procQ \in Seq(HalJobs) /\ queue["DISPLAY"] \in Seq(Slots)
        /\ FlagsExact
    BY OrderTypes DEF SlotInv, Control, Types, HalTypes
  <1>1. hal.eos /\ ptodo = << >> /\ ~task.parsed
    BY <1>0 DEF EosTasks, EndsParsing, ParserRests
  <1>2. procQ # << >> /\ hal = Head(procQ)
    BY <1>0 DEF HalRests
  <1>3. Len(procQ) = 1 /\ procQ[1].kind = "eos"
    BY <1>0, <1>1, <1>2, EosTail DEF EosTasks
  <1>4. InFlight = {}
    <2>1. \A k \in DOMAIN procQ : procQ[k].kind # "frame"
      BY <1>0, <1>3
    <2> QED  BY <1>1, <2>1 DEF InFlight, Sent, Waiting
  <1>5. \A i \in Slots : ~slot[i].not_ready
    <2>1. \A i : ~Writing(i) /\ ~ClrOut(i)
      BY <1>1, <1>4, NoCalls DEF Writing, ClrOut, Calls
    <2> QED  BY <1>0, <2>1 DEF FlagsExact, FlagsOf, NotReady
  <1>6. queue["DISPLAY"] # << >> => Head(queue["DISPLAY"]) \in Slots
    BY <1>0
  <1> QED  BY <1>5, <1>6 DEF CanDequeue

\* A frame with the eos flag is sent after every picture, and none is parsed after it.
LEMMA EosStep ==
    ASSUME SlotInv, EosInv, [Next]_vars, "skipped" \notin EosKinds
    PROVE  EosAfterAllFrames'
  <1>0. /\ ResetSteps /\ AfterReset /\ HalRests /\ EndsParsing
        /\ pic \in [Slots -> Nat] /\ shown \in Seq(Nat) /\ hcur \in Entries /\ eosSent \in Nat
    BY OrderTypes DEF SlotInv, Control, Types, HalTypes, OtherTypes
  <1>1. CASE UserFlush
    BY <1>1 DEF UserFlush, EosAfterAllFrames
  <1>2. CASE HalPut
    <2>1. /\ hpc = "put" /\ htodo = << >> /\ hcur \in Slots
          /\ shown' = Append(shown, pic[hcur]) /\ UNCHANGED <<coded, dropped>>
          /\ eosSent' = IF LastOfEos THEN eosSent + 1 ELSE eosSent
      BY <1>0, <1>2 DEF HalPut, HalRests, Entries
    <2>2. ~Past
      BY <1>0, <2>1 DEF Past, ResetSteps, AfterReset, HalAtRest
    <2>3. /\ \A n : IsShown(n) => \E k \in DOMAIN shown' : shown'[k] = n
          /\ \E k \in DOMAIN shown' : shown'[k] = pic[hcur]
      <3>1. pic[hcur] \in Nat /\ Len(shown) + 1 \in DOMAIN shown' /\ shown'[Len(shown) + 1] = pic[hcur]
        BY <1>0, <2>1
      <3>2. \A k \in DOMAIN shown : k \in DOMAIN shown' /\ shown'[k] = shown[k]
        BY <1>0, <2>1, <3>1
      <3> QED  BY <3>1, <3>2 DEF IsShown
    <2>4. CASE LastOfEos
      <3>1. hal.eos /\ queue["DISPLAY"] = << >>
        BY <2>4 DEF LastOfEos
      <3>2. \A i \in Slots : Awaited(i) => hcur = i
        BY <2>1, <3>1, NothingAwaited DEF EosInv, InQ
      <3>3. \A n \in DOMAIN coded : coded[n] = "N" \/ IsShown(n) \/ n = pic[hcur]
        BY <2>2, <3>2 DEF EosInv, Met
      <3> QED  BY <2>1, <2>3, <3>3 DEF EosAfterAllFrames
    <2>5. CASE ~LastOfEos
      BY <2>1, <2>3, <2>5 DEF EosInv, EosAfterAllFrames, IsShown
    <2> QED  BY <2>4, <2>5
  <1>3. CASE HalEnd
    <2>1. /\ hpc = "push" /\ htodo = << >> /\ ~CanDequeue("DISPLAY") /\ UNCHANGED <<coded, dropped, shown>>
          /\ eosSent' = IF hal.kind = "eos" THEN eosSent + 1 ELSE eosSent
      BY <1>3 DEF HalEnd
    <2>2. ~Past /\ hcur = NoSlot
      BY <1>0, <2>1 DEF Past, ResetSteps, AfterReset, HalAtRest, HalRests
    <2>3. CASE hal.kind = "eos"
      <3>1. hal.eos /\ queue["DISPLAY"] = << >>
        BY <2>1, <2>3, QueueEmptied DEF EosInv, EosTasks
      <3>2. \A i \in Slots : ~Awaited(i)
        BY <2>1, <2>2, <3>1, NothingAwaited DEF EosInv, InQ, Slots, NoSlot
      <3> QED  BY <2>1, <2>2, <3>2 DEF EosInv, Met, IsShown, EosAfterAllFrames
    <2>4. CASE hal.kind # "eos"
      BY <2>1, <2>4 DEF EosInv, EosAfterAllFrames
    <2> QED  BY <2>3, <2>4
  <1>4. CASE PacketReady /\ UNCHANGED eosSent
    BY <1>0, <1>4 DEF PacketReady, EosInv, EosKnown, EosAfterAllFrames
  <1>5. CASE UNCHANGED <<coded, shown, eosSent>> /\ dropped \subseteq dropped'
    BY <1>5 DEF EosInv, EosAfterAllFrames
  <1>6. \/ UserFlush \/ HalPut \/ HalEnd \/ (PacketReady /\ UNCHANGED eosSent)
        \/ UNCHANGED <<coded, shown, eosSent>> /\ dropped \subseteq dropped'
    <2>1. CASE ParserNext
      BY <2>1 DEF ParserNext, PrevDone, Parse, ParseSkipped, PrepareEos, SubmitEos, SendInfoChange, WaitInfoChange,
         NoBuffer, GetBuffer, Submit, ProcControl, ResetPost, ResetParser, ResetDone, ResetDrain, ParserCall, histVars
    <2>2. CASE HalNext
      BY <2>2 DEF HalNext, HalTake, HwDone, HalReset, HalCall, HalDequeue, histVars
    <2>3. CASE UserNext \/ UNCHANGED vars
      BY <2>3 DEF UserNext, TakeFrame, UserReset, ReleaseFrame, vars, histVars
    <2> QED  BY <2>1, <2>2, <2>3 DEF Next
  <1> QED  BY <1>1, <1>2, <1>3, <1>4, <1>5, <1>6

LEMMA EosInit == ASSUME Init PROVE EosInv
  <1>1. /\ coded = << >> /\ dropped = {} /\ eosSent = 0 /\ ~gotEos /\ procQ = << >> /\ hal.kind # "eos"
    BY DEF Init, NoHal, HalTask
  <1> QED  BY <1>1 DEF EosInv, Undropped, Met, NothingBack, EosTasks, EosLast, EosKnown, EosAfterAllFrames

\* When a frame with the eos flag is in mFrames, every picture of the stream has been
\* put there before it or was thrown away by a reset: whether the last packet brings
\* the flag or an empty one, and whichever thread queues the last reference.  That the
\* last packet holds a picture, or nothing at all, is assumed: mpg4d_parse skips the
\* flush for a packet it does not decode, and the claim fails then.
THEOREM EosComesLast == ASSUME "skipped" \notin EosKinds PROVE Spec => []EosAfterAllFrames
  <1> DEFINE Inv == SlotInv /\ BufferInv /\ EosInv
  <1>1. Init => Inv
    BY SlotInvInit, BufferInvInit, EosInit
  <1>2. Inv /\ [Next]_vars => Inv'
    <2> SUFFICES ASSUME Inv, [Next]_vars PROVE Inv'
      OBVIOUS
    <2>1. SlotInv' /\ BuffersOk' /\ Emptied'
      BY SlotInvStep, BuffersStep, EmptiedStep
    <2>2. NothingBack' /\ EosTasks' /\ EosKnown' /\ EosAfterAllFrames'
      BY NothingBackStep, EosTasksStep, EosKnownStep, EosStep DEF EosInv
    <2>3. Undropped'
      <3>1. CASE UserFlush
        BY <3>1 DEF UserFlush, Undropped
      <3> QED  BY <3>1, PastLeft DEF EosInv, Undropped
    <2>4. Met'
      BY <2>1, <2>3, MetStep DEF EosInv, BuffersOk
    <2> QED  BY <2>1, <2>2, <2>3, <2>4 DEF EosInv, BufferInv
  <1>3. Inv => EosAfterAllFrames
    BY DEF EosInv
  <1> QED  BY <1>1, <1>2, <1>3, PTL DEF Spec
=============================================================================
