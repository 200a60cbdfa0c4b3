---------------------------- MODULE MppBufSlots ----------------------------
(***************************************************************************)
(* The buffer slots of mpp/base/mpp_buf_slot.cpp: a table of entries that  *)
(* stand for the decoded pictures, the flags that say who still uses an    *)
(* entry, the queues the entries wait in, and the references the entries   *)
(* keep on hardware buffers.  An entry is released inside the call that    *)
(* takes its last flag away (check_entry_unused).                          *)
(*                                                                         *)
(* Each operator is one call of the interface.  The code makes each call   *)
(* under slots->lock, so each is one atomic step; the modules that EXTEND  *)
(* this one say who calls what and when.  A picture's geometry is reduced  *)
(* to one value: info is the accepted one, infoSet the latest one seen.    *)
(***************************************************************************)
EXTENDS Integers, Sequences, FiniteSets, SequencesExt

CONSTANTS
    SlotCount,   \* the count of mpp_buf_slot_setup
    Buffers,     \* the hardware buffers of the frame group
    NoBuf,       \* a NULL MppBuffer
    Infos        \* the picture geometries of the stream; 0 is "none yet"

ASSUME SlotsAssumption ==
    /\ SlotCount \in 1 .. 254
    /\ IsFiniteSet(Buffers) /\ NoBuf \notin Buffers
    /\ Infos \subseteq Nat \ {0}

Slots == 0 .. SlotCount - 1
NoSlot == -1
QueueTypes == {"OUTPUT", "DISPLAY", "DEINTERLACE", "COLOR_CONVERT"}

VARIABLES
    slot,         \* slot[i]: SlotStatus, frame and buffer of entry i
    queue,        \* queue[q]: the entries in queue q, oldest first
    usedCount,    \* impl->used_count
    info,         \* impl->info
    infoSet,      \* impl->info_set
    infoChanged,  \* impl->info_changed
    bufRef,       \* bufRef[b]: ref_count of hardware buffer b
    slotError     \* a flag or counter was cleared that was not set

slotVars ==
    <<slot, queue, usedCount, info, infoSet, infoChanged, bufRef, slotError>>

SlotEntry ==
    [on_used : BOOLEAN, not_ready : BOOLEAN, codec_use : BOOLEAN,
     hal_output : BOOLEAN, hal_use : 0 .. 255, queue_use : 0 .. 31,
     frame : BOOLEAN, frameBuf : Buffers \cup {NoBuf},
     buffer : Buffers \cup {NoBuf}]

EmptyEntry ==
    [on_used |-> FALSE, not_ready |-> FALSE, codec_use |-> FALSE,
     hal_output |-> FALSE, hal_use |-> 0, queue_use |-> 0,
     frame |-> FALSE, frameBuf |-> NoBuf, buffer |-> NoBuf]

SlotsInit ==
    /\ slot = [i \in Slots |-> EmptyEntry]
    /\ queue = [q \in QueueTypes |-> << >>]
    /\ usedCount = 0
    /\ info = 0 /\ infoSet = 0 /\ infoChanged = FALSE
    /\ bufRef = [b \in Buffers |-> 0]
    /\ slotError = FALSE

SlotsTypeOK ==
    /\ slot \in [Slots -> SlotEntry]
    /\ \A q \in QueueTypes : queue[q] \in Seq(Slots)
    /\ usedCount \in 0 .. SlotCount
    /\ {info, infoSet} \subseteq Infos \cup {0} /\ infoChanged \in BOOLEAN
    /\ bufRef \in [Buffers -> Nat]
    /\ slotError \in BOOLEAN

-----------------------------------------------------------------------------
(* slot_ops_with_log: what one operation does to an entry. *)

SetOp(s, u) ==
    [s EXCEPT !.codec_use = @ \/ u = "CODEC_USE",
              !.hal_use = IF u = "HAL_INPUT" THEN (@ + 1) % 256 ELSE @,
              !.hal_output = @ \/ u = "HAL_OUTPUT",
              !.not_ready = (@ /\ u # "CODEC_READY") \/ u = "HAL_OUTPUT",
              !.queue_use = IF u = "QUEUE_USE" THEN (@ + 1) % 32 ELSE @]

ClrOp(s, u) ==
    [s EXCEPT !.codec_use = @ /\ u # "CODEC_USE",
              !.hal_use = IF u = "HAL_INPUT" /\ @ > 0 THEN @ - 1 ELSE @,
              !.hal_output = @ /\ u # "HAL_OUTPUT",
              !.not_ready = (@ /\ u # "HAL_OUTPUT") \/ u = "CODEC_READY",
              !.queue_use = IF u = "QUEUE_USE" /\ @ > 0 THEN @ - 1 ELSE @]

\* The two counters cannot be cleared below zero: the code reports it.
ClrIsError(s, u) ==
    \/ u = "HAL_INPUT" /\ s.hal_use = 0
    \/ u = "QUEUE_USE" /\ s.queue_use = 0

\* The condition under which check_entry_unused releases an entry.
Unused(s) ==
    /\ s.on_used /\ ~s.not_ready /\ ~s.codec_use /\ ~s.hal_output
    /\ s.hal_use = 0 /\ s.queue_use = 0

\* Change the references on buffer b by n; NoBuf has none to change.
RefAdd(refs, b, n) == [x \in Buffers |-> refs[x] + IF x = b THEN n ELSE 0]

\* check_entry_unused(entry i, whose new contents are s): the last user has
\* left, so the frame and the buffer lose the entry's two references.
ReleasedRefs(s) == RefAdd(RefAdd(bufRef, s.frameBuf, -1), s.buffer, -1)

CheckEntryUnused(i, s) ==
    \/ /\ Unused(s)
       /\ slot' = [slot EXCEPT ![i] =
               [s EXCEPT !.on_used = FALSE, !.frame = FALSE,
                         !.frameBuf = NoBuf, !.buffer = NoBuf]]
       /\ bufRef' = ReleasedRefs(s)
       /\ usedCount' = usedCount - 1
    \/ /\ ~Unused(s)
       /\ slot' = [slot EXCEPT ![i] = s]
       /\ UNCHANGED <<bufRef, usedCount>>

-----------------------------------------------------------------------------
(* The interface. *)

FreeSlots == {i \in Slots : ~slot[i].on_used}

\* mpp_buf_slot_get_unused that finds entry i: the first one not on use.
GetUnused(i) ==
    /\ i \in FreeSlots /\ \A j \in FreeSlots : i <= j
    /\ slot' = [slot EXCEPT ![i].on_used = TRUE, ![i].not_ready = TRUE]
    /\ usedCount' = usedCount + 1
    /\ UNCHANGED <<queue, info, infoSet, infoChanged, bufRef, slotError>>

SetFlag(i, u) ==
    /\ slot' = [slot EXCEPT ![i] = SetOp(@, u)]
    /\ UNCHANGED <<queue, usedCount, info, infoSet, infoChanged, bufRef,
                   slotError>>

ClrFlag(i, u) ==
    /\ CheckEntryUnused(i, ClrOp(slot[i], u))
    /\ slotError' = (slotError \/ ClrIsError(slot[i], u))
    /\ UNCHANGED <<queue, info, infoSet, infoChanged>>

\* list_del_init takes the entry out of whatever queue it is in; an entry has
\* one list head, so it is in one place at most.
Without(s, i) ==
    LET at == {k \in DOMAIN s : s[k] = i}
    IN  IF at = {} THEN s ELSE RemoveAt(s, CHOOSE k \in at : TRUE)
Unlinked(i) == [q \in QueueTypes |-> Without(queue[q], i)]

Linked(i, q) == [Unlinked(i) EXCEPT ![q] = Append(@, i)]

Enqueue(i, q) ==
    /\ slot' = [slot EXCEPT ![i].queue_use = (@ + 1) % 32]
    /\ queue' = Linked(i, q)
    /\ UNCHANGED <<usedCount, info, infoSet, infoChanged, bufRef, slotError>>

\* Only the head of a queue can leave it, and only once it is ready.
CanDequeue(q) == queue[q] # << >> /\ ~slot[Head(queue[q])].not_ready

Dequeue(i, q) ==
    /\ CanDequeue(q) /\ i = Head(queue[q])
    /\ queue' = Unlinked(i)
    /\ slot' = [slot EXCEPT ![i].queue_use = IF @ > 0 THEN @ - 1 ELSE @]
    /\ slotError' = (slotError \/ slot[i].queue_use = 0)
    /\ UNCHANGED <<usedCount, info, infoSet, infoChanged, bufRef>>

\* mpp_buf_slot_set_prop(SLOT_FRAME): the copy of the parser's frame has no
\* buffer yet, and a geometry other than the accepted one is a change.
SetFrame(i, z) ==
    /\ slot' = [slot EXCEPT ![i].frame = TRUE, ![i].frameBuf = NoBuf]
    /\ infoSet' = z
    /\ infoChanged' = (infoChanged \/ z # info)
    /\ UNCHANGED <<queue, usedCount, info, bufRef, slotError>>

\* mpp_buf_slot_set_prop(SLOT_BUFFER) of a buffer just taken from its group:
\* one reference for the caller's later use, one for the entry, one for the
\* frame in the entry.
SetBuffer(i, b) ==
    /\ slot' = [slot EXCEPT ![i].buffer = b,
                            ![i].frameBuf = IF slot[i].frame THEN b ELSE @]
    /\ LET old == IF slot[i].frame THEN slot[i].frameBuf ELSE NoBuf
       IN  bufRef' = RefAdd(RefAdd(RefAdd(bufRef, slot[i].buffer, -1), old, -1),
                            b, IF slot[i].frame THEN 3 ELSE 2)
    /\ UNCHANGED <<queue, usedCount, info, infoSet, infoChanged, slotError>>

\* mpp_buf_slot_reset: unlinked, two queue uses and on_used taken away, and
\* nothing else: the entry does not go through check_entry_unused.
SlotReset(i) ==
    /\ queue' = Unlinked(i)
    /\ slot' = [slot EXCEPT ![i].on_used = FALSE,
                            ![i].queue_use = IF @ > 1 THEN @ - 2 ELSE 0]
    /\ slotError' = (slotError \/ slot[i].queue_use < 2)
    /\ UNCHANGED <<usedCount, info, infoSet, infoChanged, bufRef>>

\* mpp_buf_slot_ready with an unchanged count.
Ready ==
    /\ info' = infoSet /\ infoChanged' = FALSE
    /\ UNCHANGED <<slot, queue, usedCount, infoSet, bufRef, slotError>>

\* mpp_slots_get_unused_count, which the decoder tests before it parses.
UnusedCount == SlotCount - usedCount
=============================================================================
