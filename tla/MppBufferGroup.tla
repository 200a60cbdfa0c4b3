-------------------------- MODULE MppBufferGroup ---------------------------
(***************************************************************************)
(* One buffer group of mpp/base/mpp_buffer_impl.cpp, from the moment it is *)
(* got until it is destroyed, and the threads that get buffers from it,    *)
(* take and give back references, clear it and put it.                     *)
(*                                                                         *)
(* Two locks matter: the group's buf_lock, and the lock of the service     *)
(* that finds groups by id and destroys them.  mpp_buffer_ref_dec takes    *)
(* them one after the other and holds none in between; put_group walks the *)
(* lists of the group and destroys it under the service's lock only, so    *)
(* that the two run side by side.  Each is several steps: unlink, count    *)
(* and unlock of the one, drain, look and act of the other.  overlapped    *)
(* remembers that both locks were held at once.  A get, a reset and the    *)
(* insertion of a new buffer are one step each: they hold buf_lock, and    *)
(* nobody puts the group while they run.                                   *)
(* A buffer's own lock guards its reference count alone and is never       *)
(* waited for here: a buffer in list_unused has no user.                   *)
(*                                                                         *)
(* The order of the two lists decides which of several fitting buffers is  *)
(* taken and which too small ones are met first, and nothing else; the     *)
(* lists are sets here and the choice is free.  usage, a sum of sizes, is  *)
(* kept as the bytes charged for each buffer.                              *)
(***************************************************************************)
EXTENDS Integers, FiniteSets

CONSTANTS
    Threads,
    Getters,   \* the threads that get buffers from the group
    Buffers,   \* the MppBufferImpl objects of mpp_buffer_pool
    NoBuffer,  \* none of them
    Sizes,     \* sizes of buffers
    Limits,    \* values for mpp_buffer_group_limit_config, 0 for none
    MaxRef     \* bound on the references to one buffer

ASSUME BoundsAssumption ==
    /\ Getters \subseteq Threads
    /\ IsFiniteSet(Buffers) /\ NoBuffer \notin Buffers
    /\ Sizes \subseteq Nat \ {0}
    /\ Limits \subseteq Nat
    /\ MaxRef \in Nat

VARIABLES
    mode,          \* MPP_BUFFER_INTERNAL or MPP_BUFFER_EXTERNAL
    is_misc,       \* the service's own group for buffers without one
    limit_count,
    status,        \* "live", "orphan" (is_orphan), "destroyed"
    list_used, list_unused,
    count_used, count_unused, buffer_count,
    usage,         \* usage[b]: the part of group->usage charged for b
    ref_count, discard, size,   \* the fields of each buffer
    pc,            \* pc[t]: where thread t is in its call
    arg,           \* arg[t]: the buffer it releases
    want,          \* want[t]: the size it asks for
    gated,         \* gated[t]: it asks because the group had unused buffers
    buf_lock,      \* the thread in group->buf_lock, if any
    service_lock,  \* the thread in the service's lock, if any
    overlapped     \* put_group ran beside a thread in buf_lock

conf == <<mode, is_misc, limit_count>>
lists == <<list_used, list_unused, count_used, count_unused, buffer_count, usage>>
fields == <<ref_count, discard, size>>
calls == <<pc, arg, want, gated>>
locks == <<buf_lock, service_lock, overlapped>>
vars == <<conf, status, lists, fields, calls, locks>>

Alive == list_used \cup list_unused

\* The ...Slip operators are the mutants of the checks: what a slip in the code
\* would make of the definition that follows them.
NoUsageSlip == list_unused = {}
NoUsage == \A b \in Buffers : usage[b] = 0

GetPcs == {"gated", "create", "refused", "insert"}
PutPcs == {"drain", "put_group", "put_orphan"}
\* The thread has to call back through the group and to unlock its buf_lock.
Inside == {"count", "destroy", "unlock"}
Pcs == {"idle", "lookup", "put"} \cup Inside \cup GetPcs \cup PutPcs

\* The owner puts the group once, and nobody uses the handle from then on.
\* Users that still hold buffers give them back when they like.
HandleValid == status = "live" /\ \A t \in Threads : pc[t] \notin PutPcs

Init ==
    /\ \/ mode = "internal" /\ is_misc = FALSE /\ limit_count \in Limits
       \/ mode = "external" /\ is_misc = FALSE /\ limit_count = 0
       \/ mode \in {"internal", "external"} /\ is_misc = TRUE /\ limit_count = 0
    /\ status = "live"
    /\ list_used = {} /\ list_unused = {}
    /\ count_used = 0 /\ count_unused = 0 /\ buffer_count = 0
    /\ usage = [b \in Buffers |-> 0]
    /\ ref_count = [b \in Buffers |-> 0]
    /\ discard = [b \in Buffers |-> FALSE]
    /\ size = [b \in Buffers |-> 0]
    /\ pc = [t \in Threads |-> "idle"]
    /\ arg = [t \in Threads |-> NoBuffer]
    /\ want = [t \in Threads |-> 0]
    /\ gated = [t \in Threads |-> FALSE]
    /\ buf_lock = {} /\ service_lock = {} /\ overlapped = FALSE

Goto(t, l) == pc' = [pc EXCEPT ![t] = l]

\* Thread t returns from its call.
Return(t) ==
    /\ Goto(t, "idle")
    /\ arg' = [arg EXCEPT ![t] = NoBuffer] /\ want' = [want EXCEPT ![t] = 0]
    /\ gated' = [gated EXCEPT ![t] = FALSE]

-----------------------------------------------------------------------------
(* put_buffer, whose caller decides between reuse and release *)

\* The used flag of a buffer says which counter it is in.
OnUsed(F) == F \cap list_used

UnchargeSlip(F) == UNCHANGED usage
Uncharge(F) ==
    usage' = [b \in Buffers |-> usage[b] - (IF b \in F THEN size[b] ELSE 0)]

Unlist(F) == list_used' = list_used \ F /\ list_unused' = list_unused \ F

\* The buffers of F are released.
Release(F) ==
    /\ Unlist(F)
    /\ count_used' = count_used - Cardinality(OnUsed(F))
    /\ count_unused' = count_unused - Cardinality(F \ OnUsed(F))
    /\ buffer_count' = buffer_count - Cardinality(F)
    /\ Uncharge(F)

\* Of a counter that put_group and a releasing thread change at the same time,
\* under different locks, the change of one of them may get lost: the change of
\* the one that finds the other at place l, about to write what it has read.
Racing(l) == \E u \in Threads : pc[u] = l

ReleaseBeside(l, F) ==
    IF Racing(l)
    THEN /\ Unlist(F)
         /\ count_used' = count_used - Cardinality(OnUsed(F))
         /\ count_unused' \in count_unused - Cardinality(F \ OnUsed(F)) .. count_unused
         /\ buffer_count' \in buffer_count - Cardinality(F) .. buffer_count
         /\ \E G \in SUBSET F : Uncharge(G)
    ELSE Release(F)

\* Buffer b goes from list_used to list_unused.
ReuseBeside(l, b) ==
    /\ list_used' = list_used \ {b} /\ count_used' = count_used - 1
    /\ list_unused' = list_unused \cup {b}
    /\ \/ count_unused' = count_unused + 1
       \/ Racing(l) /\ UNCHANGED count_unused
    /\ UNCHANGED <<buffer_count, usage, ref_count, discard, size>>

\* What the fields of released buffers hold when the pool hands the objects
\* out again: it clears them.
BlankSlip(F) ==
    /\ UNCHANGED discard
    /\ size' = [b \in Buffers |-> IF b \in F THEN 0 ELSE size[b]]
Blank(F) ==
    /\ discard' = [b \in Buffers |-> discard[b] /\ b \notin F]
    /\ size' = [b \in Buffers |-> IF b \in F THEN 0 ELSE size[b]]

-----------------------------------------------------------------------------
(* mpp_buffer_get and mpp_buffer_import *)

\* mpp_buffer_group_unused: what the parser thread asks before it gets.
UnusedSlip ==
    IF mode = "external" THEN count_unused
    ELSE IF limit_count # 0 THEN limit_count ELSE 3
Unused ==
    IF mode = "external" THEN count_unused
    ELSE IF limit_count # 0 THEN limit_count - count_used ELSE 3

Gate(t) ==
    /\ pc[t] = "idle" /\ HandleValid /\ ~is_misc /\ Unused > 0
    /\ Goto(t, "gated") /\ gated' = [gated EXCEPT ![t] = TRUE]
    /\ UNCHANGED <<conf, status, lists, fields, arg, want, locks>>

MayGet(t) ==
    /\ \/ pc[t] = "gated"
       \/ pc[t] = "idle" /\ HandleValid
    /\ is_misc => mode = "internal"
    /\ buf_lock = {}

Fits(n) == {b \in list_unused : size[b] >= n}

\* mpp_buffer_get_unused releases the too small buffers it meets before the
\* one it takes, if the group can make others.
GetFound(t, n) ==
    /\ MayGet(t)
    /\ \E b \in Fits(n) :
       \E F \in (IF mode = "internal" THEN SUBSET (list_unused \ Fits(n)) ELSE {{}}) :
         /\ list_used' = list_used \cup {b} /\ count_used' = count_used + 1
         /\ list_unused' = list_unused \ (F \cup {b})
         /\ count_unused' = count_unused - Cardinality(F) - 1
         /\ buffer_count' = buffer_count - Cardinality(F)
         /\ Uncharge(F) /\ Blank(F)
         /\ ref_count' = [ref_count EXCEPT ![b] = @ + 1]
    /\ Return(t)
    /\ UNCHANGED <<conf, status, locks>>

\* No unused buffer fits: an internal group goes on to mpp_buffer_create.
GetNone(t, n) ==
    /\ MayGet(t) /\ Fits(n) = {}
    /\ IF mode = "internal"
       THEN /\ Release(list_unused) /\ Blank(list_unused)
            /\ Goto(t, "create") /\ want' = [want EXCEPT ![t] = n]
            /\ UNCHANGED <<ref_count, arg, gated>>
       ELSE Return(t) /\ UNCHANGED <<lists, fields>>
    /\ UNCHANGED <<conf, status, locks>>

\* A buffer from outside is committed to the group, or imported without one.
Import(t, n) ==
    /\ pc[t] = "idle" /\ mode = "external" /\ HandleValid
    /\ Goto(t, "create") /\ want' = [want EXCEPT ![t] = n]
    /\ UNCHANGED <<conf, status, lists, fields, arg, gated, locks>>

AtLimit == limit_count # 0 /\ buffer_count >= limit_count

\* mpp_buffer_create tests the limit without a lock ...
CreateAtLimit(t) ==
    /\ pc[t] = "create"
    /\ AtLimit
    /\ Goto(t, "refused")
    /\ UNCHANGED <<conf, status, lists, fields, arg, want, gated, locks>>

\* ... and asks the allocator, which may have no memory (a size over the size
\* limit fails in the same way) ...
CreateAlloc(t) ==
    /\ pc[t] = "create"
    /\ ~AtLimit
    /\ \/ Goto(t, "insert") /\ UNCHANGED <<arg, want, gated>>
       \/ Return(t)
    /\ UNCHANGED <<conf, status, lists, fields, locks>>

\* ... before it adds the buffer under buf_lock: with a first reference for
\* the caller, or unused when it is a commit.  The pool object is cleared.
CreateInsert(t) ==
    /\ pc[t] = "insert" /\ buf_lock = {}
    /\ \E b \in Buffers \ Alive :
         /\ \/ /\ list_used' = list_used \cup {b} /\ count_used' = count_used + 1
               /\ ref_count' = [ref_count EXCEPT ![b] = 1]
               /\ UNCHANGED <<list_unused, count_unused>>
            \/ /\ mode = "external" /\ ~is_misc
               /\ list_unused' = list_unused \cup {b} /\ count_unused' = count_unused + 1
               /\ UNCHANGED <<list_used, count_used, ref_count>>
         /\ buffer_count' = buffer_count + 1
         /\ usage' = [usage EXCEPT ![b] = @ + want[t]]
         /\ size' = [size EXCEPT ![b] = want[t]]
    /\ Return(t)
    /\ UNCHANGED <<conf, status, discard, locks>>

GetRefused(t) ==
    /\ pc[t] = "refused"
    /\ Return(t)
    /\ UNCHANGED <<conf, status, lists, fields, locks>>

-----------------------------------------------------------------------------
(* mpp_buffer_inc_ref and mpp_buffer_put, called by a holder of a reference *)

RefInc(b) ==
    /\ ref_count[b] \in 1 .. MaxRef - 1
    /\ ref_count' = [ref_count EXCEPT ![b] = @ + 1]
    /\ UNCHANGED <<conf, status, lists, discard, size, calls, locks>>

LastRefSlip(b) == ref_count[b] <= 2
LastRef(b) == ref_count[b] = 1

\* The count goes down under the buffer's lock; who brings it to zero then
\* looks for the group.
RefDec(t, b) ==
    /\ pc[t] = "idle" /\ ref_count[b] > 0
    /\ ref_count' = [ref_count EXCEPT ![b] = @ - 1]
    /\ IF LastRef(b)
       THEN Goto(t, "lookup") /\ arg' = [arg EXCEPT ![t] = b]
       ELSE UNCHANGED <<pc, arg>>
    /\ UNCHANGED <<conf, status, lists, discard, size, want, gated, locks>>

RefDecLookup(t) ==
    /\ pc[t] = "lookup" /\ service_lock = {}
    /\ IF status = "destroyed" THEN Return(t)
       ELSE Goto(t, "put") /\ UNCHANGED <<arg, want, gated>>
    /\ UNCHANGED <<conf, status, lists, fields, locks>>

\* reuse of mpp_buffer_ref_dec.
MayReuse(b) == ~is_misc /\ ~discard[b]

\* put_buffer takes the buffer off its list; until it has counted it,
\* list_used still names it here ...
RefDecUnlink(t) ==
    /\ pc[t] = "put" /\ buf_lock = {}
    /\ buf_lock' = {t} /\ overlapped' = (overlapped \/ service_lock # {})
    /\ Goto(t, "count")
    /\ UNCHANGED <<conf, status, lists, fields, arg, want, gated, service_lock>>

Unlinked == {arg[t] : t \in {u \in Threads : pc[u] = "count"}}

\* ... counts it, and goes on to put_group if it was the last one of an orphan.
RefDecCount(t) ==
    /\ pc[t] = "count"
    /\ IF MayReuse(arg[t])
       THEN ReuseBeside("drain", arg[t]) /\ Goto(t, "unlock")
       ELSE /\ ReleaseBeside("drain", {arg[t]}) /\ Blank({arg[t]}) /\ UNCHANGED ref_count
            /\ Goto(t, IF status = "orphan" /\ NoUsage' THEN "destroy" ELSE "unlock")
    /\ UNCHANGED <<conf, status, arg, want, gated, locks>>

\* destroy_group says so when the counters are not zero, and makes them zero.
DestroyGroup ==
    /\ status' = "destroyed"
    /\ count_used' = 0 /\ count_unused' = 0
    /\ UNCHANGED <<list_used, list_unused, buffer_count, usage>>

\* put_group on the empty orphan, buf_lock held.
RefDecDestroy(t) ==
    /\ pc[t] = "destroy" /\ service_lock = {}
    /\ DestroyGroup /\ Goto(t, "unlock")
    /\ UNCHANGED <<conf, fields, arg, want, gated, locks>>

\* The callback and the unlock, of the group as it is or as it was.
RefDecUnlock(t) ==
    /\ pc[t] = "unlock"
    /\ buf_lock' = {} /\ Return(t)
    /\ UNCHANGED <<conf, status, lists, fields, service_lock, overlapped>>

-----------------------------------------------------------------------------
(* mpp_buffer_group_clear and mpp_buffer_group_put *)

\* mpp_buffer_group_reset, for instance before buffers of a new size.
GroupReset(t) ==
    /\ pc[t] = "idle" /\ HandleValid /\ ~is_misc /\ buf_lock = {}
    /\ Release(list_unused)
    /\ discard' = [b \in Buffers |-> b \in list_used]
    /\ size' = [b \in Buffers |-> IF b \in list_unused THEN 0 ELSE size[b]]
    /\ UNCHANGED <<conf, status, ref_count, calls, locks>>

ServiceUnlockSlip == UNCHANGED service_lock
ServiceUnlock == service_lock' = {}

\* put_group, under the service's lock, ...
PutGroup(t) ==
    /\ pc[t] = "idle" /\ HandleValid /\ ~is_misc
    /\ \A u \in Threads : pc[u] \notin GetPcs
    /\ service_lock = {}
    /\ service_lock' = {t} /\ overlapped' = (overlapped \/ buf_lock # {})
    /\ Goto(t, "drain")
    /\ UNCHANGED <<conf, status, lists, fields, arg, want, gated, buf_lock>>

\* ... releases the unused buffers, ...
PutGroupDrain(t) ==
    /\ pc[t] = "drain"
    /\ ReleaseBeside("count", list_unused) /\ Blank(list_unused)
    /\ Goto(t, "put_group")
    /\ UNCHANGED <<conf, status, ref_count, arg, want, gated, locks>>

\* ... destroys a group without a buffer in the list of used ones ...
PutGroupDestroy(t) ==
    /\ pc[t] = "put_group" /\ list_used \subseteq Unlinked
    /\ DestroyGroup /\ ServiceUnlock
    /\ Return(t)
    /\ UNCHANGED <<conf, fields, buf_lock, overlapped>>

\* ... and leaves one with used buffers on the orphan list.
PutGroupBusy(t) ==
    /\ pc[t] = "put_group" /\ ~(list_used \subseteq Unlinked)
    /\ Goto(t, "put_orphan")
    /\ UNCHANGED <<conf, status, lists, fields, arg, want, gated, locks>>

PutGroupOrphan(t) ==
    /\ pc[t] = "put_orphan"
    /\ status' = "orphan" /\ ServiceUnlock
    /\ Return(t)
    /\ UNCHANGED <<conf, lists, fields, buf_lock, overlapped>>

-----------------------------------------------------------------------------

GetStep(t) ==
    \/ Gate(t)
    \/ \E n \in Sizes : GetFound(t, n) \/ GetNone(t, n)

CreateStep(t) ==
    \/ CreateAtLimit(t) \/ CreateAlloc(t) \/ CreateInsert(t) \/ GetRefused(t)

ReleaseStep(t) ==
    \/ RefDecLookup(t)
    \/ RefDecUnlink(t) \/ RefDecCount(t) \/ RefDecDestroy(t) \/ RefDecUnlock(t)

PutGroupStep(t) ==
    \/ PutGroupDrain(t)
    \/ PutGroupDestroy(t) \/ PutGroupBusy(t) \/ PutGroupOrphan(t)

Next ==
    \/ \E t \in Getters : GetStep(t)
    \/ \E t \in Threads :
         \/ \E n \in Sizes : Import(t, n)
         \/ CreateStep(t)
         \/ \E b \in Buffers : RefDec(t, b)
         \/ ReleaseStep(t)
         \/ GroupReset(t) \/ PutGroup(t) \/ PutGroupStep(t)
    \/ \E b \in Buffers : RefInc(b)

Spec == Init /\ [][Next]_vars

\* A thread inside a call runs on, and one that waits for buf_lock, which the
\* others take for short stretches, gets it in the end.
Fairness ==
    \A t \in Threads :
        WF_vars(ReleaseStep(t)) /\ SF_vars(RefDecUnlink(t)) /\ WF_vars(PutGroupStep(t))

FairSpec == Spec /\ Fairness

-----------------------------------------------------------------------------
(* Properties *)

TypeOK ==
    /\ mode \in {"internal", "external"} /\ is_misc \in BOOLEAN /\ limit_count \in Nat
    /\ status \in {"live", "orphan", "destroyed"}
    /\ list_used \subseteq Buffers /\ list_unused \subseteq Buffers
    /\ count_used \in Int /\ count_unused \in Int /\ buffer_count \in Int
    /\ usage \in [Buffers -> Nat] /\ ref_count \in [Buffers -> Nat]
    /\ discard \in [Buffers -> BOOLEAN] /\ size \in [Buffers -> Nat]
    /\ pc \in [Threads -> Pcs] /\ arg \in [Threads -> Buffers \cup {NoBuffer}]
    /\ want \in [Threads -> Nat] /\ gated \in [Threads -> BOOLEAN]
    /\ buf_lock \subseteq Threads /\ service_lock \subseteq Threads
    /\ overlapped \in BOOLEAN

\* A buffer is in one of the lists at most, and what is in one is charged.
ListsSound ==
    /\ list_used \cap list_unused = {}
    /\ \A b \in Buffers : size[b] # 0 <=> b \in Alive
    /\ \A b \in Alive : usage[b] = size[b]

\* The counters, which mpp_buffer_group_unused and the limit go by, and the
\* charged bytes agree with the two lists.
CountsMatchLists ==
    /\ count_used = Cardinality(list_used)
    /\ count_unused = Cardinality(list_unused)
    /\ buffer_count = count_used + count_unused
    /\ \A b \in Buffers : usage[b] = size[b]

\* The lists are sound, and until put_group runs beside a releasing thread the
\* counters agree with them (so none is below zero).
Consistent == TypeOK /\ ListsSound /\ (overlapped \/ CountsMatchLists)

Releasing == {"lookup", "put", "count"}

\* A buffer somebody refers to is not freed and not on offer, and when the
\* last reference goes one thread releases the buffer: a used buffer without
\* a reference is on its way to be put by exactly one thread.
ReferencedStays ==
    /\ \A b \in Buffers : ref_count[b] > 0 => b \in list_used
    /\ \A b \in list_used : ref_count[b] = 0 =>
         \E t \in Threads : pc[t] \in Releasing /\ arg[t] = b
    /\ \A t \in Threads : pc[t] \in Releasing =>
         /\ arg[t] \in list_used /\ ref_count[arg[t]] = 0
         /\ \A u \in Threads \ {t} : pc[u] \in Releasing => arg[u] # arg[t]

\* "discard: ... we will delay relesase buffer after refcount to zero, not put
\* this buf to unused list" (mpp_buffer_impl.h): a buffer that was in use when
\* the group was cleared is never offered again.
DiscardedStaysOut == \A b \in list_unused : ~discard[b]

\* Only what nobody uses and may be used again is on offer, and everything else
\* is with its users or on its way to be put by one thread.
OffersSound == ReferencedStays /\ DiscardedStaysOut

\* A releasing thread finds the group by its id, whoever put the group meanwhile
\* (mpp_assert(group) of mpp_buffer_ref_dec): the group is destroyed under none
\* but the one that has unlinked its buffer already, and under that one only
\* if put_group ran beside it.  An orphan is destroyed once, by the thread that
\* put its last buffer, and empty.
GroupOutlivesUsers ==
    /\ status = "destroyed" =>
         /\ \A t \in Threads : pc[t] \notin {"lookup", "put"}
         /\ list_used \subseteq Unlinked
         /\ overlapped \/ Alive = {}
    /\ \A t \in Threads : pc[t] = "destroy" =>
         /\ status = "orphan" /\ Alive = {}
         /\ \A u \in Threads \ {t} : pc[u] # "destroy"

\* A thread that found unused buffers in an internal group is not refused one,
\* although the answer is taken without a lock and is old when it is used: the
\* parser thread goes to sleep only when somebody is to wake it.
UnusedAnswerHolds ==
    \A t \in Threads : pc[t] = "refused" /\ mode = "internal" => ~gated[t]

\* What a group promises for each buffer.
LifeOf(b) ==
    IF b \in list_used THEN IF discard[b] THEN "retired" ELSE "held"
    ELSE IF b \in list_unused THEN "idle" ELSE "absent"

Life == INSTANCE MppBufferLife WITH
    life <- [b \in Buffers |-> LifeOf(b)],
    open <- HandleValid

ImplementsLife == Life!Spec

\* The two locks are never waited for in a circle: a thread that released a
\* buffer or put the group gets out of the call.
ReleaseEnds ==
    \A t \in Threads :
        pc[t] \in {"lookup", "drain"} ~> pc[t] \notin {"lookup", "put"} \cup Inside \cup PutPcs
=============================================================================
