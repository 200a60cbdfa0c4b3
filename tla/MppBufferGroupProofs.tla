------------------------ MODULE MppBufferGroupProofs ------------------------
(***************************************************************************)
(* Proofs about MppBufferGroup, for any threads, any finite set of buffers *)
(* and any limits.                                                         *)
(***************************************************************************)
EXTENDS MppBufferGroup, FiniteSetTheorems, TLAPS

-----------------------------------------------------------------------------
(* The inductive invariant *)

\* An object that is not in the group has no reference and no discard flag, so
\* the next buffer made of it starts afresh.
Fresh == \A b \in Buffers \ Alive : ref_count[b] = 0 /\ ~discard[b]

\* Threads that get or create use a handle nobody has put; the thread that
\* puts the group has the service's lock until it is done.
CallInv ==
    /\ \A t \in Threads :
         /\ pc[t] \in {"create", "insert"} => want[t] # 0
         /\ pc[t] \in GetPcs => HandleValid
         /\ pc[t] \in PutPcs => status = "live" /\ service_lock = {t}

\* Who holds which lock, and what put_group has left of the unused buffers.
LockInv ==
    /\ HandleValid => service_lock = {} /\ ~overlapped
    /\ service_lock # {} /\ buf_lock # {} => overlapped
    /\ \A t \in Threads :
         /\ pc[t] \in Inside => buf_lock = {t}
         /\ pc[t] \in {"put_group", "put_orphan"} => overlapped \/ list_unused = {}

CountsHold == overlapped \/ CountsMatchLists

GroupInv ==
    /\ TypeOK /\ ListsSound /\ CountsHold /\ Fresh /\ DiscardedStaysOut
    /\ ReferencedStays /\ GroupOutlivesUsers /\ CallInv /\ LockInv

\* The state a step of the counts starts from and ends in.
DataInv == ListsSound /\ CountsHold /\ Fresh /\ DiscardedStaysOut

THEOREM InitGroupInv == Init => GroupInv
<1> SUFFICES ASSUME Init PROVE GroupInv
  OBVIOUS
<1> USE DEF Init
<1>1. Cardinality({}) = 0
  BY FS_EmptySet
<1>2. TypeOK
  <2>1. /\ mode \in {"internal", "external"} /\ is_misc \in BOOLEAN
        /\ limit_count \in Nat
    <3>1. Limits \subseteq Nat
      BY BoundsAssumption
    <3>2. limit_count \in Limits \cup {0}
      OBVIOUS
    <3>3. mode \in {"internal", "external"} /\ is_misc \in BOOLEAN
      BY Zenon
    <3> QED BY <3>1, <3>2, <3>3
  <2>2. overlapped \in BOOLEAN
    BY Zenon
  <2> QED BY <2>1, <2>2 DEF TypeOK, Pcs
<1>3. ListsSound /\ CountsMatchLists /\ Fresh /\ DiscardedStaysOut
  BY <1>1 DEF ListsSound, CountsMatchLists, Fresh, DiscardedStaysOut, Alive
<1>4. ReferencedStays /\ GroupOutlivesUsers
  BY DEF ReferencedStays, GroupOutlivesUsers, Releasing
<1>5. CallInv /\ LockInv
  BY DEF CallInv, LockInv, GetPcs, PutPcs, Inside
<1> QED BY <1>2, <1>3, <1>4, <1>5 DEF GroupInv, CountsHold

-----------------------------------------------------------------------------
(* Lists and counters *)

LEMMA FiniteLists ==
    ASSUME TypeOK
    PROVE  /\ IsFiniteSet(list_used) /\ IsFiniteSet(list_unused)
           /\ \A F \in SUBSET Alive : IsFiniteSet(F) /\ Cardinality(F) \in Nat
           /\ Cardinality(list_used) \in Nat /\ Cardinality(list_unused) \in Nat
<1>1. IsFiniteSet(Buffers)
  BY BoundsAssumption
<1>2. list_used \subseteq Buffers /\ list_unused \subseteq Buffers
  BY DEF TypeOK
<1>3. \A F \in SUBSET Buffers : IsFiniteSet(F) /\ Cardinality(F) \in Nat
  BY <1>1, FS_Subset, FS_CardinalityType
<1> QED BY <1>2, <1>3 DEF Alive

\* Taking a set of the group's buffers off the lists keeps these sound, even when
\* some of the bytes stay charged.
LEMMA UnlistFacts ==
    ASSUME TypeOK, ListsSound, NEW F, F \subseteq Alive, Unlist(F),
           NEW G, G \subseteq F, Uncharge(G),
           size' = [b \in Buffers |-> IF b \in F THEN 0 ELSE size[b]]
    PROVE  /\ ListsSound'
           /\ usage' \in [Buffers -> Nat] /\ size' \in [Buffers -> Nat]
           /\ list_used' \subseteq Buffers /\ list_unused' \subseteq Buffers
           /\ Alive' = Alive \ F
<1>1. /\ list_used \cap list_unused = {}
      /\ \A b \in Buffers : size[b] # 0 <=> b \in Alive
      /\ \A b \in Alive : usage[b] = size[b]
  BY DEF ListsSound
<1>2. /\ list_used' = list_used \ F /\ list_unused' = list_unused \ F
      /\ usage' = [b \in Buffers |-> usage[b] - (IF b \in G THEN size[b] ELSE 0)]
  BY DEF Unlist, Uncharge
<1>3. Alive' = Alive \ F /\ list_used' \cap list_unused' = {}
  BY <1>1, <1>2 DEF Alive
<1>4. usage \in [Buffers -> Nat] /\ size \in [Buffers -> Nat] /\ Alive \subseteq Buffers
  BY DEF TypeOK, Alive
<1>5. ASSUME NEW b \in Buffers
      PROVE  /\ usage'[b] \in Nat /\ size'[b] \in Nat
             /\ size'[b] # 0 <=> b \in Alive'
             /\ b \in Alive' => usage'[b] = size'[b]
  <2>1. usage[b] \in Nat /\ size[b] \in Nat /\ (b \in Alive => usage[b] = size[b])
    BY <1>1, <1>4
  <2>2. usage'[b] = usage[b] - (IF b \in G THEN size[b] ELSE 0)
        /\ size'[b] = IF b \in F THEN 0 ELSE size[b]
    BY <1>2
  <2>3. usage'[b] \in Nat /\ size'[b] \in Nat
    BY <2>1, <2>2
  <2> QED BY <1>1, <1>3, <2>1, <2>2, <2>3
<1>6. usage' \in [Buffers -> Nat] /\ size' \in [Buffers -> Nat]
  BY <1>2, <1>5
<1>7. list_used' \subseteq Buffers /\ list_unused' \subseteq Buffers
  BY <1>2 DEF TypeOK
<1>8. Alive' \subseteq Buffers
  BY <1>7 DEF Alive
<1> QED BY <1>3, <1>5, <1>6, <1>7, <1>8 DEF ListsSound

\* Releasing a set of the group's buffers keeps the counters and the charged
\* bytes in step with the lists.
LEMMA ReleaseFacts ==
    ASSUME TypeOK, ListsSound, CountsMatchLists, NEW F, F \subseteq Alive, Release(F),
           size' = [b \in Buffers |-> IF b \in F THEN 0 ELSE size[b]]
    PROVE  CountsMatchLists'
<1> DEFINE U == F \cap list_used
           V == F \cap list_unused
<1>1. /\ list_used \cap list_unused = {}
      /\ count_used = Cardinality(list_used)
      /\ count_unused = Cardinality(list_unused)
      /\ buffer_count = count_used + count_unused
      /\ \A b \in Buffers : usage[b] = size[b]
  BY DEF ListsSound, CountsMatchLists
<1>2. /\ list_used' = list_used \ F /\ list_unused' = list_unused \ F
      /\ count_used' = count_used - Cardinality(U)
      /\ count_unused' = count_unused - Cardinality(F \ U)
      /\ buffer_count' = buffer_count - Cardinality(F)
      /\ usage' = [b \in Buffers |-> usage[b] - (IF b \in F THEN size[b] ELSE 0)]
  BY DEF Release, Unlist, OnUsed, Uncharge
<1>3. F \ U = V /\ F \cap U = U
  BY <1>1 DEF Alive
<1>4. /\ IsFiniteSet(list_used) /\ IsFiniteSet(list_unused) /\ IsFiniteSet(F)
      /\ Cardinality(F) \in Nat /\ Cardinality(U) \in Nat /\ Cardinality(V) \in Nat
      /\ Cardinality(list_used) \in Nat /\ Cardinality(list_unused) \in Nat
  BY FiniteLists DEF Alive
<1>5. Cardinality(V) = Cardinality(F) - Cardinality(U)
  BY <1>3, <1>4, FS_Difference
<1>6. /\ IsFiniteSet(list_used \ F) /\ IsFiniteSet(list_unused \ F)
      /\ Cardinality(list_used \ F) = Cardinality(list_used) - Cardinality(U)
      /\ Cardinality(list_unused \ F) = Cardinality(list_unused) - Cardinality(V)
  <2>1. U = list_used \cap F /\ V = list_unused \cap F
    OBVIOUS
  <2>2. /\ IsFiniteSet(list_used \ F)
        /\ Cardinality(list_used \ F)
             = Cardinality(list_used) - Cardinality(list_used \cap F)
    BY <1>4, FS_Difference
  <2>3. /\ IsFiniteSet(list_unused \ F)
        /\ Cardinality(list_unused \ F)
             = Cardinality(list_unused) - Cardinality(list_unused \cap F)
    BY <1>4, FS_Difference
  <2> QED BY <2>1, <2>2, <2>3
<1>7. Cardinality(list_used \ F) \in Nat /\ Cardinality(list_unused \ F) \in Nat
  BY <1>6, FS_CardinalityType
<1>8. /\ count_used' = Cardinality(list_used') /\ count_unused' = Cardinality(list_unused')
      /\ buffer_count' = count_used' + count_unused'
      /\ count_used' \in Nat /\ count_unused' \in Nat /\ buffer_count' \in Nat
  <2>1. count_used' = Cardinality(list_used')
    BY <1>1, <1>2, <1>6
  <2>2. count_unused' = Cardinality(list_unused')
    BY <1>1, <1>2, <1>3, <1>6
  <2>3. count_used' \in Nat /\ count_unused' \in Nat
    BY <2>1, <2>2, <1>2, <1>7
  <2>4. /\ count_used' = count_used - Cardinality(U)
        /\ count_unused' = count_unused - Cardinality(V)
        /\ buffer_count' = buffer_count - Cardinality(F)
    BY <1>2, <1>3
  <2>5. count_used \in Nat /\ count_unused \in Nat
    BY <1>1, <1>4
  <2>6. buffer_count' = count_used' + count_unused'
    <3> HIDE DEF U, V
    <3> QED BY <1>1, <1>4, <1>5, <2>4, <2>5
  <2> QED BY <2>1, <2>2, <2>3, <2>6
<1>9. ASSUME NEW b \in Buffers PROVE usage'[b] = size'[b]
  <2>1. usage[b] = size[b] /\ size[b] \in Nat
    BY <1>1 DEF TypeOK
  <2> QED BY <1>2, <2>1
<1> QED BY <1>8, <1>9 DEF CountsMatchLists

-----------------------------------------------------------------------------
(* One step: the lists and the fields of the buffers *)

ListType ==
    /\ list_used \subseteq Buffers /\ list_unused \subseteq Buffers
    /\ count_used \in Int /\ count_unused \in Int /\ buffer_count \in Int
    /\ usage \in [Buffers -> Nat] /\ ref_count \in [Buffers -> Nat]
    /\ discard \in [Buffers -> BOOLEAN] /\ size \in [Buffers -> Nat]

\* The actions that leave the lists and the buffers alone.
QuietStep(t) ==
    \/ Gate(t) \/ CreateAtLimit(t) \/ CreateAlloc(t) \/ GetRefused(t)
    \/ \E n \in Sizes : Import(t, n)
    \/ RefDecLookup(t) \/ RefDecUnlink(t) \/ RefDecUnlock(t)
    \/ PutGroup(t) \/ PutGroupBusy(t) \/ PutGroupOrphan(t)

LEMMA StepCases ==
    ASSUME Next
    PROVE  \/ \E b \in Buffers : RefInc(b)
           \/ \E t \in Threads :
                \/ QuietStep(t)
                \/ \E n \in Sizes : GetFound(t, n) \/ GetNone(t, n)
                \/ CreateInsert(t) \/ (\E b \in Buffers : RefDec(t, b))
                \/ RefDecCount(t) \/ GroupReset(t) \/ PutGroupDrain(t)
                \/ RefDecDestroy(t) \/ PutGroupDestroy(t)
<1>1. Getters \subseteq Threads
  BY BoundsAssumption
<1> QED BY <1>1 DEF Next, GetStep, CreateStep, ReleaseStep, PutGroupStep, QuietStep

LEMMA QuietLists ==
    ASSUME NEW t \in Threads, QuietStep(t)
    PROVE  UNCHANGED <<lists, fields>> /\ (overlapped => overlapped')
<1>1. UNCHANGED <<lists, fields>>
  BY DEF QuietStep, Gate, CreateAtLimit, CreateAlloc, GetRefused, Import, RefDecLookup,
         RefDecUnlink, RefDecUnlock, PutGroup, PutGroupBusy, PutGroupOrphan
<1>2. \/ UNCHANGED locks \/ UNCHANGED overlapped
      \/ overlapped' = (overlapped \/ service_lock # {})
      \/ overlapped' = (overlapped \/ buf_lock # {})
  BY Zenon DEF QuietStep, Gate, CreateAtLimit, CreateAlloc, GetRefused, Import, RefDecLookup,
         RefDecUnlink, RefDecUnlock, PutGroup, PutGroupBusy, PutGroupOrphan
<1>3. overlapped => overlapped'
  BY <1>2, Zenon DEF locks
<1> QED BY <1>1, <1>3

LEMMA SameLists ==
    ASSUME ListType, DataInv, UNCHANGED <<lists, fields>>, overlapped => overlapped'
    PROVE  ListType' /\ DataInv'
BY DEF ListType, DataInv, ListsSound, CountsHold, CountsMatchLists, Fresh, DiscardedStaysOut,
       Alive, lists, fields

\* A thread races with put_group only while the two overlap.
LEMMA RacesOverlap ==
    ASSUME GroupInv, NEW t \in Threads
    PROVE  /\ pc[t] = "count" /\ Racing("drain") => overlapped
           /\ pc[t] = "drain" /\ Racing("count") => overlapped
BY DEF GroupInv, LockInv, CallInv, Racing, Inside, PutPcs

\* The buffers of F go, and the counters agree unless put_group overlaps.
Pared(F) ==
    /\ Unlist(F)
    /\ count_used' \in Int /\ count_unused' \in Int /\ buffer_count' \in Int
    /\ \E G \in SUBSET F : Uncharge(G)
    /\ overlapped \/ Release(F)

LEMMA ReleaseParing ==
    ASSUME TypeOK, NEW F, F \subseteq Alive, NEW l,
           Release(F) \/ (ReleaseBeside(l, F) /\ (Racing(l) => overlapped))
    PROVE  Pared(F)
<1> DEFINE m == Cardinality(OnUsed(F))
           n == Cardinality(F \ OnUsed(F))
           k == Cardinality(F)
<1>1. m \in Nat /\ n \in Nat /\ k \in Nat
  BY FiniteLists DEF OnUsed
<1>2. count_used \in Int /\ count_unused \in Int /\ buffer_count \in Int
  BY DEF TypeOK
<1>3. CASE Release(F)
  <2>1. /\ Unlist(F) /\ Uncharge(F) /\ count_used' = count_used - m
        /\ count_unused' = count_unused - n /\ buffer_count' = buffer_count - k
    BY <1>3 DEF Release
  <2> HIDE DEF m, n, k
  <2>2. count_used' \in Int /\ count_unused' \in Int /\ buffer_count' \in Int
    BY <1>1, <1>2, <2>1
  <2> QED BY <1>3, <2>1, <2>2 DEF Pared
<1>4. CASE ~Release(F)
  <2>1. /\ Unlist(F) /\ (\E G \in SUBSET F : Uncharge(G)) /\ count_used' = count_used - m
        /\ count_unused' \in count_unused - n .. count_unused
        /\ buffer_count' \in buffer_count - k .. buffer_count /\ overlapped
    BY <1>4, Zenon DEF ReleaseBeside
  <2> HIDE DEF m, n, k
  <2>2. count_used' \in Int /\ count_unused' \in Int /\ buffer_count' \in Int
    BY <1>1, <1>2, <2>1
  <2> QED BY <2>1, <2>2 DEF Pared
<1> QED BY <1>3, <1>4

\* Releasing unused buffers, or one used buffer whose last reference is gone,
\* while no buffer outside the list of used ones gets a discard flag.
LEMMA ReleaseKeeps ==
    ASSUME TypeOK, DataInv, NEW F, F \subseteq Alive, Pared(F), UNCHANGED overlapped,
           size' = [b \in Buffers |-> IF b \in F THEN 0 ELSE size[b]],
           UNCHANGED ref_count, \A b \in F : ref_count[b] = 0,
           discard' \in [Buffers -> BOOLEAN],
           \A b \in Buffers : b \notin list_used \ F => ~discard'[b]
    PROVE  ListType' /\ DataInv'
<1>1. ListsSound /\ CountsHold
  BY DEF DataInv
<1>2. PICK G \in SUBSET F : Uncharge(G)
  BY DEF Pared
<1>3. /\ ListsSound'
      /\ usage' \in [Buffers -> Nat] /\ size' \in [Buffers -> Nat]
      /\ list_used' \subseteq Buffers /\ list_unused' \subseteq Buffers
      /\ Alive' = Alive \ F
  BY <1>1, <1>2, UnlistFacts DEF Pared
<1>4. CountsHold'
  <2>1. CASE overlapped
    BY <2>1 DEF CountsHold
  <2>2. CASE ~overlapped
    BY <1>1, <2>2, ReleaseFacts DEF CountsHold, Pared
  <2> QED BY <2>1, <2>2
<1>5. ListType'
  BY <1>3 DEF ListType, TypeOK, Pared
<1>6. list_used' = list_used \ F /\ list_unused' = list_unused \ F
  BY DEF Pared, Unlist
<1>7. Fresh'
  BY <1>3, <1>6 DEF Fresh, DataInv, Alive
<1>8. DiscardedStaysOut'
  BY <1>1, <1>3, <1>6 DEF DiscardedStaysOut, ListsSound
<1> QED BY <1>3, <1>4, <1>5, <1>7, <1>8 DEF DataInv

\* destroy_group, which leaves nothing to count unless put_group overlaps.
LEMMA DestroyKeeps ==
    ASSUME ListType, DataInv, DestroyGroup, UNCHANGED <<fields, overlapped>>,
           overlapped \/ Alive = {}
    PROVE  ListType' /\ DataInv'
<1>1. UNCHANGED <<list_used, list_unused, buffer_count, usage, ref_count, discard, size>>
      /\ count_used' = 0 /\ count_unused' = 0
  BY DEF DestroyGroup, fields
<1>2. ListType'
  BY <1>1 DEF ListType
<1>3. ListsSound' /\ Fresh' /\ DiscardedStaysOut'
  BY <1>1 DEF DataInv, ListsSound, Fresh, DiscardedStaysOut, Alive
<1>4. CountsHold'
  <2>1. CASE overlapped
    BY <2>1 DEF CountsHold
  <2>2. CASE ~overlapped
    <3>1. list_used = {} /\ list_unused = {} /\ Cardinality({}) = 0
      BY <2>2, FS_EmptySet DEF Alive
    <3>2. CountsMatchLists
      BY <2>2 DEF DataInv, CountsHold
    <3> QED BY <1>1, <3>1, <3>2 DEF CountsHold, CountsMatchLists
  <2> QED BY <2>1, <2>2
<1> QED BY <1>2, <1>3, <1>4 DEF DataInv

\* The group is destroyed with a buffer left only if put_group overlapped.
LEMMA DestroyData ==
    ASSUME GroupInv, NEW t \in Threads, RefDecDestroy(t) \/ PutGroupDestroy(t)
    PROVE  /\ ListType' /\ DataInv'
           /\ DestroyGroup /\ UNCHANGED <<fields, overlapped>>
           /\ overlapped \/ Alive = {}
           /\ list_used \subseteq Unlinked
<1>1. ListType /\ DataInv
  BY DEF GroupInv, DataInv, TypeOK, ListType
<1>2. DestroyGroup /\ UNCHANGED <<fields, overlapped>>
  BY DEF RefDecDestroy, PutGroupDestroy, locks
<1>3. CASE RefDecDestroy(t)
  <2>1. Alive = {}
    BY <1>3 DEF RefDecDestroy, GroupInv, GroupOutlivesUsers
  <2> QED BY <1>1, <1>2, <2>1, DestroyKeeps DEF Alive
<1>4. CASE PutGroupDestroy(t)
  <2>1. pc[t] = "put_group" /\ list_used \subseteq Unlinked
    BY <1>4 DEF PutGroupDestroy
  <2>2. ~overlapped => Unlinked = {}
    BY <2>1 DEF GroupInv, LockInv, CallInv, PutPcs, Inside, Unlinked
  <2>3. overlapped \/ Alive = {}
    BY <2>1, <2>2 DEF GroupInv, LockInv, Alive
  <2> QED BY <1>1, <1>2, <2>1, <2>3, DestroyKeeps
<1> QED BY <1>3, <1>4

LEMMA UnusedHaveNoReference ==
    ASSUME GroupInv
    PROVE  \A b \in list_unused : b \in Buffers /\ ref_count[b] = 0 /\ ~discard[b]
BY DEF GroupInv, ReferencedStays, ListsSound, DiscardedStaysOut, TypeOK

\* The discard flags of a group whose used buffers keep theirs.
LEMMA FlagsOutside ==
    ASSUME GroupInv
    PROVE  \A b \in Buffers : b \notin list_used => ~discard[b]
BY DEF GroupInv, Fresh, DiscardedStaysOut, Alive

LEMMA GetNoneData ==
    ASSUME GroupInv, NEW t \in Threads, NEW n \in Sizes, GetNone(t, n)
    PROVE  ListType' /\ DataInv'
<1>1. TypeOK /\ DataInv /\ ListType
  BY DEF GroupInv, DataInv, TypeOK, ListType
<1>2. CASE mode = "internal"
  <2>1. /\ Release(list_unused) /\ Blank(list_unused) /\ UNCHANGED <<ref_count, overlapped>>
    BY <1>2 DEF GetNone, locks
  <2>4. Pared(list_unused)
    BY <1>1, <2>1, ReleaseParing DEF Alive
  <2>2. \A b \in Buffers : b \notin list_used \ list_unused => ~discard'[b]
    BY <2>1, FlagsOutside DEF Blank
  <2>3. discard' \in [Buffers -> BOOLEAN]
    BY <2>1, <1>1, Zenon DEF Blank, ListType
  <2> QED
    BY <1>1, <2>1, <2>2, <2>3, <2>4, ReleaseKeeps, UnusedHaveNoReference DEF Blank, Alive
<1>3. CASE mode # "internal"
  <2>1. UNCHANGED <<lists, fields>> /\ UNCHANGED overlapped
    BY <1>3 DEF GetNone, locks
  <2> QED BY <1>1, <2>1, SameLists
<1> QED BY <1>2, <1>3

LEMMA DrainData ==
    ASSUME GroupInv, NEW t \in Threads, PutGroupDrain(t) \/ GroupReset(t)
    PROVE  ListType' /\ DataInv'
<1>1. TypeOK /\ DataInv
  BY DEF GroupInv, DataInv
<1>2. CASE PutGroupDrain(t)
  <2>1. /\ ReleaseBeside("count", list_unused) /\ Blank(list_unused)
        /\ UNCHANGED <<ref_count, overlapped>> /\ pc[t] = "drain"
    BY <1>2 DEF PutGroupDrain, locks
  <2>4. Pared(list_unused)
    BY <1>1, <2>1, RacesOverlap, ReleaseParing DEF Alive
  <2>2. \A b \in Buffers : b \notin list_used \ list_unused => ~discard'[b]
    BY <2>1, FlagsOutside DEF Blank
  <2>3. discard' \in [Buffers -> BOOLEAN]
    BY <2>1, <1>1, Zenon DEF Blank, TypeOK
  <2> QED
    BY <1>1, <2>1, <2>2, <2>3, <2>4, ReleaseKeeps, UnusedHaveNoReference DEF Blank, Alive
<1>3. CASE GroupReset(t)
  <2>1. /\ Release(list_unused) /\ UNCHANGED <<ref_count, overlapped>>
        /\ size' = [b \in Buffers |-> IF b \in list_unused THEN 0 ELSE size[b]]
        /\ discard' = [b \in Buffers |-> b \in list_used]
    BY <1>3 DEF GroupReset, locks
  <2>2. list_used \cap list_unused = {}
    BY DEF GroupInv, ListsSound
  <2>3. \A b \in Buffers : b \notin list_used \ list_unused => ~discard'[b]
    BY <2>1, <2>2
  <2>4. discard' \in [Buffers -> BOOLEAN]
    <3>1. \A c \in Buffers : (c \in list_used) \in BOOLEAN
      OBVIOUS
    <3> QED BY <2>1, <3>1, Zenon
  <2>5. Pared(list_unused)
    BY <1>1, <2>1, ReleaseParing DEF Alive
  <2> QED
    BY <1>1, <2>1, <2>3, <2>4, <2>5, ReleaseKeeps, UnusedHaveNoReference DEF Alive
<1> QED BY <1>2, <1>3

LEMMA RefDecCountData ==
    ASSUME GroupInv, NEW t \in Threads, RefDecCount(t)
    PROVE  ListType' /\ DataInv'
<1> DEFINE b == arg[t]
<1>1. TypeOK /\ DataInv /\ ListsSound /\ ListType /\ UNCHANGED overlapped
  BY DEF GroupInv, DataInv, TypeOK, ListType, RefDecCount, locks
<1>2. /\ pc[t] = "count" /\ b \in list_used /\ ref_count[b] = 0 /\ b \in Buffers
      /\ Racing("drain") => overlapped
  BY RacesOverlap DEF GroupInv, ReferencedStays, Releasing, RefDecCount, TypeOK
<1>3. CASE MayReuse(b)
  <2>1. ReuseBeside("drain", b) /\ ~discard[b]
    BY <1>3 DEF RefDecCount, MayReuse
  <2> HIDE DEF b
  <2>2. /\ list_used' = list_used \ {b} /\ count_used' = count_used - 1
        /\ list_unused' = list_unused \cup {b}
        /\ count_unused' = count_unused + 1 \/ (overlapped /\ UNCHANGED count_unused)
        /\ UNCHANGED <<buffer_count, usage, ref_count, discard, size>>
    BY <1>2, <2>1 DEF ReuseBeside
  <2>3. b \notin list_unused
    BY <1>1, <1>2 DEF ListsSound
  <2>4. Alive' = Alive
    BY <1>2, <2>2 DEF Alive
  <2>5. ListsSound'
    BY <1>1, <2>2, <2>4 DEF ListsSound
  <2>6. CountsHold'
    <3>1. CASE overlapped
      BY <1>1, <3>1 DEF CountsHold
    <3>2. CASE ~overlapped
      <4>1. /\ Cardinality(list_used \ {b}) = Cardinality(list_used) - 1
            /\ Cardinality(list_unused \cup {b}) = Cardinality(list_unused) + 1
            /\ Cardinality(list_used) \in Nat /\ Cardinality(list_unused) \in Nat
        BY <1>1, <1>2, <2>3, FiniteLists, FS_RemoveElement, FS_AddElement
      <4>2. CountsMatchLists
        BY <1>1, <3>2 DEF DataInv, CountsHold
      <4> QED BY <2>2, <3>2, <4>1, <4>2 DEF CountsMatchLists, CountsHold
    <3> QED BY <3>1, <3>2
  <2>7. ListType'
    BY <1>1, <1>2, <2>2 DEF ListType
  <2>8. Fresh' /\ DiscardedStaysOut'
    BY <1>1, <2>1, <2>2, <2>4 DEF Fresh, DiscardedStaysOut, DataInv
  <2> QED BY <2>5, <2>6, <2>7, <2>8 DEF DataInv
<1>4. CASE ~MayReuse(b)
  <2>1. ReleaseBeside("drain", {b}) /\ Blank({b}) /\ UNCHANGED ref_count
    BY <1>4 DEF RefDecCount
  <2>2. \A c \in Buffers : c \notin list_used \ {b} => ~discard'[c]
    BY <2>1, FlagsOutside DEF Blank
  <2>3. discard' \in [Buffers -> BOOLEAN]
    BY <2>1, <1>1, Zenon DEF Blank, TypeOK
  <2>4. {b} \subseteq Alive /\ \A c \in {b} : ref_count[c] = 0
    BY <1>2 DEF Alive
  <2>5. size' = [c \in Buffers |-> IF c \in {b} THEN 0 ELSE size[c]]
    BY <2>1 DEF Blank
  <2>6. Pared({b})
    BY <1>1, <1>2, <2>1, <2>4, ReleaseParing
  <2> HIDE DEF b
  <2> QED BY <1>1, <2>1, <2>2, <2>3, <2>4, <2>5, <2>6, ReleaseKeeps
<1> QED BY <1>3, <1>4

\* Who gets or creates does so before the group is put: the counters agree.
LEMMA OpenCounts ==
    ASSUME GroupInv, HandleValid
    PROVE  ~overlapped /\ CountsMatchLists
BY DEF GroupInv, LockInv, CountsHold

LEMMA GettersOpen ==
    ASSUME GroupInv, NEW t \in Threads,
           \/ \E n \in Sizes : GetFound(t, n) \/ GetNone(t, n)
           \/ CreateInsert(t)
    PROVE  HandleValid
BY DEF GroupInv, CallInv, GetPcs, GetFound, GetNone, MayGet, CreateInsert

LEMMA CreateInsertData ==
    ASSUME GroupInv, NEW t \in Threads, CreateInsert(t)
    PROVE  ListType' /\ DataInv'
<1>1. TypeOK /\ DataInv /\ ListsSound /\ CountsMatchLists /\ ~overlapped /\ UNCHANGED overlapped
  BY GettersOpen, OpenCounts DEF GroupInv, DataInv, CreateInsert, locks
<1>2. want[t] \in Nat /\ want[t] # 0
  BY DEF GroupInv, CallInv, CreateInsert, TypeOK
<1>3. PICK b \in Buffers \ Alive :
        /\ \/ /\ list_used' = list_used \cup {b} /\ count_used' = count_used + 1
              /\ ref_count' = [ref_count EXCEPT ![b] = 1]
              /\ UNCHANGED <<list_unused, count_unused>>
           \/ /\ mode = "external" /\ ~is_misc
              /\ list_unused' = list_unused \cup {b} /\ count_unused' = count_unused + 1
              /\ UNCHANGED <<list_used, count_used, ref_count>>
        /\ buffer_count' = buffer_count + 1
        /\ usage' = [usage EXCEPT ![b] = @ + want[t]]
        /\ size' = [size EXCEPT ![b] = want[t]]
  BY Zenon DEF CreateInsert
<1>4. UNCHANGED discard
  BY DEF CreateInsert
<1>5. /\ Cardinality(list_used \cup {b}) = Cardinality(list_used) + 1
      /\ Cardinality(list_unused \cup {b}) = Cardinality(list_unused) + 1
      /\ Cardinality(list_used) \in Nat /\ Cardinality(list_unused) \in Nat
  BY <1>1, <1>3, FiniteLists, FS_AddElement DEF Alive
<1>6. b \in Buffers /\ b \notin list_used /\ b \notin list_unused
      /\ size[b] = 0 /\ usage[b] = 0 /\ ref_count[b] = 0 /\ ~discard[b]
  BY <1>1, <1>3 DEF Alive, ListsSound, CountsMatchLists, DataInv, Fresh, TypeOK
<1>7. Alive' = Alive \cup {b}
  BY <1>3 DEF Alive
<1>8. CountsMatchLists'
  <2>1. /\ count_used' = Cardinality(list_used')
        /\ count_unused' = Cardinality(list_unused')
        /\ buffer_count' = count_used' + count_unused'
    <3>1. \/ /\ list_used' = list_used \cup {b} /\ count_used' = count_used + 1
             /\ list_unused' = list_unused /\ count_unused' = count_unused
          \/ /\ list_unused' = list_unused \cup {b} /\ count_unused' = count_unused + 1
             /\ list_used' = list_used /\ count_used' = count_used
      BY <1>3
    <3>2. /\ count_used = Cardinality(list_used)
          /\ count_unused = Cardinality(list_unused)
          /\ buffer_count = count_used + count_unused
          /\ buffer_count' = buffer_count + 1
      BY <1>1, <1>3 DEF CountsMatchLists
    <3>4. count_used' = Cardinality(list_used') /\ count_unused' = Cardinality(list_unused')
      BY <3>1, <3>2, <1>5
    <3>5. buffer_count' = count_used' + count_unused'
      BY <3>1, <3>2, <1>5
    <3> QED BY <3>4, <3>5
  <2>2. \A c \in Buffers : usage'[c] = size'[c]
    BY <1>1, <1>2, <1>3, <1>6 DEF CountsMatchLists, TypeOK
  <2> QED BY <2>1, <2>2 DEF CountsMatchLists
<1>11. ListsSound'
  <2>1. list_used' \cap list_unused' = {}
    BY <1>1, <1>3, <1>6 DEF ListsSound
  <2>2. \A c \in Buffers : size'[c] # 0 <=> c \in Alive'
    BY <1>1, <1>2, <1>3, <1>6, <1>7 DEF ListsSound, TypeOK
  <2>3. \A c \in Alive' : c \in Buffers /\ usage'[c] = size'[c]
    BY <1>1, <1>3, <1>7, <1>8 DEF CountsMatchLists, Alive, TypeOK
  <2> QED BY <2>1, <2>2, <2>3 DEF ListsSound
<1>9. ListType'
  BY <1>1, <1>2, <1>3, <1>4, <1>6 DEF ListType, TypeOK
<1>10. Fresh' /\ DiscardedStaysOut'
  BY <1>1, <1>3, <1>4, <1>6, <1>7 DEF DataInv, Fresh, DiscardedStaysOut, Alive, TypeOK
<1> QED BY <1>8, <1>9, <1>10, <1>11 DEF DataInv, CountsHold

LEMMA GetFoundData ==
    ASSUME GroupInv, NEW t \in Threads, NEW n \in Sizes, GetFound(t, n)
    PROVE  ListType' /\ DataInv'
<1>1. TypeOK /\ DataInv /\ ListsSound /\ CountsMatchLists /\ ~overlapped /\ UNCHANGED overlapped
  BY GettersOpen, OpenCounts DEF GroupInv, DataInv, GetFound, locks
<1>2. PICK b \in Fits(n) :
      \E F \in (IF mode = "internal" THEN SUBSET (list_unused \ Fits(n)) ELSE {{}}) :
        /\ list_used' = list_used \cup {b} /\ count_used' = count_used + 1
        /\ list_unused' = list_unused \ (F \cup {b})
        /\ count_unused' = count_unused - Cardinality(F) - 1
        /\ buffer_count' = buffer_count - Cardinality(F)
        /\ Uncharge(F) /\ Blank(F)
        /\ ref_count' = [ref_count EXCEPT ![b] = @ + 1]
  BY Zenon DEF GetFound
<1>3. PICK F \in (IF mode = "internal" THEN SUBSET (list_unused \ Fits(n)) ELSE {{}}) :
        /\ list_used' = list_used \cup {b} /\ count_used' = count_used + 1
        /\ list_unused' = list_unused \ (F \cup {b})
        /\ count_unused' = count_unused - Cardinality(F) - 1
        /\ buffer_count' = buffer_count - Cardinality(F)
        /\ Uncharge(F) /\ Blank(F)
        /\ ref_count' = [ref_count EXCEPT ![b] = @ + 1]
  BY <1>2, Zenon
<1>4. F \subseteq list_unused /\ b \in list_unused /\ b \notin F
  BY <1>3 DEF Fits
<1>5. /\ b \in Buffers /\ b \notin list_used /\ F \cap list_used = {}
      /\ ref_count[b] = 0 /\ ~discard[b] /\ F \subseteq Buffers
  BY <1>1, <1>4, UnusedHaveNoReference DEF ListsSound
<1>6. /\ Cardinality(list_used \cup {b}) = Cardinality(list_used) + 1
      /\ Cardinality(list_used) \in Nat
  BY <1>1, <1>5, FiniteLists, FS_AddElement
<1>7. /\ Cardinality(list_unused \ (F \cup {b})) = Cardinality(list_unused) - Cardinality(F) - 1
      /\ Cardinality(list_unused \ (F \cup {b})) \in Nat
      /\ Cardinality(F) \in Nat /\ Cardinality(list_unused) \in Nat
  <2> DEFINE G == F \cup {b}
  <2>1. IsFiniteSet(list_unused) /\ IsFiniteSet(F) /\ Cardinality(F) \in Nat
        /\ Cardinality(list_unused) \in Nat
    BY <1>1, <1>4, FiniteLists DEF Alive
  <2>2. Cardinality(G) = Cardinality(F) + 1
    BY <2>1, <1>4, FS_AddElement
  <2>3. list_unused \cap G = G
    BY <1>4
  <2>4. /\ IsFiniteSet(list_unused \ G)
        /\ Cardinality(list_unused \ G) = Cardinality(list_unused) - Cardinality(list_unused \cap G)
    BY <2>1, FS_Difference
  <2>5. Cardinality(list_unused \ G) \in Nat
    BY <2>4, FS_CardinalityType
  <2>6. Cardinality(list_unused \ G) = Cardinality(list_unused) - Cardinality(G)
    BY <2>3, <2>4
  <2> HIDE DEF G
  <2>7. Cardinality(list_unused \ G) = Cardinality(list_unused) - Cardinality(F) - 1
    BY <2>1, <2>2, <2>6
  <2> QED BY <2>1, <2>5, <2>7 DEF G
<1>8. Alive' = Alive \ F
  BY <1>3, <1>4, <1>5 DEF Alive
<1>9. CountsMatchLists' /\ ListsSound'
  <2>1. list_used' \cap list_unused' = {}
    BY <1>1, <1>3 DEF ListsSound
  <2>2. count_used' = Cardinality(list_used') /\ count_unused' = Cardinality(list_unused')
    BY <1>1, <1>3, <1>6, <1>7 DEF CountsMatchLists
  <2>3. buffer_count' = count_used' + count_unused'
    BY <1>1, <1>3, <1>6, <1>7 DEF CountsMatchLists
  <2>4. \A c \in Buffers : usage'[c] = size'[c] /\ (size'[c] # 0 <=> c \in Alive')
    BY <1>1, <1>3, <1>4, <1>8 DEF ListsSound, CountsMatchLists, TypeOK, Uncharge, Blank
  <2>5. Alive' \subseteq Buffers
    BY <1>1, <1>8 DEF TypeOK, Alive
  <2> QED BY <2>1, <2>2, <2>3, <2>4, <2>5 DEF ListsSound, CountsMatchLists
<1>10. ListType'
  <2>1. list_used' \subseteq Buffers /\ list_unused' \subseteq Buffers
    BY <1>1, <1>3, <1>5 DEF TypeOK
  <2>2. count_used' \in Int /\ count_unused' \in Int /\ buffer_count' \in Int
    <3>1. Cardinality(list_used') \in Nat
      BY <1>3, <1>6
    <3>2. Cardinality(list_unused') \in Nat
      BY <1>3, <1>7
    <3>3. /\ count_used' = Cardinality(list_used')
          /\ count_unused' = Cardinality(list_unused')
          /\ buffer_count' = count_used' + count_unused'
      BY <1>9 DEF CountsMatchLists
    <3> QED BY <3>1, <3>2, <3>3
  <2>3. usage' \in [Buffers -> Nat] /\ size' \in [Buffers -> Nat]
    BY <1>1, <1>3 DEF TypeOK, Uncharge, Blank, CountsMatchLists
  <2>4. ref_count' \in [Buffers -> Nat]
    BY <1>1, <1>3, <1>5 DEF TypeOK
  <2>5. discard' \in [Buffers -> BOOLEAN]
    BY <1>1, <1>3, Zenon DEF TypeOK, Blank
  <2> QED BY <2>1, <2>2, <2>3, <2>4, <2>5 DEF ListType
<1>11. Fresh' /\ DiscardedStaysOut'
  <2>1. \A c \in Buffers : discard'[c] = (discard[c] /\ c \notin F)
    BY <1>3, Zenon DEF Blank
  <2>2. DiscardedStaysOut'
    <3>1. list_unused' \subseteq list_unused /\ list_unused \subseteq Buffers
      BY <1>1, <1>3 DEF TypeOK
    <3> QED BY <2>1, <3>1, UnusedHaveNoReference DEF DiscardedStaysOut
  <2>3. Fresh'
    <3>1. ASSUME NEW c \in Buffers \ Alive'
          PROVE  c # b /\ ref_count[c] = 0 /\ ~discard[c]
      <4>1. c # b
        BY <1>3, <3>1 DEF Alive
      <4>2. c \in list_unused \/ c \notin Alive
        BY <1>4, <1>8, <3>1
      <4> QED BY <1>1, <4>1, <4>2, UnusedHaveNoReference DEF DataInv, Fresh
    <3>2. \A c \in Buffers : c # b => ref_count'[c] = ref_count[c]
      BY <1>1, <1>3 DEF TypeOK
    <3> QED BY <2>1, <3>1, <3>2 DEF Fresh
  <2> QED BY <2>2, <2>3
<1> QED BY <1>9, <1>10, <1>11 DEF DataInv, CountsHold

LEMMA RefData ==
    ASSUME GroupInv, NEW b \in Buffers,
           RefInc(b) \/ \E t \in Threads : RefDec(t, b)
    PROVE  ListType' /\ DataInv'
<1>1. /\ ref_count[b] > 0 /\ UNCHANGED <<lists, discard, size, overlapped>>
      /\ \/ ref_count' = [ref_count EXCEPT ![b] = @ + 1]
         \/ ref_count' = [ref_count EXCEPT ![b] = @ - 1]
  BY BoundsAssumption DEF RefInc, RefDec, locks
<1>2. TypeOK /\ DataInv /\ b \in list_used
  <2>1. ref_count[b] # 0 /\ TypeOK /\ DataInv
    BY <1>1 DEF GroupInv, DataInv, TypeOK
  <2> QED BY <1>1, <2>1 DEF GroupInv, ReferencedStays
<1>3. ref_count' \in [Buffers -> Nat]
  BY <1>1, <1>2 DEF TypeOK
<1> QED BY <1>1, <1>2, <1>3
        DEF ListType, DataInv, TypeOK, ListsSound, CountsHold, CountsMatchLists, Fresh, DiscardedStaysOut, Alive, lists

LEMMA DataStep ==
    ASSUME GroupInv, [Next]_vars
    PROVE  ListType' /\ DataInv'
<1>1. ListType /\ DataInv
  BY DEF GroupInv, DataInv, TypeOK, ListType
<1>2. CASE UNCHANGED vars
  BY <1>1, <1>2, SameLists DEF vars, lists, fields, locks
<1>3. ASSUME NEW t \in Threads, QuietStep(t) PROVE ListType' /\ DataInv'
  BY <1>1, <1>3, QuietLists, SameLists
<1>4. CASE Next
  BY <1>3, <1>4, StepCases, GetFoundData, GetNoneData, CreateInsertData, RefData,
     RefDecCountData, DrainData, DestroyData
<1> QED BY <1>2, <1>4

-----------------------------------------------------------------------------
(* One step: where the threads are *)

CallType ==
    /\ mode \in {"internal", "external"} /\ is_misc \in BOOLEAN /\ limit_count \in Nat
    /\ status \in {"live", "orphan", "destroyed"}
    /\ pc \in [Threads -> Pcs] /\ arg \in [Threads -> Buffers \cup {NoBuffer}]
    /\ want \in [Threads -> Nat] /\ gated \in [Threads -> BOOLEAN]
    /\ buf_lock \subseteq Threads /\ service_lock \subseteq Threads
    /\ overlapped \in BOOLEAN

\* What the step of thread t may do to the calls.
CallChange(t) ==
    /\ UNCHANGED conf
    /\ status' \in {status, "orphan", "destroyed"}
    /\ UNCHANGED pc \/ \E l \in Pcs : Goto(t, l)
    /\ UNCHANGED arg \/ \E b \in Buffers \cup {NoBuffer} : arg' = [arg EXCEPT ![t] = b]
    /\ UNCHANGED want \/ \E n \in Nat : want' = [want EXCEPT ![t] = n]
    /\ UNCHANGED gated \/ \E g \in BOOLEAN : gated' = [gated EXCEPT ![t] = g]
    /\ buf_lock' \in {buf_lock, {}, {t}} /\ service_lock' \in {service_lock, {}, {t}}
    /\ overlapped' \in {overlapped, TRUE, FALSE}

LEMMA CallChangeType ==
    ASSUME TypeOK, NEW t \in Threads, CallChange(t)
    PROVE  CallType'
<1>1. UNCHANGED <<mode, is_misc, limit_count>>
  BY DEF CallChange, conf
<1>2. /\ mode' \in {"internal", "external"} /\ limit_count' \in Nat
      /\ is_misc' \in BOOLEAN
  BY <1>1, Zenon DEF TypeOK
<1>3. /\ status' \in {"live", "orphan", "destroyed"}
      /\ buf_lock' \subseteq Threads /\ service_lock' \subseteq Threads
  BY DEF CallChange, TypeOK
<1>4. pc' \in [Threads -> Pcs]
  BY DEF CallChange, TypeOK, Goto
<1>5. arg' \in [Threads -> Buffers \cup {NoBuffer}] /\ want' \in [Threads -> Nat]
  BY DEF CallChange, TypeOK
<1>6. gated' \in [Threads -> BOOLEAN]
  BY Zenon DEF CallChange, TypeOK
<1>7. overlapped' \in BOOLEAN
  BY Zenon DEF CallChange, TypeOK
<1> QED BY <1>2, <1>3, <1>4, <1>5, <1>6, <1>7 DEF CallType

LEMMA ReturnChange ==
    ASSUME NEW t \in Threads, Return(t), UNCHANGED conf,
           status' \in {status, "orphan", "destroyed"},
           buf_lock' \in {buf_lock, {}, {t}}, service_lock' \in {service_lock, {}, {t}},
           UNCHANGED overlapped
    PROVE  CallChange(t)
BY Zenon DEF Return, CallChange, Pcs

LEMMA CallTypes ==
    ASSUME TypeOK, [Next]_vars
    PROVE  CallType'
<1>1. CASE UNCHANGED vars
  BY <1>1, Zenon DEF vars, conf, calls, locks, TypeOK, CallType
<1>2. CASE \E b \in Buffers : RefInc(b)
  BY <1>2, Zenon DEF RefInc, conf, calls, locks, TypeOK, CallType
<1>3. ASSUME NEW t \in Threads,
             \/ QuietStep(t)
             \/ \E n \in Sizes : GetFound(t, n) \/ GetNone(t, n)
             \/ CreateInsert(t) \/ (\E b \in Buffers : RefDec(t, b))
             \/ RefDecCount(t) \/ GroupReset(t) \/ PutGroupDrain(t)
             \/ RefDecDestroy(t) \/ PutGroupDestroy(t)
      PROVE  CallType'
  <2> USE DEF CallChange, calls, locks, Pcs, GetPcs, PutPcs, Inside
  <2> SUFFICES CallChange(t)
    BY CallChangeType, Zenon
  <2>1. CASE Gate(t)
    BY <2>1, Zenon DEF Gate
  <2>2. CASE CreateAtLimit(t) \/ CreateAlloc(t) \/ GetRefused(t)
    BY <2>2, ReturnChange, Zenon DEF CreateAtLimit, CreateAlloc, GetRefused
  <2>3. ASSUME NEW n \in Sizes, Import(t, n) \/ GetNone(t, n) PROVE CallChange(t)
    <3>1. n \in Nat
      BY BoundsAssumption
    <3> QED BY <3>1, <2>3, ReturnChange, Zenon DEF Import, GetNone
  <2>4. CASE RefDecLookup(t) \/ RefDecUnlock(t)
    BY <2>4, ReturnChange, Zenon DEF RefDecLookup, RefDecUnlock
  <2>5. CASE PutGroupDestroy(t) \/ PutGroupBusy(t) \/ PutGroupOrphan(t)
    BY <2>5, ReturnChange, Zenon
       DEF PutGroupDestroy, DestroyGroup, PutGroupBusy, PutGroupOrphan, ServiceUnlock
  <2>6. ASSUME NEW n \in Sizes, GetFound(t, n) PROVE CallChange(t)
    BY <2>6, ReturnChange, Zenon DEF GetFound
  <2>7. CASE CreateInsert(t)
    BY <2>7, ReturnChange, Zenon DEF CreateInsert
  <2>8. ASSUME NEW b \in Buffers, RefDec(t, b) PROVE CallChange(t)
    BY <2>8, Zenon DEF RefDec
  <2>9. CASE RefDecCount(t)
    <3>1. Goto(t, "destroy") \/ Goto(t, "unlock")
      BY <2>9, Zenon DEF RefDecCount
    <3> QED BY <2>9, <3>1, Zenon DEF RefDecCount
  <2>10. CASE GroupReset(t) \/ PutGroupDrain(t)
    BY <2>10, Zenon DEF GroupReset, PutGroupDrain
  <2>11. CASE RefDecDestroy(t)
    BY <2>11, Zenon DEF RefDecDestroy, DestroyGroup
  <2>12. CASE RefDecUnlink(t)
    <3>1. overlapped' \in {TRUE, FALSE}
      BY <2>12, Zenon DEF RefDecUnlink
    <3> QED BY <2>12, <3>1, Zenon DEF RefDecUnlink
  <2>13. CASE PutGroup(t)
    <3>1. overlapped' \in {TRUE, FALSE}
      BY <2>13, Zenon DEF PutGroup
    <3> QED BY <2>13, <3>1, Zenon DEF PutGroup
  <2> QED BY <2>11, <2>12, <2>13, <1>3, <2>1, <2>2, <2>3, <2>4, <2>5, <2>6, <2>7, <2>8, <2>9, <2>10, Zenon DEF QuietStep
<1>4. CASE Next
  BY <1>2, <1>3, <1>4, StepCases, Zenon
<1> QED BY <1>1, <1>4

-----------------------------------------------------------------------------
(* One step: references and the threads that release buffers *)

\* Buffers enter list_used with a reference, the others keep theirs, and no
\* thread starts or ends a release.
LEMMA RefsGrow ==
    ASSUME ReferencedStays, list_used \subseteq list_used',
           \A b \in Buffers : \/ ref_count'[b] = ref_count[b] /\ (b \in list_used' => b \in list_used)
                              \/ ref_count'[b] # 0 /\ b \in list_used' /\ (ref_count[b] # 0 \/ b \notin list_used),
           list_used' \subseteq Buffers,
           \A u \in Threads : /\ pc'[u] \in Releasing <=> pc[u] \in Releasing
                              /\ pc[u] \in Releasing => arg'[u] = arg[u]
    PROVE  ReferencedStays'
<1>1. \A b \in Buffers : ref_count'[b] > 0 => b \in list_used'
  BY DEF ReferencedStays
<1>2. \A b \in list_used' : ref_count'[b] = 0 =>
         \E t \in Threads : pc'[t] \in Releasing /\ arg'[t] = b
  BY DEF ReferencedStays
<1>3. ASSUME NEW t \in Threads, pc'[t] \in Releasing
      PROVE  /\ arg'[t] \in list_used' /\ ref_count'[arg'[t]] = 0
             /\ \A u \in Threads \ {t} : pc'[u] \in Releasing => arg'[u] # arg'[t]
  BY <1>3 DEF ReferencedStays
<1> QED BY <1>1, <1>2, <1>3, Zenon DEF ReferencedStays, Releasing

\* A thread that is not releasing goes to a place where it still is not.
LEMMA ThreadsKeep ==
    ASSUME TypeOK, NEW t \in Threads, pc[t] \notin Releasing,
           Return(t) \/ (UNCHANGED arg /\ \E l \in Pcs \ Releasing : Goto(t, l))
    PROVE  \A u \in Threads : /\ pc'[u] \in Releasing <=> pc[u] \in Releasing
                              /\ pc[u] \in Releasing => arg'[u] = arg[u]
<1>1. /\ "idle" \notin Releasing
      /\ pc \in [Threads -> Pcs] /\ arg \in [Threads -> Buffers \cup {NoBuffer}]
  BY DEF TypeOK, Releasing
<1>2. CASE Return(t)
  BY <1>1, <1>2 DEF Return, Goto
<1>3. CASE UNCHANGED arg /\ \E l \in Pcs \ Releasing : Goto(t, l)
  BY <1>1, <1>3 DEF Goto
<1> QED BY <1>2, <1>3

LEMMA RefsQuiet ==
    ASSUME GroupInv, NEW t \in Threads, QuietStep(t)
    PROVE  ReferencedStays'
<1>1. TypeOK /\ ReferencedStays /\ GroupOutlivesUsers
  BY DEF GroupInv
<1>2. UNCHANGED <<list_used, ref_count>> /\ list_used \subseteq Buffers
  BY <1>1, QuietLists DEF lists, fields, TypeOK
<1>3. SUFFICES \A u \in Threads : /\ pc'[u] \in Releasing <=> pc[u] \in Releasing
                                  /\ pc[u] \in Releasing => arg'[u] = arg[u]
  BY <1>1, <1>2, RefsGrow
<1>4. CASE RefDecLookup(t)
  <2>1. status # "destroyed"
    BY <1>1, <1>4 DEF RefDecLookup, GroupOutlivesUsers
  <2>2. Goto(t, "put") /\ UNCHANGED arg /\ pc[t] = "lookup"
    BY <1>4, <2>1 DEF RefDecLookup
  <2> QED BY <1>1, <2>2 DEF Goto, Releasing, TypeOK
<1>6. CASE RefDecUnlink(t)
  <2>1. Goto(t, "count") /\ UNCHANGED arg /\ pc[t] = "put"
    BY <1>6 DEF RefDecUnlink
  <2> QED BY <1>1, <2>1 DEF Goto, Releasing, TypeOK
<1>5. CASE ~RefDecLookup(t) /\ ~RefDecUnlink(t)
  <2>1. /\ pc[t] \notin Releasing
        /\ Return(t) \/ (UNCHANGED arg /\ \E l \in Pcs \ Releasing : Goto(t, l))
    BY <1>5 DEF QuietStep, Gate, CreateAtLimit, CreateAlloc, GetRefused, Import,
                RefDecUnlock, PutGroup, PutGroupBusy, PutGroupOrphan,
                Releasing, Pcs, GetPcs, PutPcs
  <2> QED BY <1>1, <2>1, ThreadsKeep
<1> QED BY <1>4, <1>5, <1>6

LEMMA RefsGet ==
    ASSUME GroupInv, NEW t \in Threads,
           \/ \E n \in Sizes : GetFound(t, n) \/ GetNone(t, n)
           \/ CreateInsert(t) \/ GroupReset(t) \/ PutGroupDrain(t)
           \/ RefDecDestroy(t) \/ PutGroupDestroy(t)
    PROVE  ReferencedStays'
<1>1. TypeOK /\ ReferencedStays /\ ListsSound
  BY DEF GroupInv
<1>2. \A u \in Threads : /\ pc'[u] \in Releasing <=> pc[u] \in Releasing
                         /\ pc[u] \in Releasing => arg'[u] = arg[u]
  <2>1. CASE GroupReset(t)
    BY <2>1 DEF GroupReset, calls
  <2>2. CASE ~GroupReset(t)
    <3>1. /\ pc[t] \notin Releasing
          /\ Return(t) \/ (UNCHANGED arg /\ \E l \in Pcs \ Releasing : Goto(t, l))
      BY <2>2 DEF GetFound, GetNone, MayGet, CreateInsert, PutGroupDrain, RefDecDestroy,
                  PutGroupDestroy, Releasing, Pcs, GetPcs, PutPcs, Inside
    <3> QED BY <1>1, <3>1, ThreadsKeep
  <2> QED BY <2>1, <2>2
<1>3. ASSUME NEW n \in Sizes, GetFound(t, n) PROVE ReferencedStays'
  <2>1. PICK b \in list_unused :
          list_used' = list_used \cup {b} /\ ref_count' = [ref_count EXCEPT ![b] = @ + 1]
    BY <1>3, Zenon DEF GetFound, Fits
  <2>2. b \in Buffers /\ b \notin list_used /\ ref_count[b] = 0
    BY <1>1, <2>1, UnusedHaveNoReference DEF ListsSound
  <2> QED BY <1>1, <1>2, <2>1, <2>2, RefsGrow DEF TypeOK
<1>4. CASE CreateInsert(t)
  <2>1. PICK b \in Buffers \ Alive :
          \/ list_used' = list_used \cup {b} /\ ref_count' = [ref_count EXCEPT ![b] = 1]
          \/ UNCHANGED <<list_used, ref_count>>
    BY <1>4, Zenon DEF CreateInsert
  <2>2. b \in Buffers /\ b \notin list_used
    BY <2>1 DEF Alive
  <2> QED BY <1>1, <1>2, <2>1, <2>2, RefsGrow DEF TypeOK
<1>5. CASE \/ GroupReset(t) \/ PutGroupDrain(t) \/ RefDecDestroy(t) \/ PutGroupDestroy(t)
           \/ \E n \in Sizes : GetNone(t, n)
  <2>1. UNCHANGED ref_count /\ (list_used' = list_used \/ list_used' = list_used \ list_unused)
    BY <1>5 DEF GroupReset, PutGroupDrain, GetNone, ReleaseBeside, Release, Unlist, RefDecDestroy,
                PutGroupDestroy, DestroyGroup, lists, fields
  <2>2. UNCHANGED <<list_used, ref_count>>
    BY <1>1, <2>1 DEF ListsSound
  <2> QED BY <1>1, <1>2, <2>2, RefsGrow DEF TypeOK
<1> QED BY <1>3, <1>4, <1>5

LEMMA RefsCount ==
    ASSUME GroupInv, NEW b \in Buffers,
           RefInc(b) \/ \E t \in Threads : RefDec(t, b)
    PROVE  ReferencedStays'
<1>1. TypeOK /\ ReferencedStays
  BY DEF GroupInv
<1>2. UNCHANGED list_used
  BY DEF RefInc, RefDec, lists
<1>3. b \in list_used
  BY <1>1, BoundsAssumption DEF RefInc, RefDec, ReferencedStays
<1>4. CASE RefInc(b)
  <2>1. /\ ref_count' = [ref_count EXCEPT ![b] = @ + 1] /\ ref_count[b] # 0
        /\ UNCHANGED <<pc, arg>>
    BY <1>1, <1>4, BoundsAssumption DEF RefInc, calls, TypeOK
  <2> QED BY <1>1, <1>2, <1>3, <2>1, RefsGrow DEF TypeOK
<1>5. ASSUME NEW t \in Threads, RefDec(t, b), ~LastRef(b) PROVE ReferencedStays'
  <2>1. /\ ref_count' = [ref_count EXCEPT ![b] = @ - 1]
        /\ ref_count[b] > 0 /\ ref_count[b] # 1 /\ UNCHANGED <<pc, arg>>
    BY <1>5 DEF RefDec, LastRef
  <2> QED BY <1>1, <1>2, <1>3, <2>1, RefsGrow DEF TypeOK
<1>6. ASSUME NEW t \in Threads, RefDec(t, b), LastRef(b) PROVE ReferencedStays'
  <2>1. /\ ref_count[b] = 1 /\ ref_count'[b] = 0 /\ pc[t] = "idle"
        /\ pc' = [pc EXCEPT ![t] = "lookup"] /\ arg' = [arg EXCEPT ![t] = b]
        /\ \A c \in Buffers : c # b => ref_count'[c] = ref_count[c]
    BY <1>1, <1>6 DEF RefDec, LastRef, Goto, TypeOK
  <2>2. /\ pc'[t] \in Releasing /\ arg'[t] = b /\ pc[t] \notin Releasing
        /\ \A u \in Threads \ {t} : pc'[u] = pc[u] /\ arg'[u] = arg[u]
    BY <1>1, <2>1 DEF TypeOK, Releasing
  <2>3. \A u \in Threads : pc[u] \in Releasing => arg[u] # b
    BY <1>1, <2>1 DEF ReferencedStays
  <2>4. \A c \in Buffers : ref_count'[c] > 0 => c \in list_used'
    BY <1>1, <1>2, <2>1 DEF ReferencedStays
  <2>5. \A c \in list_used' : ref_count'[c] = 0 =>
           \E u \in Threads : pc'[u] \in Releasing /\ arg'[u] = c
    <3>1. ASSUME NEW c \in list_used', c # b, ref_count'[c] = 0
          PROVE  \E u \in Threads : pc'[u] \in Releasing /\ arg'[u] = c
      <4>1. c \in list_used /\ ref_count[c] = 0
        BY <1>1, <1>2, <2>1, <3>1 DEF TypeOK
      <4>2. PICK u \in Threads : pc[u] \in Releasing /\ arg[u] = c
        BY <1>1, <4>1 DEF ReferencedStays
      <4> QED BY <2>2, <4>2
    <3> QED BY <2>2, <3>1
  <2>6. ASSUME NEW u \in Threads, pc'[u] \in Releasing
        PROVE  /\ arg'[u] \in list_used' /\ ref_count'[arg'[u]] = 0
               /\ \A w \in Threads \ {u} : pc'[w] \in Releasing => arg'[w] # arg'[u]
    <3>1. CASE u = t
      BY <1>2, <1>3, <2>1, <2>2, <2>3, <3>1
    <3>2. CASE u # t
      <4>1. /\ arg[u] \in list_used /\ ref_count[arg[u]] = 0 /\ arg[u] # b
            /\ pc[u] \in Releasing /\ arg'[u] = arg[u] /\ arg[u] \in Buffers
        BY <1>1, <2>2, <2>3, <2>6, <3>2 DEF ReferencedStays, TypeOK
      <4>2. \A w \in Threads \ {u} : pc'[w] \in Releasing => arg'[w] # arg'[u]
        BY <1>1, <2>2, <4>1 DEF ReferencedStays
      <4> QED BY <1>2, <2>1, <4>1, <4>2
    <3> QED BY <3>1, <3>2
  <2> QED BY <2>4, <2>5, <2>6, Zenon DEF ReferencedStays, Releasing
<1> QED BY <1>4, <1>5, <1>6

LEMMA RefsReleased ==
    ASSUME GroupInv, NEW t \in Threads, RefDecCount(t)
    PROVE  ReferencedStays'
<1> DEFINE b == arg[t]
<1>1. TypeOK /\ ReferencedStays
  BY DEF GroupInv
<1>2. /\ pc[t] = "count" /\ b \in list_used /\ ref_count[b] = 0
      /\ \A u \in Threads \ {t} : pc[u] \in Releasing => arg[u] # b
  BY <1>1 DEF RefDecCount, ReferencedStays, Releasing
<1>3. list_used' = list_used \ {b} /\ UNCHANGED ref_count
  BY DEF RefDecCount, ReuseBeside, ReleaseBeside, Release, Unlist
<1>4. /\ pc'[t] \notin Releasing
      /\ \A u \in Threads \ {t} : pc'[u] = pc[u] /\ arg'[u] = arg[u]
  BY <1>1 DEF RefDecCount, Goto, Releasing, TypeOK
<1> HIDE DEF b
<1>5. \A c \in Buffers : ref_count'[c] > 0 => c \in list_used'
  BY <1>1, <1>2, <1>3 DEF ReferencedStays
<1>6. \A c \in list_used' : ref_count'[c] = 0 =>
         \E u \in Threads : pc'[u] \in Releasing /\ arg'[u] = c
  <2>1. ASSUME NEW c \in list_used', ref_count'[c] = 0
        PROVE  \E u \in Threads : pc'[u] \in Releasing /\ arg'[u] = c
    <3>1. c \in list_used /\ c # b /\ ref_count[c] = 0
      BY <1>3, <2>1
    <3>2. PICK u \in Threads : pc[u] \in Releasing /\ arg[u] = c
      BY <1>1, <3>1 DEF ReferencedStays
    <3>3. u # t
      BY <3>1, <3>2 DEF b
    <3> QED BY <1>4, <3>2, <3>3
  <2> QED BY <2>1
<1>7. ASSUME NEW u \in Threads, pc'[u] \in Releasing
      PROVE  /\ arg'[u] \in list_used' /\ ref_count'[arg'[u]] = 0
             /\ \A w \in Threads \ {u} : pc'[w] \in Releasing => arg'[w] # arg'[u]
  BY <1>1, <1>2, <1>3, <1>4, <1>7 DEF ReferencedStays
<1> QED BY <1>5, <1>6, <1>7, Zenon DEF ReferencedStays, Releasing

LEMMA RefsStep ==
    ASSUME GroupInv, [Next]_vars
    PROVE  ReferencedStays'
<1>1. CASE UNCHANGED vars
  BY <1>1 DEF vars, lists, fields, calls, GroupInv, ReferencedStays, Releasing
<1>2. CASE Next
  BY <1>2, StepCases, RefsQuiet, RefsGet, RefsCount, RefsReleased, Zenon
<1> QED BY <1>1, <1>2

-----------------------------------------------------------------------------
(* One step: the owner's handle and the end of the group *)

\* What GroupOutlivesUsers says beyond the references and the locks.
EndInv ==
    /\ status = "destroyed" => list_used \subseteq Unlinked /\ (overlapped \/ Alive = {})
    /\ \A t \in Threads : pc[t] = "destroy" => status = "orphan" /\ Alive = {}

ControlInv == EndInv /\ CallInv /\ LockInv

LEMMA GroupControl ==
    ASSUME GroupInv
    PROVE  TypeOK /\ ControlInv
BY DEF GroupInv, ControlInv, EndInv, GroupOutlivesUsers

\* Who is where once t has gone to l.
LEMMA Gone ==
    ASSUME TypeOK, NEW t \in Threads, NEW l, Goto(t, l) \/ (Return(t) /\ l = "idle")
    PROVE  /\ pc'[t] = l /\ \A u \in Threads \ {t} : pc'[u] = pc[u]
           /\ status' = status /\ pc[t] \notin PutPcs /\ l \notin PutPcs => HandleValid' = HandleValid
<1>1. pc'[t] = l /\ \A u \in Threads \ {t} : pc'[u] = pc[u]
  BY DEF Goto, Return, TypeOK
<1> QED BY <1>1 DEF HandleValid

LEMMA SameUnlinked ==
    ASSUME NEW t \in Threads, pc[t] # "count", pc'[t] # "count",
           \A u \in Threads \ {t} : pc'[u] = pc[u] /\ arg'[u] = arg[u]
    PROVE  Unlinked' = Unlinked
BY DEF Unlinked

\* Thread t, outside buf_lock and put_group, goes to a place l where it is too,
\* and changes the lists only of a group nobody has put.
LEMMA ControlKept ==
    ASSUME TypeOK, ControlInv, NEW t \in Threads, NEW l, Goto(t, l) \/ (Return(t) /\ l = "idle"),
           UNCHANGED <<status, locks>>,
           pc[t] \notin PutPcs \cup Inside, l \notin PutPcs \cup Inside,
           HandleValid \/ UNCHANGED <<list_used, list_unused>>,
           l \in GetPcs => HandleValid,
           l \in {"create", "insert"} => want'[t] # 0,
           \A u \in Threads \ {t} : want'[u] = want[u] /\ arg'[u] = arg[u]
    PROVE  ControlInv'
<1>1. /\ pc'[t] = l /\ \A u \in Threads \ {t} : pc'[u] = pc[u]
      /\ HandleValid' = HandleValid
  BY Gone
<1>2. Unlinked' = Unlinked
  BY <1>1, SameUnlinked DEF Inside
<1>3. CallInv'
  BY <1>1 DEF ControlInv, CallInv, locks
<1>4. LockInv'
  BY <1>1 DEF ControlInv, LockInv, HandleValid, PutPcs, locks
<1>5. CASE UNCHANGED <<list_used, list_unused>>
  <2>1. EndInv'
    BY <1>1, <1>2, <1>5 DEF ControlInv, EndInv, Alive, Inside, locks
  <2> QED BY <1>3, <1>4, <2>1 DEF ControlInv
<1>6. CASE HandleValid
  <2>1. EndInv'
    BY <1>1, <1>6 DEF ControlInv, EndInv, HandleValid, Inside
  <2> QED BY <1>3, <1>4, <2>1 DEF ControlInv
<1> QED BY <1>5, <1>6

LEMMA ReturnSame ==
    ASSUME TypeOK, NEW t \in Threads, Return(t)
    PROVE  \A u \in Threads \ {t} : want'[u] = want[u] /\ arg'[u] = arg[u]
BY DEF Return, TypeOK

\* A get, a create, or the start of a release.
LEMMA ControlOutside ==
    ASSUME GroupInv, NEW t \in Threads,
           \/ \E n \in Sizes : GetFound(t, n) \/ GetNone(t, n) \/ Import(t, n)
           \/ Gate(t) \/ CreateAtLimit(t) \/ CreateAlloc(t) \/ CreateInsert(t) \/ GetRefused(t)
           \/ RefDecLookup(t) \/ (\E b \in Buffers : RefDec(t, b))
    PROVE  ControlInv'
<1>1. TypeOK /\ ControlInv
  BY GroupControl
<1>2. PutPcs \cup Inside
        = {"drain", "put_group", "put_orphan", "count", "destroy", "unlock"}
  BY DEF PutPcs, Inside
<1>3. ASSUME NEW n \in Sizes, GetFound(t, n) \/ GetNone(t, n) \/ Import(t, n)
      PROVE  ControlInv'
  <2>1. HandleValid /\ pc[t] \notin PutPcs \cup Inside /\ UNCHANGED <<status, locks>>
    BY <1>1, <1>2, <1>3 DEF GetFound, GetNone, Import, MayGet, ControlInv, CallInv, GetPcs
  <2>2. n # 0
    BY BoundsAssumption
  <2>3. CASE Return(t)
    BY <1>1, <1>2, <2>1, <2>3, ReturnSame, ControlKept DEF GetPcs
  <2>4. CASE ~Return(t)
    <3>1. Goto(t, "create") /\ want' = [want EXCEPT ![t] = n] /\ UNCHANGED arg
      BY <1>3, <2>4 DEF GetFound, GetNone, Import
    <3>2. want'[t] # 0 /\ \A u \in Threads \ {t} : want'[u] = want[u]
      BY <1>1, <2>2, <3>1 DEF TypeOK
    <3> QED BY <1>1, <1>2, <2>1, <3>1, <3>2, ControlKept
  <2> QED BY <2>3, <2>4
<1>4. CASE CreateAtLimit(t) \/ CreateAlloc(t) \/ CreateInsert(t) \/ GetRefused(t)
  <2>1. /\ pc[t] \in GetPcs /\ pc[t] \notin PutPcs \cup Inside /\ UNCHANGED <<status, locks>>
        /\ pc[t] = "create" => want[t] # 0
    BY <1>1, <1>2, <1>4 DEF CreateAtLimit, CreateAlloc, CreateInsert, GetRefused, GetPcs,
                      ControlInv, CallInv
  <2>2. HandleValid
    BY <1>1, <2>1 DEF ControlInv, CallInv
  <2>3. CASE Return(t)
    BY <1>1, <1>2, <2>1, <2>2, <2>3, ReturnSame, ControlKept DEF GetPcs
  <2>4. CASE ~Return(t)
    <3>1. PICK l \in {"refused", "insert"} : Goto(t, l)
      BY <1>4, <2>4 DEF CreateAtLimit, CreateAlloc, CreateInsert, GetRefused
    <3>2. UNCHANGED <<want, arg>> /\ pc[t] = "create"
      BY <1>4, <2>4 DEF CreateAtLimit, CreateAlloc, CreateInsert, GetRefused
    <3> QED BY <1>1, <1>2, <2>1, <2>2, <3>1, <3>2, ControlKept
  <2> QED BY <2>3, <2>4
<1>5. CASE Gate(t)
  <2>1. /\ HandleValid /\ pc[t] = "idle" /\ Goto(t, "gated")
        /\ UNCHANGED <<status, locks, want, arg>>
    BY <1>5 DEF Gate
  <2> QED BY <1>1, <1>2, <2>1, ControlKept
<1>6. CASE RefDecLookup(t) \/ \E b \in Buffers : RefDec(t, b)
  <2>1. /\ pc[t] \in {"lookup", "idle"}
        /\ UNCHANGED <<status, locks>> /\ UNCHANGED <<list_used, list_unused>>
    BY <1>6 DEF RefDecLookup, RefDec, lists
  <2>2. CASE Return(t)
    BY <1>1, <1>2, <2>1, <2>2, ReturnSame, ControlKept DEF GetPcs
  <2>3. CASE UNCHANGED pc
    <3>1. UNCHANGED <<want, arg>> \/ Return(t)
      BY <1>1, <1>6, <2>3 DEF RefDecLookup, RefDec, Goto, TypeOK
    <3> QED BY <1>1, <2>1, <2>2, <2>3, <3>1
            DEF ControlInv, EndInv, CallInv, LockInv, HandleValid, Unlinked, Alive, locks
  <2>4. CASE ~Return(t) /\ pc' # pc
    <3>1. PICK l \in {"lookup", "put"} : Goto(t, l)
      BY <1>6, <2>4 DEF RefDecLookup, RefDec
    <3>2. UNCHANGED want /\ \A u \in Threads \ {t} : arg'[u] = arg[u]
      BY <1>1, <1>6, <2>4 DEF RefDecLookup, RefDec, TypeOK
    <3>3. l \notin PutPcs \cup Inside \cup GetPcs \cup {"create", "insert"}
      BY <1>2 DEF GetPcs
    <3> QED BY <1>1, <1>2, <2>1, <3>1, <3>2, <3>3, ControlKept
  <2> QED BY <2>2, <2>3, <2>4
<1> QED BY <1>3, <1>4, <1>5, <1>6

\* The stretch of mpp_buffer_ref_dec under buf_lock.
LEMMA ControlInside ==
    ASSUME GroupInv, ListsSound', NEW t \in Threads,
           RefDecUnlink(t) \/ RefDecCount(t) \/ RefDecDestroy(t) \/ RefDecUnlock(t)
    PROVE  ControlInv'
<1>1. TypeOK /\ ControlInv
  BY GroupControl
<1>2. CASE RefDecUnlink(t)
  <2>1. /\ pc[t] = "put" /\ buf_lock = {} /\ buf_lock' = {t}
        /\ overlapped' = (overlapped \/ service_lock # {}) /\ Goto(t, "count")
        /\ UNCHANGED <<status, list_used, list_unused, want, service_lock>>
    BY <1>2 DEF RefDecUnlink, lists
  <2>2. /\ pc'[t] = "count" /\ \A u \in Threads \ {t} : pc'[u] = pc[u]
        /\ HandleValid' = HandleValid
    BY <1>1, <2>1, Gone DEF PutPcs
  <2>3. \A u \in Threads : pc[u] \notin Inside
    BY <1>1, <2>1 DEF ControlInv, LockInv
  <2>4. status # "destroyed"
    BY <2>1 DEF GroupInv, GroupOutlivesUsers
  <2>5. EndInv'
    BY <2>1, <2>2, <2>3, <2>4 DEF EndInv, Inside
  <2>6. CallInv'
    BY <1>1, <2>1, <2>2 DEF ControlInv, CallInv, GetPcs, PutPcs
  <2>7. LockInv'
    BY <1>1, <2>1, <2>2, <2>3 DEF ControlInv, LockInv
  <2> QED BY <2>5, <2>6, <2>7 DEF ControlInv
<1>3. CASE RefDecCount(t)
  <2>1. PICK l \in {"destroy", "unlock"} : Goto(t, l) /\ (l = "destroy" => status = "orphan" /\ NoUsage')
    BY <1>3 DEF RefDecCount
  <2>2. /\ pc[t] = "count" /\ UNCHANGED <<status, arg, want, locks>>
        /\ list_used' = list_used \ {arg[t]} /\ arg[t] \in Alive
    BY <1>3 DEF RefDecCount, ReuseBeside, ReleaseBeside, Release, Unlist, GroupInv,
                ReferencedStays, Releasing, Alive
  <2>3. /\ pc'[t] = l /\ \A u \in Threads \ {t} : pc'[u] = pc[u]
        /\ HandleValid' = HandleValid
    BY <1>1, <2>1, <2>2, Gone DEF PutPcs
  <2>4. buf_lock = {t} /\ \A u \in Threads \ {t} : pc[u] \notin Inside
    BY <1>1, <2>2 DEF ControlInv, LockInv, Inside
  <2>5. Unlinked = {arg[t]}
    BY <2>2, <2>4 DEF Unlinked, Inside
  <2>6. l = "destroy" => Alive' = {}
    <3>1. \A b \in Alive' : b \in Buffers /\ usage'[b] # 0
      <4>1. \A b \in Alive' : b \in Buffers
        BY RefDecCountData, <1>3 DEF ListType, Alive
      <4> QED BY <4>1 DEF ListsSound
    <3> QED BY <2>1, <3>1 DEF NoUsage
  <2>7. EndInv'
    <3>1. status = "destroyed" => list_used' = {} /\ overlapped
      BY <1>1, <2>2, <2>5 DEF ControlInv, EndInv
    <3>2. \A u \in Threads : pc'[u] = "destroy" => u = t /\ l = "destroy"
      BY <2>3, <2>4 DEF Inside
    <3> QED BY <2>1, <2>2, <2>6, <3>1, <3>2 DEF EndInv, locks
  <2>8. CallInv'
    BY <1>1, <2>1, <2>2, <2>3 DEF ControlInv, CallInv, GetPcs, PutPcs, locks
  <2>9. LockInv'
    BY <1>1, <2>1, <2>2, <2>3, <2>4 DEF ControlInv, LockInv, CallInv, PutPcs, Inside, locks
  <2> QED BY <2>7, <2>8, <2>9 DEF ControlInv
<1>4. CASE RefDecDestroy(t)
  <2>1. /\ pc[t] = "destroy" /\ status' = "destroyed" /\ Goto(t, "unlock")
        /\ UNCHANGED <<list_used, list_unused, want, locks>>
    BY <1>4 DEF RefDecDestroy, DestroyGroup
  <2>2. pc'[t] = "unlock" /\ \A u \in Threads \ {t} : pc'[u] = pc[u]
    BY <1>1, <2>1, Gone
  <2>3. status = "orphan" /\ Alive = {} /\ ~HandleValid
    BY <1>1, <2>1 DEF ControlInv, EndInv, HandleValid
  <2>4. \A u \in Threads : pc[u] \notin GetPcs \cup PutPcs
    BY <1>1, <2>3 DEF ControlInv, CallInv
  <2>5. \A u \in Threads \ {t} : pc[u] \notin Inside
    BY <1>1, <2>1 DEF ControlInv, LockInv, Inside
  <2>6. EndInv'
    BY <2>1, <2>2, <2>3, <2>5 DEF EndInv, Alive, Inside
  <2>7. CallInv'
    BY <1>1, <2>1, <2>2, <2>4 DEF ControlInv, CallInv, GetPcs, PutPcs
  <2>8. LockInv'
    BY <1>1, <2>1, <2>2, <2>4 DEF ControlInv, LockInv, HandleValid, PutPcs, Inside, locks
  <2> QED BY <2>6, <2>7, <2>8 DEF ControlInv
<1>5. CASE RefDecUnlock(t)
  <2>1. /\ pc[t] = "unlock" /\ buf_lock' = {} /\ Return(t)
        /\ UNCHANGED <<status, list_used, list_unused, service_lock, overlapped>>
    BY <1>5 DEF RefDecUnlock, lists
  <2>2. /\ pc'[t] = "idle" /\ \A u \in Threads \ {t} : pc'[u] = pc[u]
        /\ HandleValid' = HandleValid
    BY <1>1, <2>1, Gone DEF PutPcs
  <2>3. \A u \in Threads \ {t} : pc[u] \notin Inside /\ want'[u] = want[u] /\ arg'[u] = arg[u]
    BY <1>1, <2>1, ReturnSame DEF ControlInv, LockInv, Inside
  <2>4. Unlinked' = Unlinked
    BY <2>1, <2>2, <2>3, SameUnlinked
  <2>5. EndInv'
    BY <1>1, <2>1, <2>2, <2>4 DEF ControlInv, EndInv, Alive
  <2>6. CallInv'
    BY <1>1, <2>1, <2>2, <2>3 DEF ControlInv, CallInv, GetPcs, PutPcs
  <2>7. LockInv'
    BY <1>1, <2>1, <2>2, <2>3 DEF ControlInv, LockInv, Inside
  <2> QED BY <2>5, <2>6, <2>7 DEF ControlInv
<1> QED BY <1>2, <1>3, <1>4, <1>5

\* put_group by the owner.
LEMMA ControlOwner ==
    ASSUME GroupInv, NEW t \in Threads,
           PutGroup(t) \/ PutGroupStep(t)
    PROVE  ControlInv'
<1>1. TypeOK /\ ControlInv
  BY GroupControl
<1>2. PICK l \in PutPcs \cup {"idle"} :
        /\ Goto(t, l) \/ (Return(t) /\ l = "idle")
        /\ l \in PutPcs => status' = status /\ service_lock' = {t}
        /\ l = "idle" => status' # "live" /\ service_lock' = {}
  BY <1>1 DEF PutGroup, PutGroupStep, PutGroupDrain, PutGroupDestroy, DestroyGroup, PutGroupBusy,
              PutGroupOrphan, ServiceUnlock, PutPcs, ControlInv, CallInv, locks
<1>3. /\ pc'[t] = l /\ \A u \in Threads \ {t} : pc'[u] = pc[u]
      /\ status = "live"
      /\ \A u \in Threads \ {t} : pc[u] \notin PutPcs
      /\ \A u \in Threads : pc[u] \notin GetPcs \cup {"destroy"}
      /\ pc[t] \in PutPcs \cup {"idle"}
  <2>1. CASE PutGroup(t)
    BY <1>1, <1>2, <2>1, Gone DEF PutGroup, HandleValid, ControlInv, EndInv
  <2>2. CASE PutGroupStep(t)
    <3>1. pc[t] \in PutPcs
      BY <2>2 DEF PutGroupStep, PutGroupDrain, PutGroupDestroy, PutGroupBusy, PutGroupOrphan, PutPcs
    <3>2. status = "live" /\ service_lock = {t} /\ ~HandleValid
      BY <1>1, <3>1 DEF ControlInv, CallInv, HandleValid
    <3> QED BY <1>1, <1>2, <3>1, <3>2, Gone DEF ControlInv, CallInv, EndInv
  <2> QED BY <2>1, <2>2
<1>4. Unlinked' = Unlinked
  <2>1. \A u \in Threads \ {t} : arg'[u] = arg[u]
    BY <1>1, ReturnSame DEF PutGroup, PutGroupStep, PutGroupDrain, PutGroupDestroy, PutGroupBusy,
                            PutGroupOrphan
  <2> QED BY <1>2, <1>3, <2>1, SameUnlinked DEF PutPcs
<1>5. EndInv'
  <2>1. \A u \in Threads : pc'[u] # "destroy"
    BY <1>3 DEF PutPcs
  <2>2. CASE PutGroupDestroy(t)
    <3>1. /\ list_used \subseteq Unlinked /\ UNCHANGED <<list_used, list_unused, overlapped>>
          /\ overlapped \/ Alive = {}
      BY <2>2, DestroyData DEF DestroyGroup
    <3> QED BY <1>4, <2>1, <3>1 DEF EndInv, Alive
  <2>3. CASE ~PutGroupDestroy(t)
    <3>1. status' # "destroyed"
      BY <1>3, <2>3 DEF PutGroup, PutGroupStep, PutGroupDrain, PutGroupBusy, PutGroupOrphan
    <3> QED BY <2>1, <3>1 DEF EndInv
  <2> QED BY <2>2, <2>3
<1>6. CallInv'
  BY <1>2, <1>3 DEF CallInv, GetPcs, PutPcs
<1>7. ~HandleValid'
  BY <1>2, <1>3 DEF HandleValid
<1>8. LockInv'
  <2>1. \A u \in Threads : pc'[u] \in Inside => pc[u] \in Inside
    BY <1>3 DEF PutPcs, Inside
  <2>2. CASE PutGroup(t)
    <3>1. /\ UNCHANGED buf_lock /\ overlapped' = (overlapped \/ buf_lock # {})
          /\ pc'[t] = "drain"
      BY <1>1, <2>2, Gone DEF PutGroup
    <3>2. \A u \in Threads : pc'[u] \notin {"put_group", "put_orphan"}
      BY <1>3, <3>1 DEF PutPcs
    <3> QED BY <1>1, <1>7, <2>1, <3>1, <3>2 DEF ControlInv, LockInv
  <2>3. CASE PutGroupStep(t)
    <3>1. /\ UNCHANGED <<buf_lock, overlapped>> /\ service_lock' \in {service_lock, {}}
          /\ UNCHANGED list_unused \/ list_unused' = {}
          /\ pc[t] = "drain" => list_unused' = {}
      BY <2>3 DEF PutGroupStep, PutGroupDrain, ReleaseBeside, Release, Unlist, PutGroupDestroy,
                  DestroyGroup, PutGroupBusy, PutGroupOrphan, ServiceUnlock, lists, locks
    <3>2. pc[t] \in {"put_group", "put_orphan"} => overlapped \/ list_unused = {}
      BY <1>1 DEF ControlInv, LockInv
    <3>3. pc[t] \in PutPcs
      BY <2>3 DEF PutGroupStep, PutGroupDrain, PutGroupDestroy, PutGroupBusy, PutGroupOrphan, PutPcs
    <3>4. \A u \in Threads : pc'[u] \in {"put_group", "put_orphan"} => overlapped' \/ list_unused' = {}
      BY <1>3, <3>1, <3>2, <3>3 DEF PutPcs
    <3> QED BY <1>1, <1>7, <2>1, <3>1, <3>4 DEF ControlInv, LockInv
  <2> QED BY <2>2, <2>3
<1> QED BY <1>5, <1>6, <1>8 DEF ControlInv

LEMMA ControlStep ==
    ASSUME GroupInv, ListsSound', [Next]_vars
    PROVE  ControlInv'
<1>1. TypeOK /\ ControlInv
  BY GroupControl
<1>2. CASE UNCHANGED vars \/ \E b \in Buffers : RefInc(b)
  BY <1>1, <1>2 DEF vars, RefInc, lists, calls, locks, ControlInv, EndInv, CallInv, LockInv,
                    HandleValid, Unlinked, Alive
<1>3. CASE \E t \in Threads : GroupReset(t)
  <2>1. /\ UNCHANGED <<status, pc, want, locks>> /\ HandleValid
    BY <1>3 DEF GroupReset, calls
  <2> QED BY <1>1, <2>1 DEF ControlInv, EndInv, CallInv, LockInv, HandleValid, PutPcs, locks
<1> QED BY <1>2, <1>3, StepCases, ControlOutside, ControlInside, ControlOwner
        DEF QuietStep, PutGroupStep

-----------------------------------------------------------------------------
(* The invariant and what follows from it *)

LEMMA GroupStep ==
    ASSUME GroupInv, [Next]_vars
    PROVE  GroupInv'
<1>1. ListType' /\ DataInv'
  BY DataStep
<1>2. CallType'
  BY CallTypes DEF GroupInv
<1>3. TypeOK'
  BY <1>1, <1>2, Zenon DEF TypeOK, ListType, CallType
<1>4. ReferencedStays'
  BY RefsStep
<1>5. ControlInv'
  BY <1>1, ControlStep DEF DataInv
<1>6. GroupOutlivesUsers'
  <2>1. status' = "destroyed" => \A t \in Threads : pc'[t] \notin {"lookup", "put"}
    BY <1>4, <1>5 DEF ReferencedStays, Releasing, ControlInv, EndInv, Unlinked
  <2>2. ASSUME NEW t \in Threads, pc'[t] = "destroy", NEW u \in Threads \ {t}
        PROVE  pc'[u] # "destroy"
    BY <1>5, <2>2 DEF ControlInv, LockInv, Inside
  <2> QED BY <1>5, <2>1, <2>2 DEF GroupOutlivesUsers, ControlInv, EndInv
<1> QED BY <1>1, <1>3, <1>4, <1>5, <1>6 DEF GroupInv, DataInv, ControlInv

\* The group's state is well formed in every reachable state.
THEOREM GroupInvariant == Spec => []GroupInv
<1>1. Init => GroupInv
  BY InitGroupInv
<1>2. GroupInv /\ [Next]_vars => GroupInv'
  BY GroupStep
<1> QED BY <1>1, <1>2, PTL DEF Spec

\* Every variable of a group, its buffers and the calls has its type; no
\* buffer's charge goes below zero.
THEOREM GroupTypeCorrect == Spec => []TypeOK
<1>1. GroupInv => TypeOK
  BY DEF GroupInv
<1> QED BY <1>1, GroupInvariant, PTL

\* The lists never share a buffer, whatever is in them is charged, and until
\* put_group runs beside a thread in buf_lock the counters and the bytes
\* charged (count_used, count_unused, buffer_count and usage of
\* MppBufferGroupImpl) agree with the lists.
THEOREM GroupConsistent == Spec => []Consistent
<1>1. GroupInv => Consistent
  BY DEF GroupInv, CountsHold, Consistent
<1> QED BY <1>1, GroupInvariant, PTL

\* mpp_buffer_ref_dec: a buffer with references stays in list_used, and one
\* whose last reference is gone is released by one thread.
THEOREM BuffersWithUsersStay == Spec => []ReferencedStays
<1>1. GroupInv => ReferencedStays
  BY DEF GroupInv
<1> QED BY <1>1, GroupInvariant, PTL

\* mpp_buffer_group_reset: a buffer marked discard is not offered again.
THEOREM DiscardedStayOut == Spec => []DiscardedStaysOut
<1>1. GroupInv => DiscardedStaysOut
  BY DEF GroupInv
<1> QED BY <1>1, GroupInvariant, PTL

\* Both together, for whoever takes a buffer from list_unused.
THEOREM GroupOffersSound == Spec => []OffersSound
<1> QED BY BuffersWithUsersStay, DiscardedStayOut, PTL DEF OffersSound

\* put_group and mpp_buffer_ref_dec: a group is not destroyed while a buffer of
\* it is in use or a thread looks for the group or waits for its buf_lock; an
\* orphan is destroyed by one thread, and empty; and only where put_group runs
\* beside a thread in buf_lock is a group destroyed under that thread.
THEOREM GroupStaysForUsers == Spec => []GroupOutlivesUsers
<1>1. GroupInv => GroupOutlivesUsers
  BY DEF GroupInv
<1> QED BY <1>1, GroupInvariant, PTL

-----------------------------------------------------------------------------
(* What the only getter is told holds when it acts on it *)

\* g is the only thread that gets buffers.  In an internal group nobody else is in
\* a get, and while g has been told that there are buffers, the limit is not
\* reached: by the buffers in use at first, and by all of them once the unused
\* ones that do not fit are released.
GateInv(g) ==
    mode = "internal" =>
      /\ \A t \in Threads \ {g} : pc[t] \notin GetPcs
      /\ gated[g] => pc[g] \in GetPcs
      /\ gated[g] /\ limit_count # 0 =>
           /\ pc[g] = "gated" => count_used < limit_count
           /\ pc[g] = "create" => buffer_count < limit_count
      /\ pc[g] = "refused" => ~gated[g]

\* The steps of the other threads, and those of g outside its get.
OtherStep(t) ==
    \/ \E b \in Buffers : RefDec(t, b)
    \/ ReleaseStep(t) \/ GroupReset(t) \/ PutGroup(t) \/ PutGroupStep(t)

\* They take nothing: no counter of a group that is not put goes up.
LEMMA CountersFall ==
    ASSUME GroupInv, HandleValid, NEW t \in Threads, OtherStep(t)
    PROVE  count_used' <= count_used /\ buffer_count' <= buffer_count
<1>1. TypeOK /\ ListsSound /\ ~overlapped
  BY OpenCounts DEF GroupInv
<1>2. count_used \in Int /\ buffer_count \in Int
  BY <1>1 DEF TypeOK
<1>3. ASSUME NEW F, F \subseteq Alive, Release(F)
      PROVE  count_used' <= count_used /\ buffer_count' <= buffer_count
  <2>1. Cardinality(F) \in Nat /\ Cardinality(OnUsed(F)) \in Nat
    BY <1>1, <1>3, FiniteLists DEF OnUsed
  <2>2. /\ count_used' = count_used - Cardinality(OnUsed(F))
        /\ buffer_count' = buffer_count - Cardinality(F)
    BY <1>3 DEF Release
  <2> QED BY <1>2, <2>1, <2>2
<1>4. CASE GroupReset(t)
  BY <1>3, <1>4 DEF GroupReset, Alive
<1>5. CASE RefDecCount(t)
  <2>1. arg[t] \in list_used /\ pc[t] = "count" /\ ~Racing("drain")
    BY <1>1, <1>5, RacesOverlap DEF GroupInv, ReferencedStays, Releasing, RefDecCount
  <2>2. CASE MayReuse(arg[t])
    BY <1>2, <1>5, <2>2 DEF RefDecCount, ReuseBeside
  <2>3. CASE ~MayReuse(arg[t])
    BY <1>3, <1>5, <2>1, <2>3 DEF RefDecCount, ReleaseBeside, Alive
  <2> QED BY <2>2, <2>3
<1>6. ~RefDecDestroy(t) /\ ~PutGroupStep(t)
  <2>1. ~RefDecDestroy(t)
    BY DEF RefDecDestroy, GroupInv, GroupOutlivesUsers, HandleValid
  <2>2. ~PutGroupStep(t)
    BY DEF PutGroupStep, PutGroupDrain, PutGroupDestroy, PutGroupBusy, PutGroupOrphan,
           HandleValid, PutPcs
  <2> QED BY <2>1, <2>2
<1>7. CASE ~GroupReset(t) /\ ~RefDecCount(t)
  <2>1. UNCHANGED <<count_used, buffer_count>>
    BY <1>6, <1>7 DEF OtherStep, RefDec, ReleaseStep, RefDecLookup, RefDecUnlink, RefDecUnlock,
                      PutGroup, lists
  <2> QED BY <1>2, <2>1
<1> QED BY <1>4, <1>5, <1>7

\* And they neither start nor end a get.
LEMMA OtherCalls ==
    ASSUME TypeOK, NEW t \in Threads, OtherStep(t)
    PROVE  /\ UNCHANGED <<mode, limit_count>>
           /\ pc[t] \notin GetPcs /\ pc'[t] \notin GetPcs /\ (gated'[t] => gated[t])
           /\ \A u \in Threads \ {t} : pc'[u] = pc[u] /\ gated'[u] = gated[u]
<1>1. UNCHANGED <<mode, limit_count>>
  BY DEF OtherStep, RefDec, ReleaseStep, RefDecLookup, RefDecUnlink, RefDecCount, RefDecDestroy,
         RefDecUnlock, GroupReset, PutGroup, PutGroupStep, PutGroupDrain, PutGroupDestroy,
         PutGroupBusy, PutGroupOrphan, conf
<1> DEFINE Goes == \E l \in Pcs \ GetPcs : Goto(t, l)
           Gates == UNCHANGED gated \/ gated' = [gated EXCEPT ![t] = FALSE]
<1>2. (Goes \/ (UNCHANGED pc /\ pc[t] \notin GetPcs)) /\ Gates
  <2>1. Return(t) => Goes /\ Gates
    BY DEF Return, Pcs, GetPcs
  <2>2. ASSUME NEW b \in Buffers, RefDec(t, b)
        PROVE  (Goes \/ (UNCHANGED pc /\ pc[t] \notin GetPcs)) /\ Gates
    BY <2>2, Zenon DEF RefDec, Pcs, GetPcs
  <2>3. CASE ReleaseStep(t)
    <3>1. RefDecCount(t) => Goto(t, "destroy") \/ Goto(t, "unlock")
      BY Zenon DEF RefDecCount
    <3>2. {"put", "count", "destroy", "unlock"} \subseteq Pcs \ GetPcs
      BY DEF Pcs, GetPcs, Inside
    <3> QED BY <2>1, <2>3, <3>1, <3>2, Zenon
            DEF ReleaseStep, RefDecLookup, RefDecUnlink, RefDecCount, RefDecDestroy, RefDecUnlock
  <2>4. CASE GroupReset(t) \/ PutGroup(t)
    BY <2>4, Zenon DEF GroupReset, PutGroup, calls, Pcs, GetPcs, PutPcs
  <2>5. CASE PutGroupStep(t)
    BY <2>1, <2>5, Zenon DEF PutGroupStep, PutGroupDrain, PutGroupDestroy, PutGroupBusy,
       PutGroupOrphan, Pcs, GetPcs, PutPcs
  <2> QED BY <2>2, <2>3, <2>4, <2>5 DEF OtherStep
<1>3. pc \in [Threads -> Pcs] /\ gated \in [Threads -> BOOLEAN]
  BY DEF TypeOK
<1>4. pc'[t] \notin GetPcs /\ \A u \in Threads \ {t} : pc'[u] = pc[u]
  BY <1>2, <1>3 DEF Goto
<1>5. (\A u \in Threads \ {t} : gated'[u] = gated[u]) /\ (gated'[t] => gated[t])
  BY <1>2, <1>3, Zenon
<1>6. pc[t] \notin GetPcs
  BY DEF OtherStep, RefDec, ReleaseStep, RefDecLookup, RefDecUnlink, RefDecCount, RefDecDestroy,
         RefDecUnlock, GroupReset, PutGroup, PutGroupStep, PutGroupDrain, PutGroupDestroy,
         PutGroupBusy, PutGroupOrphan, GetPcs
<1> QED BY <1>1, <1>4, <1>5, <1>6

\* The getter's own steps: it is told there are buffers only below the limit, and
\* makes one only below the limit.
LEMMA GetterKeeps ==
    ASSUME NEW g \in Threads, GroupInv, GroupInv', GateInv(g), mode = "internal",
           GetStep(g) \/ CreateStep(g)
    PROVE  GateInv(g)'
<1>1. TypeOK /\ ListsSound /\ CountsMatchLists /\ CountsMatchLists'
  <2>1. HandleValid
    BY DEF GetStep, CreateStep, Gate, GetFound, GetNone, MayGet, CreateAtLimit, CreateAlloc,
           CreateInsert, GetRefused, GroupInv, CallInv, GetPcs
  <2>2. UNCHANGED overlapped
    BY DEF GetStep, CreateStep, Gate, GetFound, GetNone, CreateAtLimit, CreateAlloc,
           CreateInsert, GetRefused, locks
  <2> QED BY <2>1, <2>2, OpenCounts DEF GroupInv, CountsHold
<1>2. /\ pc \in [Threads -> Pcs] /\ gated \in [Threads -> BOOLEAN]
      /\ count_used \in Int /\ buffer_count \in Int /\ limit_count \in Nat
  BY <1>1 DEF TypeOK
<1>3. UNCHANGED <<mode, limit_count>>
  BY DEF GetStep, Gate, GetFound, GetNone, CreateStep, CreateAtLimit, CreateAlloc,
         CreateInsert, GetRefused, conf
<1>4. ASSUME NEW l \in Pcs, Goto(g, l)
      PROVE  pc'[g] = l /\ \A t \in Threads \ {g} : pc'[t] \notin GetPcs
  BY <1>2, <1>4 DEF Goto, GateInv
<1>5. CASE Return(g)
  <2>1. pc'[g] = "idle" /\ ~gated'[g]
    BY <1>2, <1>5, Zenon DEF Return, Goto
  <2> QED BY <1>3, <1>4, <1>5, <2>1 DEF Return, GateInv, Pcs, GetPcs
<1>9. CASE Goto(g, "insert")
  BY <1>3, <1>4, <1>9 DEF GateInv, Pcs, GetPcs
<1>6. CASE Gate(g)
  <2>1. Goto(g, "gated") /\ count_used' = count_used
        /\ (limit_count # 0 => limit_count - count_used > 0)
    BY <1>6 DEF Gate, Unused, lists
  <2>2. limit_count # 0 => count_used < limit_count
    BY <1>2, <2>1
  <2> QED BY <1>3, <1>4, <2>1, <2>2 DEF GateInv, Pcs, GetPcs
<1>7. ASSUME NEW n \in Sizes, GetNone(g, n) PROVE GateInv(g)'
  <2>1. Release(list_unused) /\ Goto(g, "create") /\ UNCHANGED gated
        /\ (pc[g] = "gated" \/ pc[g] = "idle")
    BY <1>7 DEF GetNone, MayGet
  <2>2. count_used' = count_used /\ buffer_count' = count_used'
    <3>1. list_used' = list_used /\ list_unused' = {}
      BY <1>1, <2>1 DEF Release, Unlist, ListsSound
    <3>2. Cardinality(list_unused') = 0
      BY <3>1, FS_EmptySet
    <3> QED BY <1>1, <1>2, <3>1, <3>2 DEF CountsMatchLists
  <2>3. pc[g] = "idle" => ~gated[g]
    BY DEF GateInv, GetPcs
  <2> QED BY <1>3, <1>4, <2>1, <2>2, <2>3 DEF GateInv, Pcs, GetPcs
<1>8. CASE CreateAtLimit(g)
  <2>1. Goto(g, "refused") /\ UNCHANGED gated /\ pc[g] = "create"
        /\ limit_count # 0 /\ buffer_count >= limit_count
    BY <1>8 DEF CreateAtLimit, AtLimit
  <2>2. ~gated[g]
    BY <1>2, <2>1 DEF GateInv
  <2> QED BY <1>3, <1>4, <2>1, <2>2 DEF GateInv, Pcs, GetPcs
<1> QED BY <1>5, <1>6, <1>7, <1>8, <1>9 DEF GetStep, CreateStep, GetFound, CreateAlloc, CreateInsert,
           GetRefused

\* Every step keeps what the getter is told.
LEMMA GateKept ==
    ASSUME NEW g \in Threads, Getters = {g}, GroupInv, GroupInv', GateInv(g), [Next]_vars
    PROVE  GateInv(g)'
<1>1. TypeOK
  BY DEF GroupInv
<1>2. CASE UNCHANGED vars \/ \E b \in Buffers : RefInc(b)
  BY <1>2 DEF RefInc, vars, conf, lists, calls, GateInv
<1>3. ASSUME NEW t \in Threads, OtherStep(t) PROVE GateInv(g)'
  <2>1. /\ UNCHANGED <<mode, limit_count>>
        /\ pc[t] \notin GetPcs /\ pc'[t] \notin GetPcs /\ (gated'[t] => gated[t])
        /\ \A u \in Threads \ {t} : pc'[u] = pc[u] /\ gated'[u] = gated[u]
    BY <1>1, <1>3, OtherCalls
  <2>2. HandleValid => count_used' <= count_used /\ buffer_count' <= buffer_count
    BY <1>3, CountersFall
  <2>3. /\ count_used \in Int /\ buffer_count \in Int /\ limit_count \in Nat
        /\ count_used' \in Int /\ buffer_count' \in Int
    BY DEF GroupInv, TypeOK
  <2>6. CASE ~HandleValid
    <3>1. \A u \in Threads : pc[u] \notin GetPcs
      BY <2>6 DEF GroupInv, CallInv
    <3>2. \A u \in Threads : pc'[u] \notin GetPcs
      BY <2>1, <3>1
    <3>3. mode = "internal" => ~gated'[g]
      BY <2>1, <3>1 DEF GateInv
    <3> QED BY <2>1, <3>2, <3>3 DEF GateInv, GetPcs
  <2>4. CASE t = g
    BY <2>1, <2>4 DEF GateInv, GetPcs
  <2>5. CASE t # g /\ HandleValid
    <3>1. pc'[g] = pc[g] /\ gated'[g] = gated[g]
      BY <2>1, <2>5
    <3>2. \A u \in Threads \ {g} : mode = "internal" => pc'[u] \notin GetPcs
      BY <2>1 DEF GateInv
    <3> QED BY <2>1, <2>2, <2>3, <2>5, <3>1, <3>2 DEF GateInv
  <2> QED BY <2>4, <2>5, <2>6
<1>4. CASE mode # "internal"
  <2>1. mode' = mode
    BY DEF Next, GetStep, Gate, GetFound, GetNone, CreateStep, CreateAtLimit, CreateAlloc,
       CreateInsert, GetRefused, Import, RefDec, ReleaseStep, RefDecLookup, RefDecUnlink,
       RefDecCount, RefDecDestroy, RefDecUnlock, GroupReset, PutGroup, PutGroupStep,
       PutGroupDrain, PutGroupDestroy, PutGroupBusy, PutGroupOrphan, RefInc, conf, vars
  <2> QED BY <1>4, <2>1 DEF GateInv
<1>5. ASSUME NEW t \in Threads, mode = "internal", CreateStep(t) PROVE GateInv(g)'
  <2>1. pc[t] \in GetPcs
    BY <1>5 DEF CreateStep, CreateAtLimit, CreateAlloc, CreateInsert, GetRefused, GetPcs
  <2>2. t = g
    BY <1>5, <2>1 DEF GateInv
  <2> QED BY <1>5, <2>2, GetterKeeps
<1>6. CASE mode = "internal" /\ \E t \in Getters : GetStep(t)
  BY <1>6, GetterKeeps
<1>7. ASSUME NEW t \in Threads, NEW n \in Sizes, Import(t, n) PROVE mode # "internal"
  BY <1>7 DEF Import
<1> QED BY <1>2, <1>3, <1>4, <1>5, <1>6, <1>7 DEF Next, OtherStep

\* mpp_buffer_group_unused: the one thread that gets buffers from an internal group,
\* as the parser thread does, is not refused one after it was told there are some,
\* however old the answer is when it acts on it.
THEOREM OnlyGetterIsServed ==
    ASSUME NEW g \in Threads, Getters = {g}
    PROVE  Spec => []UnusedAnswerHolds
<1>1. Init => GateInv(g)
  BY DEF Init, GateInv, GetPcs
<1>2. GroupInv /\ GroupInv' /\ GateInv(g) /\ [Next]_vars => GateInv(g)'
  BY GateKept
<1>3. GateInv(g) => UnusedAnswerHolds
  BY DEF GateInv, UnusedAnswerHolds, GetPcs
<1> QED BY <1>1, <1>2, <1>3, GroupInvariant, PTL DEF Spec

-----------------------------------------------------------------------------
(* The group keeps the promise of MppBufferLife *)

LEMMA LifeSets ==
    ASSUME TypeOK, ListsSound
    PROVE  /\ Life!Is("idle") = list_unused
           /\ Life!Is("absent") = Buffers \ Alive
           /\ Life!Is("held") = {b \in list_used : ~discard[b]}
           /\ Life!Is("retired") = {b \in list_used : discard[b]}
BY DEF Life!Is, LifeOf, Alive, TypeOK, ListsSound

LEMMA LifeBecomes ==
    ASSUME NEW A, NEW s, NEW F,
           \A b \in Buffers :
             (LifeOf(b))' = IF b \in A THEN s ELSE IF b \in F THEN "absent" ELSE LifeOf(b)
    PROVE  Life!Become(A, s, F)
BY DEF Life!Become

LEMMA LifeKept ==
    ASSUME UNCHANGED <<list_used, list_unused, discard>>
    PROVE  [b \in Buffers |-> LifeOf(b)]' = [b \in Buffers |-> LifeOf(b)]
BY DEF LifeOf

\* Only PutGroup closes the handle.
LEMMA OpenKept ==
    ASSUME GroupInv, [Next]_vars, \A t \in Threads : ~PutGroup(t)
    PROVE  HandleValid' = HandleValid
<1>1. TypeOK /\ ControlInv
  BY GroupControl
<1>2. CASE UNCHANGED <<status, pc>>
  BY <1>2 DEF HandleValid
<1>3. ASSUME NEW t \in Threads,
             PutGroupDrain(t) \/ PutGroupDestroy(t) \/ PutGroupBusy(t) \/ PutGroupOrphan(t)
      PROVE  HandleValid' = HandleValid
  <2>1. ~HandleValid
    BY <1>3 DEF PutGroupDrain, PutGroupDestroy, PutGroupBusy, PutGroupOrphan, HandleValid, PutPcs
  <2>2. ~HandleValid'
    <3>1. CASE PutGroupDrain(t) \/ PutGroupBusy(t)
      BY <1>1, <3>1, Gone DEF PutGroupDrain, PutGroupBusy, HandleValid, PutPcs
    <3>2. CASE PutGroupDestroy(t) \/ PutGroupOrphan(t)
      BY <3>2 DEF PutGroupDestroy, DestroyGroup, PutGroupOrphan, HandleValid
    <3> QED BY <1>3, <3>1, <3>2
  <2> QED BY <2>1, <2>2 DEF HandleValid
<1>4. ASSUME NEW t \in Threads, RefDecDestroy(t) PROVE HandleValid' = HandleValid
  BY <1>1, <1>4 DEF RefDecDestroy, DestroyGroup, HandleValid, ControlInv, EndInv
<1>5. ASSUME NEW t \in Threads,
             \/ Gate(t) \/ CreateAtLimit(t) \/ CreateAlloc(t) \/ GetRefused(t)
             \/ \E n \in Sizes : Import(t, n) \/ GetFound(t, n) \/ GetNone(t, n)
             \/ RefDecLookup(t) \/ CreateInsert(t) \/ \E b \in Buffers : RefDec(t, b)
             \/ RefDecUnlink(t) \/ RefDecCount(t) \/ RefDecUnlock(t)
      PROVE  HandleValid' = HandleValid
  <2>1. UNCHANGED status /\ pc[t] \notin PutPcs
    <3>1. CASE \E n \in Sizes : Import(t, n) \/ GetFound(t, n) \/ GetNone(t, n)
      BY <3>1 DEF Import, GetFound, GetNone, MayGet, PutPcs
    <3>2. CASE ~\E n \in Sizes : Import(t, n) \/ GetFound(t, n) \/ GetNone(t, n)
      BY <1>5, <3>2 DEF Gate, CreateAtLimit, CreateAlloc, GetRefused, RefDecLookup, CreateInsert,
                        RefDecUnlink, RefDecCount, RefDecUnlock, RefDec, PutPcs
    <3> QED BY <3>1, <3>2
  <2>2. \/ UNCHANGED pc \/ Return(t)
        \/ \E l \in {"gated", "create", "refused", "insert", "lookup", "put"} \cup Inside : Goto(t, l)
    BY <1>5, Zenon
       DEF Gate, CreateAtLimit, CreateAlloc, GetRefused, Import, GetFound, GetNone, Inside,
           RefDecLookup, CreateInsert, RefDecUnlink, RefDecCount, RefDecUnlock, RefDec
  <2>3. CASE UNCHANGED pc
    BY <1>2, <2>1, <2>3
  <2>4. CASE Return(t)
    BY <1>1, <2>1, <2>4, Gone DEF PutPcs
  <2>5. ASSUME NEW l \in {"gated", "create", "refused", "insert", "lookup", "put"} \cup Inside,
               Goto(t, l)
        PROVE  HandleValid' = HandleValid
    BY <1>1, <2>1, <2>5, Gone DEF PutPcs, Inside
  <2> QED BY <2>2, <2>3, <2>4, <2>5
<1> QED BY <1>2, <1>3, <1>4, <1>5, StepCases DEF QuietStep, RefInc, GroupReset, calls, vars

LEMMA LifeGetFound ==
    ASSUME GroupInv, NEW t \in Threads, NEW n \in Sizes, GetFound(t, n),
           HandleValid, UNCHANGED HandleValid
    PROVE  Life!HandOut
<1>1. TypeOK /\ ListsSound
  BY DEF GroupInv
<1>2. PICK b \in Fits(n), F \in SUBSET (list_unused \ Fits(n)) :
        /\ list_used' = list_used \cup {b} /\ list_unused' = list_unused \ (F \cup {b})
        /\ Blank(F)
  <2>1. {{}} \subseteq SUBSET (list_unused \ Fits(n))
    OBVIOUS
  <2> QED BY <2>1, Zenon DEF GetFound
<1>3. F \subseteq list_unused /\ b \in list_unused /\ b \notin F /\ b \in Buffers
      /\ b \notin list_used /\ F \cap list_used = {}
  BY <1>1, <1>2 DEF Fits, TypeOK, ListsSound
<1>4. \A c \in Buffers : discard'[c] = (discard[c] /\ c \notin F)
  BY <1>2, Zenon DEF Blank
<1>5. ~discard[b]
  BY <1>3, UnusedHaveNoReference
<1>6. \A c \in Buffers :
        (LifeOf(c))' = IF c \in {b} THEN "held" ELSE IF c \in F THEN "absent" ELSE LifeOf(c)
  BY <1>2, <1>3, <1>4, <1>5 DEF LifeOf
<1>7. Life!Become({b}, "held", F)
  BY <1>6, LifeBecomes
<1> QED BY <1>1, <1>3, <1>7, LifeSets DEF Life!HandOut

LEMMA LifeRelease ==
    ASSUME GroupInv, Unlist(list_unused), \A b \in list_used : discard'[b] = discard[b]
    PROVE  Life!Become({}, "idle", Life!Is("idle"))
<1>1. TypeOK /\ ListsSound
  BY DEF GroupInv
<1>2. list_used' = list_used /\ list_unused' = {}
  BY <1>1 DEF Unlist, ListsSound
<1>3. \A b \in Buffers :
        (LifeOf(b))' = IF b \in {} THEN "idle" ELSE IF b \in list_unused THEN "absent" ELSE LifeOf(b)
  BY <1>1, <1>2 DEF LifeOf, ListsSound
<1> QED BY <1>1, <1>3, LifeBecomes, LifeSets

LEMMA LifeReset ==
    ASSUME GroupInv, NEW t \in Threads, GroupReset(t), UNCHANGED HandleValid
    PROVE  Life!Clear
<1>1. TypeOK /\ ListsSound
  BY DEF GroupInv
<1>2. /\ list_used' = list_used /\ list_unused' = {} /\ HandleValid
      /\ discard' = [b \in Buffers |-> b \in list_used]
  BY <1>1 DEF GroupReset, Release, Unlist, ListsSound
<1>3. \A b \in Buffers : discard'[b] = (b \in list_used)
  BY <1>2, Zenon
<1>4. \A b \in Buffers :
        (LifeOf(b))' = IF b \in {c \in list_used : ~discard[c]} THEN "retired"
                       ELSE IF b \in list_unused THEN "absent" ELSE LifeOf(b)
  BY <1>1, <1>2, <1>3 DEF LifeOf, ListsSound
<1>5. Life!Become({c \in list_used : ~discard[c]}, "retired", list_unused)
  BY <1>4, LifeBecomes
<1> QED BY <1>1, <1>2, <1>5, LifeSets DEF Life!Clear

LEMMA LifePut ==
    ASSUME GroupInv, NEW t \in Threads, RefDecCount(t), UNCHANGED HandleValid
    PROVE  Life!GiveBack
<1> DEFINE b == arg[t]
<1>1. TypeOK /\ ListsSound
  BY DEF GroupInv
<1>2. b \in list_used /\ b \in Buffers /\ b \notin list_unused
  BY <1>1 DEF GroupInv, ReferencedStays, Releasing, RefDecCount, TypeOK, ListsSound
<1>3. CASE MayReuse(b)
  <2>1. ReuseBeside("drain", b) /\ ~discard[b]
    BY <1>3 DEF RefDecCount, MayReuse
  <2> HIDE DEF b
  <2>2. \A c \in Buffers :
          (LifeOf(c))' = IF c \in {b} THEN "idle" ELSE IF c \in {} THEN "absent" ELSE LifeOf(c)
    BY <1>1, <1>2, <2>1 DEF LifeOf, ReuseBeside
  <2>3. Life!Become({b}, "idle", {})
    BY <2>2, LifeBecomes
  <2> QED BY <1>1, <1>2, <2>1, <2>3, LifeSets DEF Life!GiveBack
<1>4. CASE ~MayReuse(b)
  <2>1. Unlist({b}) /\ Blank({b})
    BY <1>4 DEF RefDecCount, ReleaseBeside, Release
  <2> HIDE DEF b
  <2>2. \A c \in Buffers : discard'[c] = (discard[c] /\ c \notin {b})
    BY <2>1, Zenon DEF Blank
  <2>3. \A c \in Buffers :
          (LifeOf(c))' = IF c \in {} THEN "idle" ELSE IF c \in {b} THEN "absent" ELSE LifeOf(c)
    BY <1>1, <1>2, <2>1, <2>2 DEF LifeOf, Unlist
  <2>4. Life!Become({}, "idle", {b})
    BY <2>3, LifeBecomes
  <2> QED BY <1>1, <1>2, <2>4, LifeSets DEF Life!GiveBack
<1> QED BY <1>3, <1>4

LEMMA LifeInsert ==
    ASSUME GroupInv, NEW t \in Threads, CreateInsert(t), HandleValid, UNCHANGED HandleValid
    PROVE  Life!HandOut \/ Life!Add
<1>1. TypeOK /\ ListsSound /\ Fresh
  BY DEF GroupInv
<1>2. PICK b \in Buffers \ Alive :
        \/ list_used' = list_used \cup {b} /\ UNCHANGED list_unused
        \/ list_unused' = list_unused \cup {b} /\ UNCHANGED list_used
  BY Zenon DEF CreateInsert
<1>3. b \notin list_used /\ b \notin list_unused /\ ~discard[b] /\ UNCHANGED discard
  BY <1>1, <1>2 DEF Alive, Fresh, CreateInsert
<1>4. CASE list_used' = list_used \cup {b} /\ UNCHANGED list_unused
  <2>1. \A c \in Buffers :
          (LifeOf(c))' = IF c \in {b} THEN "held" ELSE IF c \in {} THEN "absent" ELSE LifeOf(c)
    BY <1>3, <1>4 DEF LifeOf
  <2>2. Life!Become({b}, "held", {})
    BY <2>1, LifeBecomes
  <2> QED BY <1>1, <1>2, <2>2, LifeSets DEF Life!HandOut
<1>5. CASE list_unused' = list_unused \cup {b} /\ UNCHANGED list_used
  <2>1. \A c \in Buffers :
          (LifeOf(c))' = IF c \in {b} THEN "idle" ELSE IF c \in {} THEN "absent" ELSE LifeOf(c)
    BY <1>3, <1>5 DEF LifeOf
  <2>2. Life!Become({b}, "idle", {})
    BY <2>1, LifeBecomes
  <2> QED BY <1>1, <1>2, <2>2, LifeSets DEF Life!Add
<1> QED BY <1>2, <1>4, <1>5

LEMMA LifeStep ==
    ASSUME GroupInv, [Next]_vars
    PROVE  [Life!Next]_(Life!lifeVars)
<1>1. TypeOK /\ ListsSound /\ ControlInv
  BY GroupControl DEF GroupInv
<1>2. ASSUME UNCHANGED <<list_used, list_unused, discard>>, HandleValid' = HandleValid
      PROVE  [Life!Next]_(Life!lifeVars)
  BY <1>2, LifeKept DEF Life!lifeVars
<1>3. ASSUME NEW t \in Threads, PutGroup(t) PROVE Life!Next
  <2>1. HandleValid /\ Goto(t, "drain") /\ UNCHANGED <<list_used, list_unused, discard>>
    BY <1>3 DEF PutGroup, lists, fields
  <2>2. ~HandleValid'
    BY <1>1, <2>1, Gone DEF HandleValid, PutPcs
  <2>3. HandleValid = TRUE /\ HandleValid' = FALSE
    BY <2>1, <2>2 DEF HandleValid
  <2> QED BY <2>1, <2>3, LifeKept DEF Life!Next, Life!Close
<1>5. ASSUME Unlist(list_unused), Blank(list_unused), HandleValid' = HandleValid
      PROVE  Life!Next
  <2>1. \A b \in Buffers : discard'[b] = (discard[b] /\ b \notin list_unused)
    BY <1>5, Zenon DEF Blank
  <2>2. \A b \in Buffers : discard[b] \in BOOLEAN
    BY <1>1, Zenon DEF TypeOK
  <2>3. \A b \in list_used : discard'[b] = discard[b]
    BY <1>1, <2>1, <2>2 DEF ListsSound, TypeOK
  <2> QED BY <1>5, <2>3, LifeRelease DEF Life!Next, Life!Trim
<1>4. ASSUME \A t \in Threads : ~PutGroup(t) PROVE [Life!Next]_(Life!lifeVars)
  <2>1. HandleValid' = HandleValid
    BY <1>4, OpenKept
  <2>2. CASE UNCHANGED vars \/ \E b \in Buffers : RefInc(b)
    BY <1>2, <2>1, <2>2 DEF vars, lists, fields, RefInc
  <2>3. ASSUME NEW t \in Threads,
               \/ QuietStep(t) \/ (\E b \in Buffers : RefDec(t, b))
               \/ RefDecDestroy(t) \/ PutGroupDestroy(t)
        PROVE  [Life!Next]_(Life!lifeVars)
    <3>1. UNCHANGED <<list_used, list_unused, discard>>
      BY <2>3, QuietLists DEF lists, fields, RefDec, RefDecDestroy, PutGroupDestroy, DestroyGroup
    <3> QED BY <1>2, <2>1, <3>1
  <2>4. ASSUME NEW t \in Threads, NEW n \in Sizes, GetFound(t, n) \/ GetNone(t, n)
        PROVE  [Life!Next]_(Life!lifeVars)
    <3>1. HandleValid
      BY <1>1, <2>4 DEF GetFound, GetNone, MayGet, ControlInv, CallInv, GetPcs
    <3>2. CASE GetFound(t, n)
      BY <2>1, <3>1, <3>2, LifeGetFound DEF Life!Next
    <3>3. CASE GetNone(t, n) /\ mode = "internal"
      BY <1>5, <2>1, <3>3 DEF GetNone, Release
    <3>4. CASE GetNone(t, n) /\ mode # "internal"
      <4>1. UNCHANGED <<list_used, list_unused, discard>>
        BY <3>4 DEF GetNone, lists, fields
      <4> QED BY <1>2, <2>1, <4>1
    <3> QED BY <2>4, <3>2, <3>3, <3>4
  <2>5. ASSUME NEW t \in Threads, CreateInsert(t) PROVE [Life!Next]_(Life!lifeVars)
    <3>1. HandleValid
      BY <1>1, <2>5 DEF CreateInsert, ControlInv, CallInv, GetPcs
    <3> QED BY <2>1, <2>5, <3>1, LifeInsert DEF Life!Next
  <2>6. ASSUME NEW t \in Threads, RefDecCount(t) \/ GroupReset(t)
        PROVE  [Life!Next]_(Life!lifeVars)
    BY <2>1, <2>6, LifePut, LifeReset DEF Life!Next
  <2>7. ASSUME NEW t \in Threads, PutGroupDrain(t) PROVE Life!Next
    BY <1>5, <2>1, <2>7 DEF PutGroupDrain, ReleaseBeside, Release
  <2> QED BY <1>4, <2>2, <2>3, <2>4, <2>5, <2>6, <2>7, StepCases
<1> QED BY <1>3, <1>4

\* The group implements the promise for each of its buffers.
THEOREM GroupImplementsLife == Spec => ImplementsLife
<1>1. Init => Life!Init
  BY DEF Init, Life!Init, LifeOf, HandleValid, PutPcs
<1>2. GroupInv /\ [Next]_vars => [Life!Next]_(Life!lifeVars)
  BY LifeStep
<1> QED BY <1>1, <1>2, GroupInvariant, PTL DEF Spec, ImplementsLife, Life!Spec
=============================================================================
