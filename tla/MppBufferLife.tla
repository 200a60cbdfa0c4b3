--------------------------- MODULE MppBufferLife ---------------------------
(***************************************************************************)
(* What a buffer group promises about each of its buffers: nobody gets a   *)
(* buffer that somebody still holds, a buffer that was in use when the     *)
(* group was cleared is freed by its last user and never handed out again, *)
(* and a group that was put hands out nothing.  MppBufferGroup implements  *)
(* this with lists, counters, reference counts and two locks.              *)
(***************************************************************************)
CONSTANT Buffers

VARIABLES
    life,   \* where each buffer is in its life
    open    \* the owner has not put the group

lifeVars == <<life, open>>

Init == life = [b \in Buffers |-> "absent"] /\ open = TRUE

Is(s) == {b \in Buffers : life[b] = s}

\* The buffers of A take state s and the buffers of F are freed.
Become(A, s, F) ==
    life' = [b \in Buffers |->
                IF b \in A THEN s ELSE IF b \in F THEN "absent" ELSE life[b]]

\* A user gets an idle buffer or a new one; idle buffers may be freed for it.
HandOut ==
    /\ open
    /\ \E b \in Is("idle") \cup Is("absent") : \E F \in SUBSET Is("idle") :
         Become({b}, "held", F)
    /\ UNCHANGED open

\* A buffer from outside is committed to the group.
Add == open /\ (\E b \in Is("absent") : Become({b}, "idle", {})) /\ UNCHANGED open

\* The last user of a buffer gives it back, to the group or for good.
GiveBack ==
    /\ \/ \E b \in Is("held") : Become({b}, "idle", {})
       \/ \E b \in Is("held") \cup Is("retired") : Become({}, "idle", {b})
    /\ UNCHANGED open

Trim == (\E F \in SUBSET Is("idle") : Become({}, "idle", F)) /\ UNCHANGED open

\* The group is cleared: what is in use is not to come back.
Clear == open /\ Become(Is("held"), "retired", Is("idle")) /\ UNCHANGED open

Close == open /\ open' = FALSE /\ UNCHANGED life

Next == HandOut \/ Add \/ GiveBack \/ Trim \/ Clear \/ Close

Spec == Init /\ [][Next]_lifeVars
=============================================================================
