----------------------------- MODULE MppRefRules -----------------------------
(***************************************************************************)
(* The rules of inc/rk_venc_ref.h for the reference frames: a long-term    *)
(* frame is kept until another one takes its index or an IDR frame comes;  *)
(* when there are more references than there is room, the oldest           *)
(* short-term frame goes.                                                  *)
(***************************************************************************)
EXTENDS Integers, Sequences, SequencesExt

CONSTANT Pictures, Indices

VARIABLES long,    \* the long-term frames by index
          short,   \* the short-term frames, oldest first
          room     \* how many references are kept

rules == <<long, short, room>>

Init == long = << >> /\ short = << >> /\ room \in Nat

Newest(s, n) == SubSeq(s, IF Len(s) > n THEN Len(s) - n + 1 ELSE 1, Len(s))

\* An IDR frame replaces all others, and may begin with another size.
Idr(p) ==
    /\ room' \in Nat
    /\ \/ long' = << >> /\ short' = << p >>
       \/ long' = (0 :> p) /\ short' = << >>

AddShort(p) ==
    /\ short' = Newest(Append(short, p), room - Cardinality(DOMAIN long))
    /\ UNCHANGED <<long, room>>

AddLong(p, i) ==
    /\ long' = (i :> p) @@ long
    /\ short' = Newest(short, room - Cardinality(DOMAIN long'))
    /\ UNCHANGED room

Next ==
    \E p \in Pictures : Idr(p) \/ AddShort(p) \/ \E i \in Indices : AddLong(p, i)

Spec == Init /\ [][Next]_rules
=============================================================================
