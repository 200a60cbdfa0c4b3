--------------------------- MODULE MppTaskChannel ---------------------------
(***************************************************************************)
(* What a task queue promises to the two sides that share it: a closed     *)
(* pool of tasks that goes round between a producer and a consumer.  The   *)
(* producer side owns a task until it submits it, the consumer takes the   *)
(* submitted tasks in the order of submission and gives each one back.     *)
(* MppTaskQueue, with its four lists, its counters and its two conditions, *)
(* implements this specification.                                          *)
(***************************************************************************)
EXTENDS Naturals, Sequences

CONSTANT TaskCount

Tasks == 1 .. TaskCount

VARIABLES
    producer,   \* tasks owned by the input side, in hand or free to take
    full,       \* submitted tasks, oldest first
    consumer    \* tasks the output side is working on

chanVars == <<producer, full, consumer>>

Init == producer = {} /\ full = << >> /\ consumer = {}

\* The queue is set up: every task starts on the producer's side.
Open ==
    /\ producer = {} /\ full = << >> /\ consumer = {}
    /\ producer' = Tasks
    /\ UNCHANGED <<full, consumer>>

Submit(t) ==
    /\ t \in producer
    /\ producer' = producer \ {t}
    /\ full' = Append(full, t)
    /\ UNCHANGED consumer

Take ==
    /\ full # << >>
    /\ full' = Tail(full)
    /\ consumer' = consumer \cup {Head(full)}
    /\ UNCHANGED producer

Release(t) ==
    /\ t \in consumer
    /\ consumer' = consumer \ {t}
    /\ producer' = producer \cup {t}
    /\ UNCHANGED full

Next == Open \/ Take \/ \E t \in Tasks : Submit(t) \/ Release(t)

Spec == Init /\ [][Next]_chanVars
=============================================================================
