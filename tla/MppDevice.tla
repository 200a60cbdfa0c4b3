------------------------------ MODULE MppDevice ------------------------------
(***************************************************************************)
(* What a user of a hardware device is promised by its send and poll       *)
(* commands, with or without the batch server in between: each task is     *)
(* given to the hardware once, and a poll that returns finds it finished.  *)
(*                                                                         *)
(* The promise to a session ends with a poll that wakes up for nothing,    *)
(* and holds again from the first task that is sent with none unanswered.  *)
(***************************************************************************)
CONSTANTS Sessions, Tasks, Owner

VARIABLES
    task,      \* task[t]: the state of task t
    waited,    \* the tasks that their sessions send or wait for
    misled     \* the sessions a wake-up for nothing has reached

vars == <<task, waited, misled>>

Init == task = [t \in Tasks |-> "none"] /\ waited = {} /\ misled = {}

Move(t, from, to) == task[t] = from /\ task' = [task EXCEPT ![t] = to]

\* A session waits for one task at a time.
Send(t) ==
    /\ \A u \in waited : Owner[u] # Owner[t]
    /\ Move(t, "none", "sent")
    /\ waited' = waited \cup {t}
    /\ misled' = IF \A u \in Tasks : Owner[u] = Owner[t] => task[u] = "none"
                 THEN misled \ {Owner[t]} ELSE misled

Finish(t) == Move(t, "busy", "finished") /\ UNCHANGED <<waited, misled>>
Fail(t) == Move(t, "busy", "failed") /\ UNCHANGED <<waited, misled>>

Return(t) ==
    /\ t \in waited /\ Move(t, "finished", "none")
    /\ waited' = waited \ {t} /\ UNCHANGED misled

\* A misled session leaves a task that goes on, and nobody waits for it when it is
\* finished.
WakeForNothing(s) == misled' = misled \cup {s} /\ UNCHANGED <<task, waited>>

Leave(t) ==
    /\ t \in waited /\ Owner[t] \in misled
    /\ waited' = waited \ {t} /\ UNCHANGED <<task, misled>>

Forget(t) == t \notin waited /\ Move(t, "finished", "none") /\ UNCHANGED <<waited, misled>>

\* Several tasks may be started by one request, of which some may fail.
Start(B, F) ==
    /\ \A t \in B \cup F : task[t] = "sent"
    /\ task' = [t \in Tasks |-> IF t \in F THEN "failed"
                                ELSE IF t \in B THEN "busy" ELSE task[t]]
    /\ UNCHANGED <<waited, misled>>

Next ==
    \/ \E t \in Tasks :
         Send(t) \/ Finish(t) \/ Fail(t) \/ Return(t) \/ Leave(t) \/ Forget(t)
    \/ \E s \in Sessions : WakeForNothing(s)
    \/ \E B, F \in SUBSET Tasks : Start(B, F)

Spec == Init /\ [][Next]_vars
=============================================================================
